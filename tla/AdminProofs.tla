---------------------------- MODULE AdminProofs ----------------------------
EXTENDS ClusterAdmin, FiniteSetTheorems, TLAPS

(***************************************************************************)
(* Proofs about the movers of objstrd: the recovery loop (recovery.rs), the*)
(* repair loop and the operations of the admin API (viz.rs) on the catalog *)
(* and the shards (repair.rs), for any number of shards, objects and       *)
(* requests.                                                               *)
(*                                                                         *)
(* A trim deletes a copy because of what the catalog said some steps ago.  *)
(* It is safe while the catalog names only copies that exist (Backed) and  *)
(* what the worker saw still holds when it acts (Informed); both need one  *)
(* mover at a time (OneMover), which admin_op_lock grants to the operations *)
(* but not to the loops. What an operation delivers follows from what is   *)
(* left of its plan at each point of its course (Duty).                    *)
(***************************************************************************)

----------------------------------------------------------------------------
(* Types and the discipline of each worker.                                *)

\* Types: where objects are, the states of a shard and the reason for them,
\* devices, counts of copies.
Placing == [Objects -> SUBSET Slot]
States == {"Healthy", "Degraded", "Offline", "Detached", "Syncing"}
Reasons == {"none", "missing", "probe", "manual", "drain"}
Devices == {"ok", "silent", "gone"}
Counted == UNION {[D -> Int] : D \in SUBSET Slot}

\* What a rebuild of the catalog has read.
Listings == Placing \cup {<<>>}

\* Where each kind of worker can be.
SweepPcs == {"copy", "trim", "read", "write", "delete", "forget"}
RecoveryPcs == {"idle", "poll", "probe", "reprobe", "sync", "attach", "locked"} \cup SweepPcs
RepairPcs == {"idle", "scan", "swap", "begin"} \cup SweepPcs
AdminPcs == {"idle", "done", "scan", "swap", "begin", "move", "release", "hold", "victim",
             "drain", "erase", "sync", "attach"} \cup SweepPcs
Pcs == RecoveryPcs \cup RepairPcs \cup AdminPcs
Stages == {"none", "sweep", "under", "over", "move"}
Resting == {"idle", "done"}

\* A worker's record.
Job == [pc : Pcs, stage : Stages, shard : 0..Slots, todo : SUBSET Objects,
        key : Objects \cup {"none"}, from : Slot, to : Slot, did : BOOLEAN,
        safe : SUBSET Objects, counts : Counted, moved : Nat, listing : Listings]

\* The types.
AdminTyped ==
    /\ scene \in Scene
    /\ copies \in Placing /\ entry \in Placing
    /\ state \in [Slot -> States]
    /\ why \in [Slot -> Reasons]
    /\ quiet \subseteq Slot
    /\ device \in [Slot -> Devices]
    /\ misses \in [Slot -> Nat]
    /\ running \in Admins \cup {NoOp}
    /\ job \in [Workers -> Job]

\* Where a worker may be: r is its record.
Where(w, r) ==
    /\ w = Recovery => r.pc \in RecoveryPcs
    /\ w = "repair" => r.pc \in RepairPcs
    /\ w \in Loops /\ r.pc # "idle" => w \in scene.loops
    /\ w \in Admins => r.pc \in AdminPcs
    /\ w \in Admins /\ r.pc \in {"sync", "attach"} => OpName(w) = "attach"
    /\ w \in Admins /\ r.pc \notin Resting \cup {"sync", "attach"} =>
          OpName(w) \in Exclusive /\ running = w
    /\ r.pc \in {"hold", "victim", "drain", "erase"} => OpName(w) = "drain" /\ r.shard = OpShard(w)
    /\ w \in Admins /\ r.pc \in {"scan", "swap", "begin"} => OpName(w) # "drain"

\* What it is about to do there.
Doing(w, r) ==
    /\ r.pc = "copy" => r.stage \in {"sweep", "under"}
    /\ r.pc = "trim" => r.stage = "over"
    /\ r.pc = "move" => r.stage = "move"
    /\ r.pc \in {"read", "write"} => r.stage \in {"sweep", "under", "move"} /\ r.key \in Objects
    /\ r.pc \in {"delete", "forget"} => r.stage \in {"over", "move"} /\ r.key \in Objects
    /\ r.stage = "sweep" => w = Recovery
    /\ r.stage = "move" => w \in Admins /\ OpName(w) = "redistribute"
    /\ w \in Admins /\ r.stage \in {"under", "over"} => OpName(w) \in {"repair-replication", "drain"}
    /\ r.pc \in {"probe", "reprobe", "sync", "attach"} => r.shard \in Slot
    /\ r.pc = "swap" => r.listing \in Placing

\* The discipline of a worker.
Disc(w, r) == Where(w, r) /\ Doing(w, r)

\* Types and discipline.
Sane == AdminTyped /\ \A w \in Workers : Disc(w, job[w])

----------------------------------------------------------------------------

\* The shards are finitely many.
LEMMA SlotFacts ==
    /\ Slots \in Nat /\ Slots >= 1 /\ 0 \in Slot /\ Slot \subseteq Nat
    /\ IsFiniteSet(Slot) /\ Cardinality(Slot) = Slots
    /\ \A S \in SUBSET Slot : IsFiniteSet(S) /\ Cardinality(S) \in Nat
    /\ \A S, T \in SUBSET Slot : S \subseteq T => Cardinality(S) <= Cardinality(T)
  <1>1. Slots \in Nat /\ Slots >= 1
    BY AdminAssumption
  <1>2. IsFiniteSet(Slot) /\ Cardinality(Slot) = Slots
    BY <1>1, FS_Interval DEF Slot
  <1>3. \A S \in SUBSET Slot : IsFiniteSet(S) /\ Cardinality(S) \in Nat
    BY <1>2, FS_Subset, FS_CardinalityType
  <1>4. \A S, T \in SUBSET Slot : S \subseteq T => Cardinality(S) <= Cardinality(T)
    BY <1>3, FS_Subset
  <1> QED
    BY <1>1, <1>2, <1>3, <1>4 DEF Slot

\* The workers are told apart by their names.
LEMMA Names ==
    /\ Recovery \in Workers /\ "repair" \in Workers /\ Recovery = "recovery"
    /\ Recovery \in Loops /\ "repair" \in Loops
    /\ \A a \in Admins : a \in Workers /\ a # Recovery /\ a # "repair" /\ a # NoOp /\ a \notin Loops
    /\ \A w \in Workers : w = Recovery \/ w = "repair" \/ w \in Admins
    /\ \A w \in Loops : w = Recovery \/ w = "repair"
  BY AdminAssumption DEF Recovery, Workers, Loops

\* The lists that a sweep works on.
LEMMA ListsAreObjects ==
    Under \subseteq Objects /\ Over \subseteq Objects
  BY DEF Under, Over

\* A batch is a part of its list.
LEMMA BatchesAre ==
    ASSUME NEW S, NEW n, NEW B \in Batches(S, n)
    PROVE  B \subseteq S
  BY DEF Batches

\* The record with which a stage starts.
Started(w, stage, B) ==
    [job[w] EXCEPT !.pc = IF stage = "over" THEN "trim" ELSE "copy",
                   !.stage = stage, !.todo = B,
                   !.did = IF stage = "over" THEN @ ELSE FALSE]

\* How a stage starts.
LEMMA StageDoes ==
    ASSUME NEW w, NEW stage \in {"sweep", "under", "over"}, StartStage(w, stage)
    PROVE  \E B \in SUBSET Objects :
              /\ stage = "under" => B \in Batches(Under, Limit(w))
              /\ stage = "over" => B \in Batches(Over, Limit(w)) /\ B \subseteq Over
              /\ job' = [job EXCEPT ![w] = Started(w, stage, B)]
  <1> DEFINE S == CASE stage = "sweep" -> IF SweepDue THEN Under ELSE {}
                    [] stage = "under" -> Under
                    [] stage = "over" -> Over
  <1>1. /\ S \subseteq Objects
        /\ stage = "under" => S = Under
        /\ stage = "over" => S = Over
    BY ListsAreObjects
  <1>2. PICK B \in Batches(S, Limit(w)) : Continue(w, Started(w, stage, B))
    BY DEF StartStage, Started
  <1> HIDE DEF S
  <1>3. B \subseteq S
    BY BatchesAre
  <1>4. job' = [job EXCEPT ![w] = Started(w, stage, B)]
    BY <1>2 DEF Continue
  <1> QED
    BY <1>1, <1>2, <1>3, <1>4

----------------------------------------------------------------------------
(* Every step keeps the types and the discipline.                          *)

\* The discipline, for one worker.
LEMMA SaneJob ==
    ASSUME Sane, NEW w \in Workers
    PROVE  job[w] \in Job /\ Disc(w, job[w])
  BY DEF Sane, AdminTyped

\* A worker goes on to r and leaves the lock alone.
LEMMA SaneFrame ==
    ASSUME Sane, NEW w \in Workers, NEW r \in Job, Continue(w, r), Disc(w, r),
           scene' = scene, running' = running
    PROVE  job' \in [Workers -> Job] /\ \A v \in Workers : Disc(v, job[v])'
  <1>1. job' = [job EXCEPT ![w] = r]
    BY DEF Continue
  <1>2. job' \in [Workers -> Job]
    BY <1>1 DEF Sane, AdminTyped
  <1> SUFFICES ASSUME NEW v \in Workers
               PROVE  Disc(v, job[v])'
    BY <1>2
  <1>3. Disc(v, job'[v])
    BY <1>1 DEF Sane, AdminTyped
  <1> QED
    BY <1>3 DEF Disc, Where, Doing, OpName, OpShard

\* Giving up an object keeps types and discipline.
LEMMA GiveUpSane ==
    ASSUME Sane, NEW w \in Workers, GiveUp(w), job[w].pc \in {"read", "write", "delete"},
           scene' = scene, running' = running
    PROVE  job' \in [Workers -> Job] /\ \A v \in Workers : Disc(v, job[v])'
  <1> DEFINE j == job[w]
  <1>0. j \in Job /\ Disc(w, j)
    BY SaneJob
  <1>1. CASE Stage(w) = "move"
    <2> DEFINE r == [j EXCEPT !.pc = "move"]
    <2>1. Continue(w, r)
      BY <1>1 DEF GiveUp
    <2>2. r \in Job /\ Disc(w, r)
      BY <1>0, <1>1, Names DEF Job, Disc, Where, Doing, Stage, Pcs, AdminPcs, SweepPcs, RecoveryPcs, RepairPcs, Resting
    <2> QED
      BY <2>1, <2>2, SaneFrame
  <1>2. CASE Stage(w) # "move"
    <2> DEFINE r == [j EXCEPT !.pc = IF @ = "delete" THEN "trim" ELSE "copy", !.todo = @ \ {j.key}]
    <2>1. Continue(w, r)
      BY <1>2 DEF GiveUp
    <2>2. r \in Job /\ Disc(w, r)
      BY <1>0, <1>2, Names, ZenonT(60) DEF Job, Disc, Where, Doing, Stage, Pcs, AdminPcs, SweepPcs, RecoveryPcs, RepairPcs, Resting
    <2> QED
      BY <2>1, <2>2, SaneFrame
  <1> QED
    BY <1>1, <1>2

\* A sweep's read keeps types and discipline.
LEMMA ReadSane ==
    ASSUME Sane, NEW w \in Workers, ReplicateRead(w)
    PROVE  Sane'
  <1>1. job' \in [Workers -> Job] /\ \A v \in Workers : Disc(v, job[v])'
    <2>1. CASE GiveUp(w)
      BY <2>1, GiveUpSane DEF ReplicateRead, AtPc, Shared
    <2>2. CASE Pc(w, "write")
      <3> DEFINE r == [job[w] EXCEPT !.pc = "write"]
      <3>1. r \in Job /\ Disc(w, r)
        BY SaneJob, Names DEF Job, Disc, Where, Doing, Pcs, AdminPcs, SweepPcs, RecoveryPcs, RepairPcs, Resting, ReplicateRead, AtPc
      <3> QED
        BY <2>2, <3>1, SaneFrame DEF Pc, ReplicateRead, Shared
    <2> QED
      BY <2>1, <2>2 DEF ReplicateRead
  <1>2. AdminTyped'
    BY <1>1 DEF Sane, AdminTyped, ReplicateRead, Shared
  <1> QED
    BY <1>1, <1>2 DEF Sane

\* A sweep's write keeps types and discipline.
LEMMA WriteSane ==
    ASSUME Sane, NEW w \in Workers, ReplicateWrite(w)
    PROVE  Sane'
  <1> DEFINE j == job[w]
  <1>0. j \in Job /\ Disc(w, j) /\ j.pc = "write" /\ j.key \in Objects /\ j.to \in Slot
    BY SaneJob DEF ReplicateWrite, AtPc, Job, Disc, Doing
  <1>1. CASE Answering(j.to)
    <2> DEFINE p == IF Stage(w) # "move" THEN "copy"
                    ELSE IF Cardinality((entry[j.key] \cup {j.to}) \cap DOMAIN j.counts) >= Rf
                         THEN "delete" ELSE "move"
               r == [j EXCEPT !.did = TRUE, !.pc = p]
    <2>1. Continue(w, r)
      BY <1>1 DEF ReplicateWrite
    <2>2. \/ Stage(w) # "move" /\ p = "copy"
          \/ Stage(w) = "move" /\ p \in {"delete", "move"}
      OBVIOUS
    <2> HIDE DEF p
    <2>3. r \in Job /\ Disc(w, r)
      BY <1>0, <2>2, Names DEF Job, Disc, Where, Doing, Stage, Pcs, AdminPcs, SweepPcs, RecoveryPcs, RepairPcs, Resting
    <2>4. job' \in [Workers -> Job] /\ \A v \in Workers : Disc(v, job[v])'
      BY <2>1, <2>3, SaneFrame DEF ReplicateWrite
    <2>5. copies' \in Placing /\ entry' \in Placing
      BY <1>0, <1>1 DEF ReplicateWrite, Sane, AdminTyped, Placing
    <2> QED
      BY <2>4, <2>5 DEF Sane, AdminTyped, ReplicateWrite
  <1>2. CASE ~ Answering(j.to)
    <2>1. job' \in [Workers -> Job] /\ \A v \in Workers : Disc(v, job[v])'
      BY <1>0, <1>2, GiveUpSane DEF ReplicateWrite
    <2> QED
      BY <1>2, <2>1 DEF Sane, AdminTyped, ReplicateWrite
  <1> QED
    BY <1>1, <1>2

\* A sweep's delete keeps types and discipline.
LEMMA DeleteSane ==
    ASSUME Sane, NEW w \in Workers, RemoveDelete(w)
    PROVE  Sane'
  <1> DEFINE j == job[w]
  <1>0. j \in Job /\ Disc(w, j) /\ j.pc = "delete" /\ j.key \in Objects
    BY SaneJob DEF RemoveDelete, AtPc, Job, Disc, Doing
  <1>1. CASE Answering(j.from) /\ j.from \in copies[j.key]
    <2> DEFINE r == [j EXCEPT !.pc = "forget"]
    <2>1. Continue(w, r)
      BY <1>1 DEF RemoveDelete, Pc
    <2>3. r \in Job /\ Disc(w, r)
      BY <1>0, Names DEF Job, Disc, Where, Doing, Stage, Pcs, AdminPcs, SweepPcs, RecoveryPcs, RepairPcs, Resting
    <2>4. job' \in [Workers -> Job] /\ \A v \in Workers : Disc(v, job[v])'
      BY <2>1, <2>3, SaneFrame DEF RemoveDelete
    <2>5. copies' \in Placing
      BY <1>0, <1>1 DEF RemoveDelete, Sane, AdminTyped, Placing
    <2> QED
      BY <2>4, <2>5 DEF Sane, AdminTyped, RemoveDelete
  <1>2. CASE ~ (Answering(j.from) /\ j.from \in copies[j.key])
    <2>1. job' \in [Workers -> Job] /\ \A v \in Workers : Disc(v, job[v])'
      BY <1>0, <1>2, GiveUpSane DEF RemoveDelete
    <2> QED
      BY <1>2, <2>1 DEF Sane, AdminTyped, RemoveDelete
  <1> QED
    BY <1>1, <1>2

\* redistribute_sweep keeps counting the same shards.
LEMMA MovedCounts ==
    ASSUME NEW c \in Counted, NEW from \in Slot, NEW to \in Slot
    PROVE  Moved(c, from, to) \in Counted /\ DOMAIN Moved(c, from, to) = DOMAIN c
  <1>1. PICK D \in SUBSET Slot : c \in [D -> Int]
    BY DEF Counted
  <1>2. Moved(c, from, to) \in [D -> Int]
    BY <1>1 DEF Moved
  <1> QED
    BY <1>1, <1>2 DEF Counted

\* A sweep's removal of an entry keeps types and discipline.
LEMMA ForgetSane ==
    ASSUME Sane, NEW w \in Workers, RemoveForget(w)
    PROVE  Sane'
  <1> DEFINE j == job[w]
  <1>0. j \in Job /\ Disc(w, j) /\ j.pc = "forget" /\ j.key \in Objects
    BY SaneJob DEF RemoveForget, AtPc, Job, Disc, Doing
  <1> DEFINE r == IF j.stage = "move"
                  THEN [j EXCEPT !.pc = "move", !.counts = Moved(@, j.from, j.to), !.moved = @ + 1]
                  ELSE [j EXCEPT !.pc = "trim"]
  <1>1. Continue(w, r)
    BY DEF RemoveForget
  <1>2. Moved(j.counts, j.from, j.to) \in Counted
    BY <1>0, MovedCounts DEF Job
  <1>m. j.moved + 1 \in Nat
    BY <1>0 DEF Job
  <1>p. PICK n, c : n = j.moved + 1 /\ c = Moved(j.counts, j.from, j.to)
    OBVIOUS
  <1>r. r \in Job /\ r.stage = j.stage /\ r.pc = (IF j.stage = "move" THEN "move" ELSE "trim")
    <2>1. CASE j.stage = "move"
      <3>1. r = [j EXCEPT !.pc = "move", !.counts = c, !.moved = n]
        BY <1>p, <2>1
      <3>2. c \in Counted /\ n \in Nat
        BY <1>m, <1>p, <1>2
      <3> HIDE DEF r
      <3> QED
        BY <1>0, <2>1, <3>1, <3>2, ZenonT(60) DEF Job, Pcs, AdminPcs
    <2>2. CASE j.stage # "move"
      BY <1>0, <2>2 DEF Job, Pcs, AdminPcs, SweepPcs
    <2> QED
      BY <2>1, <2>2
  <1> HIDE DEF r
  <1>3. Disc(w, r)
    BY <1>0, <1>r, Names DEF Job, Disc, Where, Doing, Stage, Pcs, AdminPcs, SweepPcs, RecoveryPcs, RepairPcs, Resting
  <1>4. job' \in [Workers -> Job] /\ \A v \in Workers : Disc(v, job[v])'
    BY <1>1, <1>r, <1>3, SaneFrame DEF RemoveForget
  <1>5. entry' \in Placing
    BY <1>0 DEF RemoveForget, Forget, Sane, AdminTyped, Placing
  <1> QED
    BY <1>4, <1>5 DEF Sane, AdminTyped, RemoveForget

\* The copy stage keeps types and discipline.
LEMMA CopySane ==
    ASSUME Sane, NEW w \in Workers, CopyNext(w)
    PROVE  Sane'
  <1> DEFINE j == job[w]
  <1>0. j \in Job /\ Disc(w, j) /\ j.pc = "copy"
    BY SaneJob DEF CopyNext, AtPc
  <1>1. PICK k \in j.todo :
          \/ Continue(w, [j EXCEPT !.todo = @ \ {k}])
          \/ \E from \in CopySources(k), to \in CopyTargets(k) :
                Continue(w, [j EXCEPT !.pc = "read", !.todo = Left(w, k),
                                      !.key = k, !.from = from, !.to = to])
    BY DEF CopyNext
  <1>2. k \in Objects
    BY <1>0 DEF Job
  <1>3. job' \in [Workers -> Job] /\ \A v \in Workers : Disc(v, job[v])'
    <2>1. CASE Continue(w, [j EXCEPT !.todo = @ \ {k}])
      <3> DEFINE r == [j EXCEPT !.todo = @ \ {k}]
      <3>1. r \in Job /\ Disc(w, r)
        BY <1>0 DEF Job, Disc, Where, Doing
      <3> QED
        BY <2>1, <3>1, SaneFrame DEF CopyNext, Shared
    <2>2. ASSUME NEW from \in CopySources(k), NEW to \in CopyTargets(k),
                 Continue(w, [j EXCEPT !.pc = "read", !.todo = Left(w, k),
                                      !.key = k, !.from = from, !.to = to])
          PROVE  job' \in [Workers -> Job] /\ \A v \in Workers : Disc(v, job[v])'
      <3>0. from \in Slot /\ to \in Slot /\ Left(w, k) \in SUBSET Objects
        BY <1>0, <1>2 DEF CopySources, CopyTargets, Healthy, Left, Job
      <3> DEFINE r == [j EXCEPT !.pc = "read", !.todo = Left(w, k), !.key = k, !.from = from, !.to = to]
      <3>1. r \in Job /\ Disc(w, r)
        BY <1>0, <1>2, <3>0, Names, ZenonT(60) DEF Job, Disc, Where, Doing, Pcs, AdminPcs, SweepPcs, RecoveryPcs, RepairPcs, Resting
      <3> QED
        BY <2>2, <3>1, SaneFrame DEF CopyNext, Shared
    <2> QED
      BY <1>1, <2>1, <2>2
  <1> QED
    BY <1>3 DEF Sane, AdminTyped, CopyNext, Shared

\* The trim stage keeps types and discipline.
LEMMA TrimSane ==
    ASSUME Sane, NEW w \in Workers, TrimNext(w)
    PROVE  Sane'
  <1> DEFINE j == job[w]
  <1>0. j \in Job /\ Disc(w, j) /\ j.pc = "trim"
    BY SaneJob DEF TrimNext, AtPc
  <1>1. PICK k \in j.todo :
          \/ Continue(w, [j EXCEPT !.todo = @ \ {k}])
          \/ \E s \in Excess(k) :
                Continue(w, [j EXCEPT !.pc = "delete", !.todo = Left(w, k), !.key = k, !.from = s])
    BY DEF TrimNext
  <1>2. k \in Objects
    BY <1>0 DEF Job
  <1>3. job' \in [Workers -> Job] /\ \A v \in Workers : Disc(v, job[v])'
    <2>1. CASE Continue(w, [j EXCEPT !.todo = @ \ {k}])
      <3> DEFINE r == [j EXCEPT !.todo = @ \ {k}]
      <3>1. r \in Job /\ Disc(w, r)
        BY <1>0 DEF Job, Disc, Where, Doing
      <3> QED
        BY <2>1, <3>1, SaneFrame DEF TrimNext, Shared
    <2>2. ASSUME NEW s \in Excess(k),
                 Continue(w, [j EXCEPT !.pc = "delete", !.todo = Left(w, k), !.key = k, !.from = s])
          PROVE  job' \in [Workers -> Job] /\ \A v \in Workers : Disc(v, job[v])'
      <3>0. s \in Slot /\ Left(w, k) \in SUBSET Objects
        BY <1>0, <1>2 DEF Excess, Healthy, Left, Job
      <3> DEFINE r == [j EXCEPT !.pc = "delete", !.todo = Left(w, k), !.key = k, !.from = s]
      <3>1. r \in Job /\ Disc(w, r)
        BY <1>0, <1>2, <3>0, Names, ZenonT(60) DEF Job, Disc, Where, Doing, Pcs, AdminPcs, SweepPcs, RecoveryPcs, RepairPcs, Resting
      <3> QED
        BY <2>2, <3>1, SaneFrame DEF TrimNext, Shared
    <2> QED
      BY <1>1, <2>1, <2>2
  <1> QED
    BY <1>3 DEF Sane, AdminTyped, TrimNext, Shared

\* What follows the end of a stage.
LEMMA StageEndsDoes ==
    ASSUME Sane, NEW w \in Workers, StageEnds(w)
    PROVE  /\ job[w].pc \in {"copy", "trim"} /\ job[w].todo = {} /\ UNCHANGED Shared
           /\ \/ Stage(w) = "sweep" /\ StartStage(w, "under")
              \/ Stage(w) = "sweep" /\ StartStage(w, "over")
              \/ Stage(w) = "under" /\ StartStage(w, "over")
              \/ Stage(w) = "over" /\ w \in Loops /\ Continue(w, NoJob)
              \/ Stage(w) = "over" /\ w = "repair" /\ StartStage(w, "under")
              \/ Stage(w) = "over" /\ w \in Admins /\ Pc(w, "release")
  <1>1. Stage(w) \in {"sweep", "under", "over"}
    BY SaneJob DEF StageEnds, Stage, Disc, Doing
  <1>2. CASE Stage(w) = "sweep"
    <2>1. CASE job[w].did
      BY <1>2, <2>1 DEF StageEnds
    <2>2. CASE ~ job[w].did
      BY <1>2, <2>2 DEF StageEnds
    <2> QED
      BY <2>1, <2>2
  <1>3. CASE Stage(w) = "under"
    BY <1>3 DEF StageEnds
  <1>4. CASE Stage(w) = "over"
    <2>1. CASE w = "recovery"
      BY <1>4, <2>1, Names DEF StageEnds
    <2>2. CASE w = "repair"
      <3>1. IF job[w].did /\ Under # {} THEN StartStage(w, "under") ELSE Continue(w, NoJob)
        BY <1>4, <2>2, Names DEF StageEnds
      <3> QED
        BY <3>1, <1>4, <2>2, Names DEF StageEnds
    <2>3. CASE w \in Admins
      <3>1. Pc(w, "release")
        BY <1>4, <2>3, Names DEF StageEnds
      <3> QED
        BY <3>1, <1>4, <2>3 DEF StageEnds
    <2> QED
      BY <2>1, <2>2, <2>3, Names
  <1> QED
    BY <1>1, <1>2, <1>3, <1>4

\* A stage that starts keeps the discipline.
LEMMA StartedSane ==
    ASSUME Sane, NEW w \in Workers, NEW stage \in {"sweep", "under", "over"}, NEW B \in SUBSET Objects,
           stage = "sweep" => w = Recovery, job[w].pc \notin Resting,
           w \in Admins => /\ job[w].pc \notin {"sync", "attach"}
                           /\ OpName(w) \in {"repair-replication", "drain"}
    PROVE  Started(w, stage, B) \in Job /\ Disc(w, Started(w, stage, B))
  <1> DEFINE j == job[w]
             r == Started(w, stage, B)
  <1>0. j \in Job /\ Disc(w, j)
    BY SaneJob
  <1>1. r \in Job /\ r.stage = stage /\ r.pc = (IF stage = "over" THEN "trim" ELSE "copy")
    <2>1. CASE stage = "over"
      BY <1>0, <2>1, ZenonT(60) DEF Started, Job, Pcs, AdminPcs, SweepPcs, Stages
    <2>2. CASE stage # "over"
      BY <1>0, <2>2, ZenonT(60) DEF Started, Job, Pcs, AdminPcs, SweepPcs, Stages
    <2> QED
      BY <2>1, <2>2
  <1> HIDE DEF r
  <1>2. Where(w, r)
    BY <1>0, <1>1, Names DEF Disc, Where, Pcs, AdminPcs, SweepPcs, RecoveryPcs, RepairPcs, Resting
  <1>3. Doing(w, r)
    BY <1>0, <1>1, Names DEF Doing
  <1> QED
    BY <1>1, <1>2, <1>3 DEF r, Disc

\* A stage starts.
LEMMA StartSane ==
    ASSUME Sane, NEW w \in Workers, NEW stage \in {"sweep", "under", "over"},
           StartStage(w, stage), UNCHANGED Shared,
           stage = "sweep" => w = Recovery, job[w].pc \notin Resting,
           w \in Admins => /\ job[w].pc \notin {"sync", "attach"}
                           /\ OpName(w) \in {"repair-replication", "drain"}
    PROVE  Sane'
  <1>1. PICK B \in SUBSET Objects : job' = [job EXCEPT ![w] = Started(w, stage, B)]
    BY StageDoes
  <1>2. Started(w, stage, B) \in Job /\ Disc(w, Started(w, stage, B))
    BY StartedSane
  <1>3. job' \in [Workers -> Job] /\ \A v \in Workers : Disc(v, job[v])'
    BY <1>1, <1>2, SaneFrame DEF Continue, Shared
  <1> QED
    BY <1>3 DEF Sane, AdminTyped, Shared

\* A listing is empty or a placement.
LEMMA ListingsAre == <<>> \in Listings /\ \A l \in Placing : l \in Listings
  BY DEF Listings

\* The record of a worker at rest.
LEMMA NoJobIs ==
    /\ NoJob \in Job /\ NoJob.pc = "idle" /\ NoJob.stage = "none"
    /\ \A w \in Workers : Disc(w, NoJob)
  <1>1. <<>> \in Counted
    <2>1. <<>> \in [{} -> Int]
      OBVIOUS
    <2> QED
      BY <2>1 DEF Counted
  <1>2. NoJob \in Job /\ NoJob.pc = "idle" /\ NoJob.stage = "none"
    BY <1>1, SlotFacts, ListingsAre DEF NoJob, Job, Pcs, AdminPcs, Stages
  <1> QED
    BY <1>2 DEF Disc, Where, Doing, Resting, AdminPcs, RepairPcs, RecoveryPcs

\* A worker goes on and nothing else changes.
LEMMA SaneAlone ==
    ASSUME Sane, NEW w \in Workers, NEW r \in Job, Continue(w, r), Disc(w, r), UNCHANGED Shared
    PROVE  Sane'
  BY SaneFrame DEF Sane, AdminTyped, Shared

\* The end of a stage keeps types and discipline.
LEMMA StageEndsSane ==
    ASSUME Sane, NEW w \in Workers, StageEnds(w)
    PROVE  Sane'
  <1> DEFINE j == job[w]
  <1>0. j \in Job /\ Disc(w, j) /\ j.pc \in {"copy", "trim"} /\ UNCHANGED Shared
    BY SaneJob, StageEndsDoes
  <1>1. j.pc \notin Resting /\ j.pc \notin {"sync", "attach"}
    BY <1>0 DEF Resting
  <1>2. w \in Admins => OpName(w) \in {"repair-replication", "drain"}
    BY <1>0, Names DEF Disc, Doing
  <1>3. CASE StartStage(w, "under")
    BY <1>0, <1>1, <1>2, <1>3, StartSane
  <1>4. CASE StartStage(w, "over")
    BY <1>0, <1>1, <1>2, <1>4, StartSane
  <1>5. CASE Continue(w, NoJob)
    BY <1>0, <1>5, NoJobIs, SaneAlone
  <1>6. CASE w \in Admins /\ Pc(w, "release") /\ j.stage = "over"
    <2> DEFINE r == [j EXCEPT !.pc = "release"]
    <2>1. r \in Job /\ Disc(w, r)
      BY <1>0, <1>1, <1>6, Names DEF Job, Disc, Where, Doing, Pcs, AdminPcs, SweepPcs, RecoveryPcs, RepairPcs, Resting
    <2> QED
      BY <1>0, <1>6, <2>1, SaneAlone DEF Pc
  <1> QED
    BY <1>3, <1>4, <1>5, <1>6, StageEndsDoes DEF Stage

\* The listing of the shards keeps types and discipline.
LEMMA ScanSane ==
    ASSUME Sane, NEW w \in Workers, RebuildScan(w)
    PROVE  Sane'
  <1> DEFINE j == job[w]
  <1>0. j \in Job /\ Disc(w, j) /\ j.pc = "scan" /\ UNCHANGED Shared
    BY SaneJob DEF RebuildScan, AtPc
  <1>1. PICK scanned \in SUBSET Slot :
          Continue(w, [j EXCEPT !.pc = "swap", !.listing = [k \in Objects |-> copies[k] \cap scanned]])
    BY DEF RebuildScan
  <1> DEFINE l == [k \in Objects |-> copies[k] \cap scanned]
             r == [j EXCEPT !.pc = "swap", !.listing = l]
  <1>2. l \in Placing
    BY DEF Placing
  <1> HIDE DEF l
  <1>3. r \in Job /\ Disc(w, r)
    <2>1. r \in Job /\ r.pc = "swap" /\ r.stage = j.stage /\ r.key = j.key /\ r.shard = j.shard
          /\ r.listing = l
      BY <1>0, <1>2, ListingsAre DEF Job, Pcs, AdminPcs
    <2> HIDE DEF r
    <2>2. Where(w, r)
      BY <1>0, <2>1, Names DEF Disc, Where, AdminPcs, RecoveryPcs, RepairPcs, SweepPcs, Resting
    <2>3. Doing(w, r)
      BY <1>0, <1>2, <2>1 DEF Disc, Doing
    <2> QED
      BY <2>1, <2>2, <2>3 DEF Disc
  <1> QED
    BY <1>0, <1>1, <1>3, SaneAlone DEF l

\* The new catalog keeps types and discipline.
LEMMA SwapSane ==
    ASSUME Sane, NEW w \in Workers, RebuildSwap(w)
    PROVE  Sane'
  <1> DEFINE j == job[w]
             r == [j EXCEPT !.pc = "begin", !.listing = <<>>]
  <1>0. j \in Job /\ Disc(w, j) /\ j.pc = "swap"
    BY SaneJob DEF RebuildSwap, AtPc
  <1>1. entry' \in Placing
    BY <1>0 DEF RebuildSwap, Disc, Doing
  <1>2. r \in Job /\ Disc(w, r)
    <2>1. r \in Job /\ r.pc = "begin" /\ r.stage = j.stage /\ r.key = j.key /\ r.shard = j.shard
          /\ r.listing = <<>>
      BY <1>0, ListingsAre DEF Job, Pcs, AdminPcs
    <2> HIDE DEF r
    <2>2. Where(w, r)
      BY <1>0, <2>1, Names DEF Disc, Where, AdminPcs, RecoveryPcs, RepairPcs, SweepPcs, Resting
    <2>3. Doing(w, r)
      BY <1>0, <2>1 DEF Disc, Doing
    <2> QED
      BY <2>1, <2>2, <2>3 DEF Disc
  <1>3. job' \in [Workers -> Job] /\ \A v \in Workers : Disc(v, job[v])'
    BY <1>2, SaneFrame DEF RebuildSwap
  <1> QED
    BY <1>1, <1>3 DEF Sane, AdminTyped, RebuildSwap

\* The counts are of the shards in service.
LEMMA CountsIs == Counts \in Counted /\ DOMAIN Counts = Healthy
  <1>1. \A s \in Healthy : Cardinality({k \in Objects : s \in entry[k]}) \in Int
    <2> SUFFICES ASSUME NEW s \in Healthy
                 PROVE  Cardinality({k \in Objects : s \in entry[k]}) \in Nat
      OBVIOUS
    <2>1. {k \in Objects : s \in entry[k]} \subseteq Objects
      OBVIOUS
    <2>2. IsFiniteSet({k \in Objects : s \in entry[k]})
      BY <2>1, AdminAssumption, FS_Subset
    <2> QED
      BY <2>2, FS_CardinalityType
  <1>2. Counts \in [Healthy -> Int]
    BY <1>1 DEF Counts
  <1>3. Healthy \in SUBSET Slot
    BY DEF Healthy
  <1> QED
    BY <1>2, <1>3 DEF Counted, Counts

\* The beginning on the catalog keeps types and discipline.
LEMMA BeginSane ==
    ASSUME Sane, NEW w \in Workers, BeginOnCatalog(w)
    PROVE  Sane'
  <1> DEFINE j == job[w]
  <1>0. j \in Job /\ Disc(w, j) /\ j.pc = "begin" /\ UNCHANGED Shared
    BY SaneJob DEF BeginOnCatalog, AtPc
  <1>1. w # Recovery
    BY <1>0 DEF Disc, Where, RecoveryPcs, SweepPcs
  <1>2. CASE w = "repair"
    <2>1. StartStage(w, "under")
      BY <1>2 DEF BeginOnCatalog
    <2> QED
      BY <1>0, <1>2, <2>1, StartSane, Names DEF Resting
  <1>3. CASE w \in Admins
    <2>1. w # "repair" /\ OpName(w) \in Exclusive \ {"drain"} /\ running = w
      BY <1>0, <1>3, Names DEF Disc, Where, Resting
    <2>2. CASE OpName(w) = "repair-replication"
      <3>1. StartStage(w, "under")
        BY <2>1, <2>2 DEF BeginOnCatalog
      <3> QED
        BY <1>0, <2>2, <3>1, StartSane, Names DEF Resting
    <2>3. ASSUME Pc(w, "release") PROVE Sane'
      <3> DEFINE r == [j EXCEPT !.pc = "release"]
      <3>1. r \in Job /\ Disc(w, r)
        BY <1>0, <1>3, <2>1, Names DEF Job, Disc, Where, Doing, Pcs, AdminPcs, SweepPcs, RecoveryPcs, RepairPcs, Resting
      <3> QED
        BY <1>0, <2>3, <3>1, SaneAlone DEF Pc
    <2>4. CASE OpName(w) = "cross-verify"
      <3>1. Pc(w, "release")
        BY <2>1, <2>4 DEF BeginOnCatalog
      <3> QED
        BY <2>3, <3>1
    <2>5. CASE OpName(w) = "redistribute"
      <3> DEFINE r == [j EXCEPT !.pc = "move", !.stage = "move", !.counts = Counts, !.moved = 0]
      <3>1. Pc(w, "release") \/ Continue(w, r)
        BY <2>1, <2>5 DEF BeginOnCatalog
      <3>2. r \in Job /\ Disc(w, r)
        BY <1>0, <1>3, <2>1, <2>5, Names, CountsIs, ZenonT(60) DEF Job, Disc, Where, Doing, Pcs, AdminPcs, SweepPcs, RecoveryPcs, RepairPcs, Resting, Stages
      <3> QED
        BY <1>0, <2>3, <3>1, <3>2, SaneAlone
    <2> QED
      BY <2>1, <2>2, <2>4, <2>5 DEF Exclusive
  <1> QED
    BY <1>1, <1>2, <1>3, Names

\* Sync_and_reattach keeps types and discipline.
LEMMA SyncSane ==
    ASSUME Sane, NEW w \in Workers, SyncObjects(w)
    PROVE  Sane'
  <1> DEFINE j == job[w]
             r == [j EXCEPT !.pc = "attach"]
  <1>0. j \in Job /\ Disc(w, j) /\ j.pc = "sync" /\ j.shard \in Slot
    BY SaneJob DEF SyncObjects, AtPc, Disc, Doing
  <1>1. copies' \in Placing
    <2>1. copies \in Placing
      BY DEF Sane, AdminTyped
    <2>3. PICK stale \in SUBSET Objects :
            copies' = IF Answering(j.shard) THEN [k \in Objects |-> Synced(k, j.shard, k \in stale)] ELSE copies
      BY DEF SyncObjects
    <2>2. \A k \in Objects : Synced(k, j.shard, k \in stale) \in SUBSET Slot
      BY <1>0, <2>1 DEF Synced, Placing
    <2>4. [k \in Objects |-> Synced(k, j.shard, k \in stale)] \in Placing
      BY <2>2 DEF Placing
    <2> QED
      BY <2>1, <2>3, <2>4
  <1>2. r \in Job /\ Disc(w, r)
    BY <1>0, Names DEF Job, Disc, Where, Doing, Pcs, AdminPcs, SweepPcs, RecoveryPcs, RepairPcs, Resting
  <1>3. job' \in [Workers -> Job] /\ \A v \in Workers : Disc(v, job[v])'
    BY <1>2, SaneFrame DEF SyncObjects, Pc
  <1> QED
    BY <1>1, <1>3 DEF Sane, AdminTyped, SyncObjects

\* Taking a shard out of service keeps the types.
LEMMA OutTyped ==
    ASSUME Sane, NEW s \in Slot, NEW h \in States, NEW d \in Reasons, Out(s, h, d)
    PROVE  state' \in [Slot -> States] /\ why' \in [Slot -> Reasons]
  BY DEF Sane, AdminTyped, Out

\* The recovery loop goes on to its next shard.
LEMMA PollJob ==
    ASSUME Sane, job[Recovery].pc \in {"poll", "probe", "reprobe", "attach"}, job[Recovery].shard \in Slot
    PROVE  LET r == [job[Recovery] EXCEPT !.pc = "poll", !.shard = job[Recovery].shard + 1]
           IN  r \in Job /\ Disc(Recovery, r)
  <1> DEFINE j == job[Recovery]
             r == [j EXCEPT !.pc = "poll", !.shard = j.shard + 1]
  <1>0. j \in Job /\ Disc(Recovery, j)
    BY SaneJob, Names
  <1>1. j.shard + 1 \in 0..Slots
    BY SlotFacts DEF Slot
  <1>2. r \in Job /\ r.pc = "poll" /\ r.stage = j.stage /\ r.key = j.key
    BY <1>0, <1>1 DEF Job, Pcs, RecoveryPcs
  <1> HIDE DEF r
  <1>3. Disc(Recovery, r)
    BY <1>0, <1>2, Names DEF Disc, Where, Doing, RecoveryPcs, Resting
  <1> QED
    BY <1>2, <1>3 DEF r

\* The return of a shard keeps types and discipline.
LEMMA AttachSane ==
    ASSUME Sane, NEW w \in Workers, AttachShard(w)
    PROVE  Sane'
  <1> DEFINE j == job[w]
             r == IF w = "recovery" THEN [j EXCEPT !.pc = "poll", !.shard = j.shard + 1]
                  ELSE [j EXCEPT !.pc = "done"]
  <1>0. j \in Job /\ Disc(w, j) /\ j.pc = "attach" /\ j.shard \in Slot
    BY SaneJob DEF AttachShard, AtPc, Disc, Doing
  <1>1. entry' \in Placing
    BY <1>0 DEF AttachShard, Sane, AdminTyped, Placing
  <1>2. state' \in [Slot -> States] /\ why' \in [Slot -> Reasons]
    BY <1>0, OutTyped DEF AttachShard, States, Reasons
  <1>3. r \in Job /\ Disc(w, r)
    <2>1. CASE w = Recovery
      BY <1>0, <2>1, PollJob, Names
    <2>2. CASE w # Recovery
      <3>1. w \in Admins
        BY <1>0, <2>2, Names DEF Disc, Where, RepairPcs, SweepPcs
      <3> QED
        BY <1>0, <2>2, <3>1, Names DEF Job, Disc, Where, Doing, Pcs, AdminPcs, Resting
    <2> QED
      BY <2>1, <2>2
  <1> HIDE DEF r
  <1>4. job' \in [Workers -> Job] /\ \A v \in Workers : Disc(v, job[v])'
    BY <1>3, SaneFrame DEF AttachShard, r
  <1> QED
    BY <1>1, <1>2, <1>4 DEF Sane, AdminTyped, AttachShard

\* A tick of the recovery loop keeps types and discipline.
LEMMA PollBeginsSane ==
    ASSUME Sane, PollBegins
    PROVE  Sane'
  <1> DEFINE r == [NoJob EXCEPT !.pc = "poll"]
  <1>1. r \in Job /\ r.pc = "poll" /\ r.stage = "none" /\ Disc(Recovery, NoJob)
    BY NoJobIs, Names DEF Job, Pcs, RecoveryPcs
  <1> HIDE DEF r
  <1>2. Disc(Recovery, r)
    BY <1>1, Names DEF Disc, Where, Doing, PollBegins, RecoveryPcs, Resting
  <1> QED
    BY <1>1, <1>2, Names, SaneAlone DEF PollBegins, r

\* What a poll of a shard finds.
LEMMA PollDoes ==
    ASSUME Sane, Poll
    PROVE  LET s == job[Recovery].shard
               next == [job[Recovery] EXCEPT !.pc = "poll", !.shard = s + 1]
           IN /\ job[Recovery].pc = "poll" /\ s \in Slot
              /\ \/ /\ s \in Usable /\ device[s] = "gone"
                    /\ Out(s, "Offline", "missing")
                    /\ misses' = [misses EXCEPT ![s] = 0]
                    /\ Continue(Recovery, next)
                 \/ /\ s \in Usable /\ device[s] # "gone"
                    /\ Continue(Recovery, [job[Recovery] EXCEPT !.pc = "probe"])
                    /\ UNCHANGED <<state, why, misses>>
                 \/ /\ ProbeOffline(s)
                    /\ Continue(Recovery, [job[Recovery] EXCEPT !.pc = "reprobe"])
                    /\ UNCHANGED <<state, why, misses>>
                 \/ /\ s \notin Usable /\ ~ ProbeOffline(s)
                    /\ Continue(Recovery, next)
                    /\ UNCHANGED <<state, why, misses>>
              /\ UNCHANGED <<copies, entry, quiet, device, running, scene>>
  <1> DEFINE j == job[Recovery]
             s == j.shard
  <1>0. j \in Job /\ j.pc = "poll" /\ s \in Slot
    BY SaneJob, Names DEF Poll, AtPc
  <1>1. [j EXCEPT !.shard = s + 1] = [j EXCEPT !.pc = "poll", !.shard = s + 1]
    BY <1>0 DEF Job
  <1> QED
    BY <1>0, <1>1 DEF Poll

\* The poll of a shard keeps types and discipline.
LEMMA PollSane ==
    ASSUME Sane, Poll
    PROVE  Sane'
  <1> DEFINE j == job[Recovery]
             s == j.shard
             next == [j EXCEPT !.pc = "poll", !.shard = s + 1]
  <1>0. j \in Job /\ Disc(Recovery, j) /\ j.pc = "poll" /\ s \in Slot
    BY SaneJob, PollDoes, Names
  <1>1. next \in Job /\ Disc(Recovery, next)
    BY <1>0, PollJob
  <1>2. \A p \in {"probe", "reprobe"} : [j EXCEPT !.pc = p] \in Job /\ Disc(Recovery, [j EXCEPT !.pc = p])
    BY <1>0, Names DEF Job, Disc, Where, Doing, Pcs, RecoveryPcs, Resting
  <1> HIDE DEF next
  <1>3. job' \in [Workers -> Job] /\ \A v \in Workers : Disc(v, job[v])'
    BY <1>1, <1>2, PollDoes, SaneFrame, Names DEF next
  <1>4. state' \in [Slot -> States] /\ why' \in [Slot -> Reasons] /\ misses' \in [Slot -> Nat]
    <2>1. CASE Out(s, "Offline", "missing") /\ misses' = [misses EXCEPT ![s] = 0]
      BY <1>0, <2>1, OutTyped DEF States, Reasons, Sane, AdminTyped
    <2>2. CASE UNCHANGED <<state, why, misses>>
      BY <2>2 DEF Sane, AdminTyped
    <2> QED
      BY <2>1, <2>2, PollDoes
  <1> QED
    BY <1>3, <1>4, PollDoes DEF Sane, AdminTyped

\* A probe keeps types and discipline.
LEMMA ProbeSane ==
    ASSUME Sane, ProbeEnds
    PROVE  Sane'
  <1> DEFINE j == job[Recovery]
             s == j.shard
             next == [j EXCEPT !.pc = "poll", !.shard = s + 1]
  <1>0. j \in Job /\ Disc(Recovery, j) /\ j.pc = "probe" /\ s \in Slot
    BY SaneJob, Names DEF ProbeEnds, AtPc, Disc, Doing
  <1>1. next \in Job /\ Disc(Recovery, next)
    BY <1>0, PollJob
  <1> HIDE DEF next
  <1>3. job' \in [Workers -> Job] /\ \A v \in Workers : Disc(v, job[v])'
    BY <1>1, SaneFrame, Names DEF next, ProbeEnds
  <1>4. state' \in [Slot -> States] /\ why' \in [Slot -> Reasons]
    <2>1. CASE Out(s, "Offline", "probe")
      BY <1>0, <2>1, OutTyped DEF States, Reasons
    <2>2. CASE UNCHANGED <<state, why>>
      BY <2>2 DEF Sane, AdminTyped
    <2> QED
      BY <2>1, <2>2 DEF ProbeEnds
  <1>5. misses' \in [Slot -> Nat]
    <2>1. misses \in [Slot -> Nat] /\ misses[s] + 1 \in Nat
      BY <1>0 DEF Sane, AdminTyped
    <2> QED
      BY <1>0, <2>1 DEF ProbeEnds
  <1> QED
    BY <1>3, <1>4, <1>5 DEF Sane, AdminTyped, ProbeEnds

\* The probe of a shard that is out keeps types and discipline.
LEMMA ReprobeSane ==
    ASSUME Sane, ReprobeEnds
    PROVE  Sane'
  <1> DEFINE j == job[Recovery]
             s == j.shard
             next == [j EXCEPT !.pc = "poll", !.shard = s + 1]
             r == [j EXCEPT !.pc = "sync", !.shard = s]
  <1>0. j \in Job /\ Disc(Recovery, j) /\ j.pc = "reprobe" /\ s \in Slot
    BY SaneJob, Names DEF ReprobeEnds, AtPc, Disc, Doing
  <1>1. next \in Job /\ Disc(Recovery, next)
    BY <1>0, PollJob
  <1>2. r \in Job /\ Disc(Recovery, r)
    BY <1>0, Names DEF Job, Disc, Where, Doing, Pcs, RecoveryPcs, Resting
  <1> HIDE DEF next, r
  <1>3. job' \in [Workers -> Job] /\ \A v \in Workers : Disc(v, job[v])'
    BY <1>1, <1>2, SaneFrame, Names DEF next, r, ReprobeEnds, BeginSync
  <1>4. state' \in [Slot -> States]
    BY <1>0 DEF ReprobeEnds, BeginSync, Sane, AdminTyped, States
  <1> QED
    BY <1>3, <1>4 DEF Sane, AdminTyped, ReprobeEnds

\* The look at admin_op_lock keeps types and discipline.
LEMMA CheckSane ==
    ASSUME Sane, CheckAdminOp
    PROVE  Sane'
  <1> DEFINE j == job[Recovery]
             r == [j EXCEPT !.pc = "locked", !.did = running # NoOp]
  <1>0. j \in Job /\ Disc(Recovery, j) /\ j.pc = "poll"
    BY SaneJob, Names DEF CheckAdminOp, AtPc
  <1>1. r \in Job /\ Disc(Recovery, r)
    BY <1>0, Names, ZenonT(60) DEF Job, Disc, Where, Doing, Pcs, RecoveryPcs, Resting
  <1> QED
    BY <1>1, SaneAlone, Names DEF CheckAdminOp

\* The recovery loop's sweeps keeps types and discipline.
LEMMA SweepsSane ==
    ASSUME Sane, SweepsBegin
    PROVE  Sane'
  <1>1. CASE Continue(Recovery, NoJob)
    BY <1>1, NoJobIs, Names, SaneAlone DEF SweepsBegin
  <1>2. CASE StartStage(Recovery, "sweep")
    BY <1>2, StartSane, Names DEF SweepsBegin, AtPc, Resting
  <1> QED
    BY <1>1, <1>2 DEF SweepsBegin

\* A cycle of the repair loop keeps types and discipline.
LEMMA CycleSane ==
    ASSUME Sane, CycleBegins
    PROVE  Sane'
  <1> DEFINE r == [NoJob EXCEPT !.pc = "scan"]
  <1>1. r \in Job /\ r.pc = "scan" /\ r.stage = "none" /\ Disc("repair", NoJob)
    BY NoJobIs, Names DEF Job, Pcs, RepairPcs
  <1> HIDE DEF r
  <1>2. Disc("repair", r)
    BY <1>1, Names DEF Disc, Where, Doing, CycleBegins, RepairPcs, Resting
  <1> QED
    BY <1>1, <1>2, Names, SaneAlone DEF CycleBegins, r

\* The other workers when the lock goes from free to w, or from w to free.
LEMMA SaneLock ==
    ASSUME Sane, NEW w \in Admins, NEW r \in Job, Continue(w, r), scene' = scene,
           running = NoOp \/ running = w, (Disc(w, r))'
    PROVE  job' \in [Workers -> Job] /\ \A v \in Workers : Disc(v, job[v])'
  <1>1. job' = [job EXCEPT ![w] = r] /\ w \in Workers
    BY Names DEF Continue
  <1>2. job' \in [Workers -> Job]
    BY <1>1 DEF Sane, AdminTyped
  <1> SUFFICES ASSUME NEW v \in Workers, v # w
               PROVE  Disc(v, job[v])'
    BY <1>1, <1>2 DEF Sane, AdminTyped
  <1>3. Disc(v, job[v]) /\ job'[v] = job[v]
    BY <1>1 DEF Sane, AdminTyped
  <1>4. v \in Admins => job[v].pc \in Resting \cup {"sync", "attach"}
    BY <1>3, Names DEF Disc, Where
  <1> QED
    BY <1>3, <1>4 DEF Disc, Where, Doing, OpName, OpShard

\* admin_op_lock: a request starts or is turned away.
LEMMA AcquireDoes ==
    ASSUME Sane, NEW a \in Admins, Acquire(a)
    PROVE  /\ job[a].pc = "idle" /\ OpName(a) \in Exclusive
           /\ UNCHANGED <<copies, entry, state, why, quiet, device, misses, scene>>
           /\ \/ running # NoOp /\ running' = running /\ Continue(a, [job[a] EXCEPT !.pc = "done"])
              \/ /\ running = NoOp /\ running' = a
                 /\ \E r \in Job :
                       /\ Continue(a, r) /\ (Disc(a, r))' /\ r.shard = OpShard(a) /\ r.stage = "none"
                       /\ r.pc = IF OpName(a) = "drain" THEN "hold" ELSE "scan"
                       /\ r.did = (OpName(a) = "drain" /\ OpShard(a) \in Usable)
                       /\ r.safe = {}
  <1>1. CASE running # NoOp
    BY <1>1 DEF Acquire, AtPc, Pc
  <1>2. CASE running = NoOp
    <2>0. OpShard(a) \in Slot
      BY DEF OpShard, Sane, AdminTyped, Scene
    <2>1. OpShard(a) \in 0..Slots
      BY <2>0, SlotFacts DEF Slot
    <2> DEFINE p == IF OpName(a) = "drain" THEN "hold" ELSE "scan"
               d == OpName(a) = "drain" /\ OpShard(a) \in Usable
               r == [NoJob EXCEPT !.pc = p, !.shard = OpShard(a), !.did = d]
    <2>2. p \in AdminPcs /\ p \in Pcs /\ d \in BOOLEAN
      BY DEF AdminPcs, Pcs
    <2>3. Continue(a, r) /\ running' = a /\ scene' = scene
      BY <1>2 DEF Acquire
    <2>4. p = IF OpName(a) = "drain" THEN "hold" ELSE "scan"
      OBVIOUS
    <2>5. d = (OpName(a) = "drain" /\ OpShard(a) \in Usable)
      OBVIOUS
    <2>6. NoJob.safe = {}
      BY DEF NoJob
    <2> HIDE DEF p, d
    <2>7. r \in Job /\ r.shard = OpShard(a) /\ r.stage = "none" /\ r.pc = p /\ r.did = d /\ r.safe = {}
      BY <2>1, <2>2, <2>6, NoJobIs DEF Job
    <2>8. PICK q \in Job : q = r
      BY <2>7
    <2>9. (Disc(a, q))'
      <3>1. OpName(a) \in Exclusive /\ OpName(a)' = OpName(a) /\ OpShard(a)' = OpShard(a)
        BY <2>3 DEF Acquire, OpName, OpShard
      <3>2. q.pc = p /\ q.stage = "none" /\ q.shard = OpShard(a)
        BY <2>7, <2>8
      <3>3. CASE OpName(a) = "drain"
        <4>1. q.pc = "hold"
          BY <2>4, <3>2, <3>3
        <4> QED
          BY <2>3, <3>1, <3>2, <3>3, <4>1, Names DEF Disc, Where, Doing, AdminPcs, Resting
      <3>4. CASE OpName(a) # "drain"
        <4>1. q.pc = "scan"
          BY <2>4, <3>2, <3>4
        <4> QED
          BY <2>3, <3>1, <3>2, <3>4, <4>1, Names DEF Disc, Where, Doing, AdminPcs, Resting
      <3> QED
        BY <3>3, <3>4
    <2> QED
      BY <1>2, <2>3, <2>4, <2>5, <2>7, <2>8, <2>9 DEF Acquire, AtPc
  <1> QED
    BY <1>1, <1>2

\* An admin may always be sent to its end.
LEMMA DoneIs ==
    ASSUME Sane, NEW a \in Admins
    PROVE  LET r == [job[a] EXCEPT !.pc = "done"]
           IN  r \in Job /\ Disc(a, r) /\ r.pc = "done"
  BY SaneJob, Names DEF Job, Disc, Where, Doing, Pcs, AdminPcs, Resting

\* A request for admin_op_lock keeps types and discipline.
LEMMA AcquireSane ==
    ASSUME Sane, NEW a \in Admins, Acquire(a)
    PROVE  Sane'
  <1>1. job' \in [Workers -> Job] /\ \A v \in Workers : Disc(v, job[v])'
    <2>1. CASE running # NoOp
      BY <2>1, AcquireDoes, DoneIs, SaneFrame, Names
    <2>2. CASE running = NoOp
      <3>1. PICK r \in Job : Continue(a, r) /\ (Disc(a, r))'
        BY <2>2, AcquireDoes
      <3> QED
        BY <2>2, <3>1, SaneLock, AcquireDoes
    <2> QED
      BY <2>1, <2>2
  <1>2. running' \in Admins \cup {NoOp}
    BY AcquireDoes DEF Sane, AdminTyped
  <1> QED
    BY <1>1, <1>2, AcquireDoes DEF Sane, AdminTyped

\* The next move of redistribute_sweep, or its end.
LEMMA MoveNextDoes ==
    ASSUME Sane, NEW a \in Admins, MoveNext(a)
    PROVE  /\ job[a].pc = "move" /\ UNCHANGED Shared
           /\ \/ /\ Pc(a, "release")
                 /\ \/ job[a].moved >= AdminBatch \/ Balanced(job[a].counts)
                    \/ \E src \in Fullest(job[a].counts), dst \in Emptiest(job[a].counts) :
                          Movable(job[a].counts, src, dst) = {}
              \/ \E src \in Fullest(job[a].counts), dst \in Emptiest(job[a].counts) :
                    \E k \in Movable(job[a].counts, src, dst) :
                       Continue(a, [job[a] EXCEPT !.pc = "read", !.key = k, !.from = src, !.to = dst])
  BY DEF MoveNext, AtPc

\* The next move of redistribute_sweep keeps types and discipline.
LEMMA MoveNextSane ==
    ASSUME Sane, NEW a \in Admins, MoveNext(a)
    PROVE  Sane'
  <1> DEFINE j == job[a]
  <1>0. j \in Job /\ Disc(a, j) /\ j.pc = "move" /\ a \in Workers /\ UNCHANGED Shared
    BY SaneJob, MoveNextDoes, Names
  <1>1. CASE Pc(a, "release")
    <2> DEFINE r == [j EXCEPT !.pc = "release"]
    <2>1. r \in Job /\ Disc(a, r)
      BY <1>0, Names DEF Job, Disc, Where, Doing, Pcs, AdminPcs, Resting
    <2> QED
      BY <1>0, <1>1, <2>1, SaneAlone DEF Pc
  <1>2. ASSUME NEW src \in Fullest(j.counts), NEW dst \in Emptiest(j.counts),
               NEW k \in Movable(j.counts, src, dst),
               Continue(a, [j EXCEPT !.pc = "read", !.key = k, !.from = src, !.to = dst])
        PROVE  Sane'
    <2>1. src \in Slot /\ dst \in Slot
      <3>1. PICK D \in SUBSET Slot : j.counts \in [D -> Int]
        BY <1>0 DEF Job, Counted
      <3> QED
        BY <3>1 DEF Fullest, Emptiest
    <2>2. k \in Objects
      BY DEF Movable
    <2> DEFINE r == [j EXCEPT !.pc = "read", !.key = k, !.from = src, !.to = dst]
    <2>3. r \in Job /\ Disc(a, r)
      BY <1>0, <2>1, <2>2, Names DEF Job, Disc, Where, Doing, Pcs, AdminPcs, SweepPcs, Resting
    <2> QED
      BY <1>0, <1>2, <2>3, SaneAlone
  <1> QED
    BY <1>1, <1>2, MoveNextDoes

\* The end of an operation keeps types and discipline.
LEMMA ReleaseSane ==
    ASSUME Sane, NEW a \in Admins, Release(a)
    PROVE  Sane'
  <1>0. job[a].pc = "release" /\ Disc(a, job[a]) /\ running = a
    BY SaneJob, Names DEF Release, AtPc, Disc, Where, Resting
  <1>1. PICK r \in Job : r = [job[a] EXCEPT !.pc = "done"] /\ Disc(a, r) /\ r.pc = "done"
    BY DoneIs
  <1>2. Continue(a, r)
    BY <1>1 DEF Release, Pc
  <1>3. (Disc(a, r))'
    BY <1>1, Names DEF Release, Disc, Where, Doing, Resting, OpName, OpShard
  <1>4. job' \in [Workers -> Job] /\ \A v \in Workers : Disc(v, job[v])'
    BY <1>0, <1>2, <1>3, SaneLock DEF Release
  <1>5. running' \in Admins \cup {NoOp}
    BY DEF Release, Sane, AdminTyped
  <1> QED
    BY <1>4, <1>5 DEF Sane, AdminTyped, Release

\* The shard a request names.
LEMMA ShardOf ==
    ASSUME Sane, NEW a \in Admins
    PROVE  OpShard(a) \in Slot /\ OpShard(a) \in 0..Slots
  <1>1. OpShard(a) \in Slot
    BY DEF OpShard, Sane, AdminTyped, Scene
  <1> QED
    BY <1>1, SlotFacts DEF Slot

\* Take_shard_offline keeps types and discipline.
LEMMA TakeOfflineSane ==
    ASSUME Sane, NEW a \in Admins, TakeOffline(a)
    PROVE  Sane'
  <1>0. OpShard(a) \in Slot
    BY ShardOf
  <1>1. state' \in [Slot -> States] /\ why' \in [Slot -> Reasons] /\ quiet' \subseteq Slot
    BY <1>0, OutTyped DEF TakeOffline, States, Reasons, Sane, AdminTyped
  <1>2. job' \in [Workers -> Job] /\ \A v \in Workers : Disc(v, job[v])'
    <2>1. PICK r : r = [job[a] EXCEPT !.pc = "done", !.did = InPoll(OpShard(a))]
      OBVIOUS
    <2>2. job[a] \in Job /\ InPoll(OpShard(a)) \in BOOLEAN
      BY SaneJob, Names DEF InPoll
    <2>3. r \in Job /\ r.pc = "done" /\ r.stage = job[a].stage
      BY <2>1, <2>2, ZenonT(60) DEF Job, Pcs, AdminPcs
    <2>4. Disc(a, r)
      BY <2>3, SaneJob, Names DEF Disc, Where, Doing, Resting, AdminPcs
    <2> QED
      BY <2>1, <2>3, <2>4, SaneFrame, Names DEF TakeOffline
  <1> QED
    BY <1>1, <1>2 DEF Sane, AdminTyped, TakeOffline

\* A request to attach keeps types and discipline.
LEMMA AttachRequestSane ==
    ASSUME Sane, NEW a \in Admins, AttachRequest(a)
    PROVE  Sane'
  <1> DEFINE j == job[a]
             s == OpShard(a)
             at(p) == [j EXCEPT !.pc = p, !.shard = s]
  <1>0. s \in Slot /\ s \in 0..Slots /\ j \in Job /\ Disc(a, j) /\ j.pc = "idle" /\ OpName(a) = "attach"
    BY ShardOf, SaneJob, Names DEF AttachRequest, AtPc
  <1>1. \A p \in {"sync", "attach"} : at(p) \in Job /\ Disc(a, at(p))
    BY <1>0, Names, ZenonT(60) DEF Job, Disc, Where, Doing, Pcs, AdminPcs, Resting
  <1>2. Pc(a, "done") \/ Continue(a, at("sync")) \/ Continue(a, at("attach"))
    BY DEF AttachRequest, BeginSync
  <1>3. job' \in [Workers -> Job] /\ \A v \in Workers : Disc(v, job[v])'
    BY <1>1, <1>2, DoneIs, SaneFrame, Names DEF AttachRequest, Pc
  <1>4. state' \in [Slot -> States]
    BY <1>0 DEF AttachRequest, BeginSync, Sane, AdminTyped, States
  <1> QED
    BY <1>3, <1>4 DEF Sane, AdminTyped, AttachRequest

\* The record of a drain.
LEMMA DrainJob ==
    ASSUME Sane, NEW a \in Admins, job[a].pc \in {"hold", "victim", "drain", "erase"}
    PROVE  /\ job[a] \in Job /\ Disc(a, job[a]) /\ a \in Workers
           /\ OpName(a) = "drain" /\ job[a].shard = OpShard(a) /\ job[a].shard \in Slot /\ running = a
  BY SaneJob, ShardOf, Names DEF Disc, Where, Resting

\* The hold of drain_shard keeps types and discipline.
LEMMA HoldSane ==
    ASSUME Sane, NEW a \in Admins, DrainHold(a)
    PROVE  Sane'
  <1> DEFINE r == [job[a] EXCEPT !.pc = "victim"]
  <1>0. job[a].pc = "hold"
    BY DEF DrainHold, AtPc
  <1>1. r \in Job /\ Disc(a, r)
    BY <1>0, DrainJob, Names DEF Job, Disc, Where, Doing, Pcs, AdminPcs, Resting
  <1>2. job' \in [Workers -> Job] /\ \A v \in Workers : Disc(v, job[v])'
    BY <1>1, SaneFrame, Names DEF DrainHold, Pc
  <1>3. state' \in [Slot -> States] /\ why' \in [Slot -> Reasons] /\ quiet' \subseteq Slot
    BY <1>0, DrainJob, OutTyped DEF DrainHold, States, Reasons, Sane, AdminTyped
  <1> QED
    BY <1>2, <1>3 DEF Sane, AdminTyped, DrainHold

\* The victim's listing keeps types and discipline.
LEMMA ListSane ==
    ASSUME Sane, NEW a \in Admins, DrainList(a)
    PROVE  Sane'
  <1>0. job[a].pc = "victim" /\ UNCHANGED Shared
    BY DEF DrainList, AtPc
  <1>1. PICK listed \in SUBSET Objects : Continue(a, [job[a] EXCEPT !.pc = "drain", !.todo = listed])
    BY DEF DrainList
  <1> DEFINE r == [job[a] EXCEPT !.pc = "drain", !.todo = listed]
  <1>2. r \in Job /\ Disc(a, r)
    BY <1>0, DrainJob, Names, ZenonT(60) DEF Job, Disc, Where, Doing, Pcs, AdminPcs, Resting
  <1> QED
    BY <1>0, <1>1, <1>2, SaneAlone, Names

\* The record of a drain after object k.
Drained(a, k, safe) ==
    [job[a] EXCEPT !.todo = @ \ {k}, !.safe = IF safe THEN @ \cup {k} ELSE @]

\* A put of object k to the survivors T, of which placed took it.
Rescued(a, k, T, placed, ok) ==
    /\ placed = {t \in T : Answering(t)}
    /\ ok <=> Cardinality(placed) >= MinPlaced
    /\ copies' = [copies EXCEPT ![k] = IF ok \/ entry[k] # {} THEN @ \cup placed ELSE @]
    /\ entry' = IF ok THEN [entry EXCEPT ![k] = placed] ELSE entry
    /\ state' = [t \in Slot |-> IF t \notin T \ placed THEN state[t]
                               ELSE IF placed = {} THEN "Offline" ELSE "Degraded"]
    /\ Continue(a, Drained(a, k, ok))

\* drain_shard on one object: it is safe, or lost, or rescued.
LEMMA DrainNextDoes ==
    ASSUME Sane, NEW a \in Admins, DrainNext(a)
    PROVE  \E k \in job[a].todo :
             \/ /\ SafeAlready(k, job[a].shard) \/ ~ Answering(job[a].shard) \/ job[a].shard \notin copies[k]
                /\ Continue(a, Drained(a, k, SafeAlready(k, job[a].shard)))
                /\ UNCHANGED <<copies, entry, state>>
             \/ /\ ~ SafeAlready(k, job[a].shard) /\ Answering(job[a].shard) /\ job[a].shard \in copies[k]
                /\ \E T \in SurvivorTargets, placed \in SUBSET Slot, ok \in BOOLEAN :
                      Rescued(a, k, T, placed, ok)
  <1> DEFINE v == job[a].shard
  <1>1. PICK k \in job[a].todo :
             \/ /\ SafeAlready(k, v) \/ ~ Answering(v) \/ v \notin copies[k]
                /\ Continue(a, Drained(a, k, SafeAlready(k, v)))
                /\ UNCHANGED <<copies, entry, state>>
             \/ /\ ~ SafeAlready(k, v) /\ Answering(v) /\ v \in copies[k]
                /\ \E T \in SurvivorTargets :
                    LET placed == {t \in T : Answering(t)}
                        ok == Cardinality(placed) >= MinPlaced
                    IN /\ copies' = [copies EXCEPT ![k] = IF ok \/ entry[k] # {}
                                                          THEN @ \cup placed ELSE @]
                       /\ entry' = IF ok THEN [entry EXCEPT ![k] = placed] ELSE entry
                       /\ state' = [t \in Slot |->
                            IF t \notin T \ placed THEN state[t]
                            ELSE IF placed = {} THEN "Offline" ELSE "Degraded"]
                       /\ Continue(a, Drained(a, k, ok))
    BY DEF DrainNext, Drained
  <1>2. CASE ~ SafeAlready(k, v) /\ Answering(v) /\ v \in copies[k]
    <2>1. PICK T \in SurvivorTargets :
                    LET placed == {t \in T : Answering(t)}
                        ok == Cardinality(placed) >= MinPlaced
                    IN /\ copies' = [copies EXCEPT ![k] = IF ok \/ entry[k] # {}
                                                          THEN @ \cup placed ELSE @]
                       /\ entry' = IF ok THEN [entry EXCEPT ![k] = placed] ELSE entry
                       /\ state' = [t \in Slot |->
                            IF t \notin T \ placed THEN state[t]
                            ELSE IF placed = {} THEN "Offline" ELSE "Degraded"]
                       /\ Continue(a, Drained(a, k, ok))
      BY <1>1, <1>2
    <2> DEFINE placed == {t \in T : Answering(t)}
               ok == Cardinality(placed) >= MinPlaced
    <2>2. placed \in SUBSET Slot /\ ok \in BOOLEAN /\ (ok <=> Cardinality(placed) >= MinPlaced)
          /\ placed = {t \in T : Answering(t)}
      BY DEF SurvivorTargets, Usable
    <2>3. /\ copies' = [copies EXCEPT ![k] = IF ok \/ entry[k] # {} THEN @ \cup placed ELSE @]
          /\ entry' = IF ok THEN [entry EXCEPT ![k] = placed] ELSE entry
          /\ state' = [t \in Slot |-> IF t \notin T \ placed THEN state[t]
                                      ELSE IF placed = {} THEN "Offline" ELSE "Degraded"]
          /\ Continue(a, Drained(a, k, ok))
      BY <2>1
    <2>4. Rescued(a, k, T, placed, ok)
      BY <2>2, <2>3 DEF Rescued
    <2> HIDE DEF placed, ok
    <2> QED
      BY <1>2, <2>2, <2>4
  <1>3. CASE ~ (~ SafeAlready(k, v) /\ Answering(v) /\ v \in copies[k])
    BY <1>1, <1>3
  <1> QED
    BY <1>2, <1>3

\* The record after it.
LEMMA DrainedIs ==
    ASSUME Sane, NEW a \in Admins, NEW k \in Objects, NEW safe \in BOOLEAN, job[a].pc = "drain"
    PROVE  /\ Drained(a, k, safe) \in Job /\ Disc(a, Drained(a, k, safe))
           /\ Drained(a, k, safe).pc = "drain"
           /\ Drained(a, k, safe).shard = job[a].shard
           /\ Drained(a, k, safe).todo = job[a].todo \ {k}
           /\ Drained(a, k, safe).safe = IF safe THEN job[a].safe \cup {k} ELSE job[a].safe
  <1>0. job[a] \in Job /\ Disc(a, job[a])
    BY DrainJob
  <1>1. /\ Drained(a, k, safe) \in Job
        /\ Drained(a, k, safe).pc = "drain"
        /\ Drained(a, k, safe).shard = job[a].shard
        /\ Drained(a, k, safe).stage = job[a].stage
        /\ Drained(a, k, safe).todo = job[a].todo \ {k}
        /\ Drained(a, k, safe).safe = IF safe THEN job[a].safe \cup {k} ELSE job[a].safe
    <2>1. CASE safe
      BY <1>0, <2>1 DEF Drained, Job
    <2>2. CASE ~ safe
      BY <1>0, <2>2 DEF Drained, Job
    <2> QED
      BY <2>1, <2>2
  <1>2. Disc(a, Drained(a, k, safe))
    BY <1>0, <1>1 DEF Disc, Where, Doing
  <1> QED
    BY <1>1, <1>2

\* Drain_shard on an object keeps types and discipline.
LEMMA DrainNextSane ==
    ASSUME Sane, NEW a \in Admins, DrainNext(a)
    PROVE  Sane'
  <1>0. /\ job[a].pc = "drain" /\ job[a] \in Job
        /\ UNCHANGED <<why, quiet, device, misses, running, scene>>
    BY DrainJob, SaneJob, Names DEF DrainNext, AtPc
  <1>1. PICK k \in job[a].todo, safe \in BOOLEAN :
          /\ Continue(a, Drained(a, k, safe))
          /\ copies' \in Placing /\ entry' \in Placing /\ state' \in [Slot -> States]
    <2>1. PICK k \in job[a].todo :
             \/ /\ Continue(a, Drained(a, k, SafeAlready(k, job[a].shard)))
                /\ UNCHANGED <<copies, entry, state>>
             \/ \E T \in SurvivorTargets, placed \in SUBSET Slot, ok \in BOOLEAN :
                      Rescued(a, k, T, placed, ok)
      BY DrainNextDoes
    <2>2. SafeAlready(k, job[a].shard) \in BOOLEAN /\ k \in Objects
      BY <1>0 DEF SafeAlready, Job
    <2>3. copies \in Placing /\ entry \in Placing /\ state \in [Slot -> States]
      BY DEF Sane, AdminTyped
    <2>4. CASE Continue(a, Drained(a, k, SafeAlready(k, job[a].shard))) /\ UNCHANGED <<copies, entry, state>>
      BY <2>2, <2>3, <2>4
    <2>5. ASSUME NEW T \in SurvivorTargets, NEW placed \in SUBSET Slot, NEW ok \in BOOLEAN,
                 Rescued(a, k, T, placed, ok)
          PROVE  copies' \in Placing /\ entry' \in Placing /\ state' \in [Slot -> States]
      <3>1. copies' \in Placing /\ entry' \in Placing
        BY <2>2, <2>3, <2>5 DEF Placing, Rescued
      <3>2. state' \in [Slot -> States]
        BY <2>3, <2>5 DEF States, Rescued
      <3> QED
        BY <3>1, <3>2
    <2> QED
      BY <2>1, <2>4, <2>5 DEF Rescued
  <1>2. k \in Objects
    BY <1>0 DEF Job
  <1>3. job' \in [Workers -> Job] /\ \A v \in Workers : Disc(v, job[v])'
    BY <1>0, <1>1, <1>2, DrainedIs, SaneFrame, Names
  <1> QED
    BY <1>0, <1>1, <1>3 DEF Sane, AdminTyped

\* The victim's removal from the catalog keeps types and discipline.
LEMMA PurgeSane ==
    ASSUME Sane, NEW a \in Admins, DrainPurge(a)
    PROVE  Sane'
  <1> DEFINE r == [job[a] EXCEPT !.pc = "erase"]
  <1>0. job[a].pc = "drain"
    BY DEF DrainPurge, AtPc
  <1>1. r \in Job /\ Disc(a, r)
    BY <1>0, DrainJob, Names DEF Job, Disc, Where, Doing, Pcs, AdminPcs, Resting
  <1>2. job' \in [Workers -> Job] /\ \A v \in Workers : Disc(v, job[v])'
    BY <1>1, SaneFrame, Names DEF DrainPurge, Pc
  <1>3. entry' \in Placing
    BY DEF DrainPurge, Sane, AdminTyped, Placing
  <1> QED
    BY <1>2, <1>3 DEF Sane, AdminTyped, DrainPurge

\* The erasure of the victim keeps types and discipline.
LEMMA EraseSane ==
    ASSUME Sane, NEW a \in Admins, DrainErase(a)
    PROVE  Sane'
  <1>0. job[a].pc = "erase"
    BY DEF DrainErase, AtPc
  <1>1. PICK k \in job[a].safe :
          /\ copies' = IF Answering(job[a].shard) THEN [copies EXCEPT ![k] = @ \ {job[a].shard}] ELSE copies
          /\ Continue(a, [job[a] EXCEPT !.safe = @ \ {k}])
    BY DEF DrainErase
  <1> DEFINE r == [job[a] EXCEPT !.safe = @ \ {k}]
  <1>2. r \in Job /\ Disc(a, r)
    BY <1>0, DrainJob DEF Job, Disc, Where, Doing
  <1>3. job' \in [Workers -> Job] /\ \A v \in Workers : Disc(v, job[v])'
    BY <1>1, <1>2, SaneFrame, Names DEF DrainErase
  <1>4. copies' \in Placing
    BY <1>0, <1>1, DrainJob DEF Sane, AdminTyped, Placing, Job
  <1> QED
    BY <1>3, <1>4 DEF Sane, AdminTyped, DrainErase

\* The sweep that ends a drain keeps types and discipline.
LEMMA DrainSweepSane ==
    ASSUME Sane, NEW a \in Admins, DrainSweep(a)
    PROVE  Sane'
  <1>0. job[a].pc = "erase" /\ UNCHANGED Shared /\ StartStage(a, "under")
    BY DEF DrainSweep, AtPc
  <1> QED
    BY <1>0, DrainJob, StartSane, Names DEF Resting

\* A failing device keeps types and discipline.
LEMMA DeviceSane ==
    ASSUME Sane, NEW s \in Slot, DeviceFails(s) \/ DeviceReturns(s)
    PROVE  Sane'
  <1>1. scene' \in Scene /\ scene'.ops = scene.ops /\ scene'.loops = scene.loops
    <2>1. CASE DeviceReturns(s)
      BY <2>1 DEF DeviceReturns, Sane, AdminTyped
    <2>2. CASE DeviceFails(s)
      <3>1. scene.failures - 1 \in Nat
        BY <2>2 DEF DeviceFails, Sane, AdminTyped, Scene
      <3> QED
        BY <2>2, <3>1 DEF DeviceFails, Sane, AdminTyped, Scene
    <2> QED
      BY <2>1, <2>2
  <1>2. device' \in [Slot -> Devices]
    BY DEF DeviceFails, DeviceReturns, Sane, AdminTyped, Devices
  <1>3. /\ UNCHANGED <<copies, entry, state, why, quiet, misses, running, job>>
    BY DEF DeviceFails, DeviceReturns
  <1>4. \A v \in Workers : Disc(v, job[v])'
    BY <1>1, <1>3 DEF Sane, Disc, Where, Doing, OpName, OpShard
  <1> QED
    BY <1>1, <1>2, <1>3, <1>4 DEF Sane, AdminTyped

\* A step of a sweep keeps types and discipline.
LEMMA SweepStepSane ==
    ASSUME Sane, NEW w \in Workers, SweepStep(w)
    PROVE  Sane'
  BY ReadSane, WriteSane, DeleteSane, ForgetSane, CopySane, TrimSane, StageEndsSane, ScanSane,
     SwapSane, BeginSane, SyncSane, AttachSane DEF SweepStep

\* Every step keeps types and discipline.
LEMMA NextSane ==
    ASSUME Sane, [AdminNext]_adminVars
    PROVE  Sane'
  <1>1. CASE RecoveryStep
    BY <1>1, PollBeginsSane, PollSane, ProbeSane, ReprobeSane, CheckSane, SweepsSane, SweepStepSane, Names
       DEF RecoveryStep
  <1>2. CASE RepairStep
    BY <1>2, CycleSane, SweepStepSane, Names DEF RepairStep
  <1>3. CASE DeviceStep
    BY <1>3, DeviceSane DEF DeviceStep
  <1>4. ASSUME NEW a \in Admins, OperationStep(a)
        PROVE  Sane'
    BY <1>4, MoveNextSane, ReleaseSane, HoldSane, ListSane, DrainNextSane, PurgeSane, EraseSane,
       DrainSweepSane, SweepStepSane, Names DEF OperationStep
  <1>5. ASSUME NEW a \in Admins, RequestStep(a)
        PROVE  Sane'
    BY <1>5, AcquireSane, TakeOfflineSane, AttachRequestSane DEF RequestStep
  <1>6. CASE UNCHANGED adminVars
    BY <1>6 DEF adminVars, Sane, AdminTyped, Disc, Where, Doing, OpName, OpShard
  <1> QED
    BY <1>1, <1>2, <1>3, <1>4, <1>5, <1>6 DEF AdminNext

\* They hold initially.
LEMMA InitSane ==
    ASSUME AdminInit
    PROVE  Sane
  <1>1. scene \in Scene
    BY AdminAssumption DEF AdminInit
  <1>2. scene.placed \in Placing
    BY <1>1 DEF Scene, Placing
  <1>3. AdminTyped
    BY <1>1, <1>2, NoJobIs DEF AdminInit, AdminTyped, States, Reasons, Devices
  <1>4. \A w \in Workers : Disc(w, job[w])
    BY NoJobIs DEF AdminInit
  <1> QED
    BY <1>3, <1>4 DEF Sane

\* The records of a sweep: an object skipped, copied, trimmed.
Dropped(w, k) == [job[w] EXCEPT !.todo = @ \ {k}]
Copying(w, k, from, to) ==
    [job[w] EXCEPT !.pc = "read", !.todo = Left(w, k), !.key = k, !.from = from, !.to = to]
Trimming(w, k, s) == [job[w] EXCEPT !.pc = "delete", !.todo = Left(w, k), !.key = k, !.from = s]

\* What the copy stage does with an object.
LEMMA CopyDoes ==
    ASSUME Sane, NEW w \in Workers, CopyNext(w)
    PROVE  /\ job[w].pc = "copy" /\ job[w].stage \in {"sweep", "under"} /\ UNCHANGED Shared
           /\ \E k \in job[w].todo :
                /\ k \in Objects
                /\ \/ /\ CopySources(k) = {} \/ CopyTargets(k) = {} \/ (~ Once(w) /\ k \notin Under)
                      /\ job' = [job EXCEPT ![w] = Dropped(w, k)]
                   \/ \E from \in CopySources(k), to \in CopyTargets(k) :
                        /\ from \in Slot /\ to \in Slot
                        /\ ~ Once(w) => k \in Under
                        /\ job' = [job EXCEPT ![w] = Copying(w, k, from, to)]
  <1>1. job[w] \in Job /\ Disc(w, job[w])
    BY SaneJob
  <1>2. job[w].pc = "copy" /\ job[w].stage \in {"sweep", "under"} /\ UNCHANGED Shared
    BY <1>1 DEF CopyNext, AtPc, Disc, Doing
  <1>3. \A k \in Objects : CopySources(k) \subseteq Slot /\ CopyTargets(k) \subseteq Slot
    BY DEF CopySources, CopyTargets, Healthy
  <1>4. PICK k \in job[w].todo :
          \/ /\ CopySources(k) = {} \/ CopyTargets(k) = {} \/ (~ Once(w) /\ k \notin Under)
             /\ Continue(w, Dropped(w, k))
          \/ /\ ~ (CopySources(k) = {} \/ CopyTargets(k) = {} \/ (~ Once(w) /\ k \notin Under))
             /\ \E from \in CopySources(k), to \in CopyTargets(k) : Continue(w, Copying(w, k, from, to))
    BY DEF CopyNext, Dropped, Copying
  <1>5. k \in Objects
    BY <1>1 DEF Job
  <1> QED
    BY <1>2, <1>3, <1>4, <1>5 DEF Continue

\* What the trim stage does with an object.
LEMMA TrimDoes ==
    ASSUME Sane, NEW w \in Workers, TrimNext(w)
    PROVE  /\ job[w].pc = "trim" /\ job[w].stage = "over" /\ UNCHANGED Shared
           /\ \E k \in job[w].todo :
                /\ k \in Objects
                /\ \/ Excess(k) = {} /\ job' = [job EXCEPT ![w] = Dropped(w, k)]
                   \/ \E s \in Excess(k) :
                        s \in Slot /\ job' = [job EXCEPT ![w] = Trimming(w, k, s)]
  <1>1. job[w] \in Job /\ Disc(w, job[w])
    BY SaneJob
  <1>2. job[w].pc = "trim" /\ job[w].stage = "over" /\ UNCHANGED Shared
    BY <1>1 DEF TrimNext, AtPc, Disc, Doing
  <1>3. \A k \in Objects : Excess(k) \subseteq Slot
    BY DEF Excess, Healthy
  <1>4. PICK k \in job[w].todo :
          \/ Excess(k) = {} /\ Continue(w, Dropped(w, k))
          \/ \E s \in Excess(k) : Continue(w, Trimming(w, k, s))
    BY DEF TrimNext, Dropped, Trimming
  <1>5. k \in Objects
    BY <1>1 DEF Job
  <1> QED
    BY <1>2, <1>3, <1>4, <1>5 DEF Continue

\* The fields of such a record.
LEMMA DroppedIs ==
    ASSUME Sane, NEW w \in Workers, NEW k
    PROVE  LET r == Dropped(w, k)
           IN  /\ r \in Job /\ r.todo = job[w].todo \ {k}
               /\ r.pc = job[w].pc /\ r.stage = job[w].stage /\ r.key = job[w].key
               /\ r.from = job[w].from /\ r.to = job[w].to /\ r.shard = job[w].shard
               /\ r.safe = job[w].safe /\ r.listing = job[w].listing /\ r.counts = job[w].counts
  BY SaneJob DEF Dropped, Job

\* What is left of the list.
LEMMA LeftIs ==
    ASSUME Sane, NEW w \in Workers, NEW k
    PROVE  /\ Left(w, k) \in SUBSET Objects
           /\ w \in Admins => Left(w, k) = job[w].todo
  <1>1. job[w].todo \in SUBSET Objects
    BY SaneJob DEF Job
  <1> QED
    BY <1>1, Names DEF Left, Once

\* The fields of such a record.
LEMMA CopyingIs ==
    ASSUME Sane, NEW w \in Workers, NEW k \in Objects, NEW from \in Slot, NEW to \in Slot
    PROVE  LET r == Copying(w, k, from, to)
           IN  /\ r \in Job /\ r.todo = Left(w, k) /\ r.key = k /\ r.from = from /\ r.to = to
               /\ r.pc = "read" /\ r.stage = job[w].stage
               /\ r.safe = job[w].safe /\ r.listing = job[w].listing /\ r.shard = job[w].shard
  BY SaneJob, LeftIs, ZenonT(60) DEF Copying, Job, Pcs, RecoveryPcs, SweepPcs

\* The fields of such a record.
LEMMA TrimmingIs ==
    ASSUME Sane, NEW w \in Workers, NEW k \in Objects, NEW s \in Slot
    PROVE  LET r == Trimming(w, k, s)
           IN  /\ r \in Job /\ r.todo = Left(w, k) /\ r.key = k /\ r.from = s
               /\ r.pc = "delete" /\ r.stage = job[w].stage
               /\ r.safe = job[w].safe /\ r.listing = job[w].listing /\ r.shard = job[w].shard
  BY SaneJob, LeftIs, ZenonT(60) DEF Trimming, Job, Pcs, RecoveryPcs, SweepPcs

----------------------------------------------------------------------------
(* Without failures, nothing is ever probed back into service.             *)

\* Where a shard returns to service.
Returning == {"reprobe", "sync", "attach"}

\* Where no sweep is.
Parked == Returning \cup {"probe", "hold", "victim", "drain", "erase"}

\* A sweep changes neither states, devices nor other workers.
LEMMA SweepKeepsOut ==
    ASSUME Sane, NEW w \in Workers, SweepStep(w), job[w].pc \notin Returning
    PROVE  /\ \A v \in Workers : v # w => job'[v] = job[v]
           /\ job'[w].pc \notin Parked /\ job'[w].pc \notin Returning
           /\ UNCHANGED <<state, why, quiet, device, misses, running, scene>>
  <1> DEFINE Good == /\ \A v \in Workers : v # w => job'[v] = job[v]
                     /\ job'[w].pc \notin Parked
                     /\ UNCHANGED <<state, why, quiet, device, misses, running, scene>>
  <1> SUFFICES Good
    BY DEF Parked
  <1>0. job \in [Workers -> Job] /\ job[w] \in Job
    BY DEF Sane, AdminTyped
  <1>1. ASSUME NEW r \in Job, Continue(w, r), r.pc \notin Parked,
               UNCHANGED <<state, why, quiet, device, misses, running, scene>>
        PROVE  Good
    BY <1>0, <1>1 DEF Continue
  <1> HIDE DEF Good
  <1>2. ASSUME NEW p \in Pcs \ Parked, Pc(w, p),
               UNCHANGED <<state, why, quiet, device, misses, running, scene>>
        PROVE  Good
    <2>1. [job[w] EXCEPT !.pc = p] \in Job /\ [job[w] EXCEPT !.pc = p].pc = p
      BY <1>0 DEF Job
    <2> QED
      BY <1>1, <1>2, <2>1 DEF Pc
  <1>3. ASSUME GiveUp(w), UNCHANGED <<state, why, quiet, device, misses, running, scene>>
        PROVE  Good
    <2>1. CASE Stage(w) = "move"
      BY <1>2, <1>3, <2>1 DEF GiveUp, Pc, Pcs, AdminPcs, Returning, Parked
    <2>2. CASE Stage(w) # "move"
      <3> DEFINE r == [job[w] EXCEPT !.pc = IF @ = "delete" THEN "trim" ELSE "copy",
                                     !.todo = @ \ {job[w].key}]
      <3>1. r \in Job /\ r.pc \notin Parked
        <4> DEFINE p == IF job[w].pc = "delete" THEN "trim" ELSE "copy"
        <4>1. p \in {"trim", "copy"} /\ r = [job[w] EXCEPT !.pc = p, !.todo = @ \ {job[w].key}]
          OBVIOUS
        <4> HIDE DEF p, r
        <4>2. p \in Pcs /\ p \notin Parked
          BY <4>1 DEF Pcs, AdminPcs, SweepPcs, Parked, Returning
        <4>3. r \in Job /\ r.pc = p
          BY <1>0, <4>1, <4>2 DEF Job
        <4> QED
          BY <4>2, <4>3
      <3>2. Continue(w, r)
        BY <1>3, <2>2 DEF GiveUp
      <3> QED
        BY <1>1, <1>3, <3>1, <3>2
    <2> QED
      BY <2>1, <2>2
  <1>4. ASSUME NEW stage \in {"sweep", "under", "over"}, StartStage(w, stage),
               UNCHANGED <<state, why, quiet, device, misses, running, scene>>
        PROVE  Good
    <2>1. PICK B \in SUBSET Objects : job' = [job EXCEPT ![w] = Started(w, stage, B)]
      BY <1>4, StageDoes
    <2>2. Started(w, stage, B).pc \notin Parked
      BY <1>0 DEF Started, Job, Returning, Parked
    <2> QED
      BY <1>0, <1>4, <2>1, <2>2 DEF Good
  <1>5. CASE ReplicateRead(w)
    BY <1>2, <1>3, <1>5 DEF ReplicateRead, Shared, Pcs, AdminPcs, SweepPcs, Returning, Parked
  <1>6. CASE ReplicateWrite(w)
    <2> DEFINE p == IF Stage(w) # "move" THEN "copy"
                    ELSE IF Cardinality((entry[job[w].key] \cup {job[w].to}) \cap DOMAIN job[w].counts) >= Rf
                         THEN "delete" ELSE "move"
               r == [job[w] EXCEPT !.did = TRUE, !.pc = p]
    <2>1. GiveUp(w) \/ Continue(w, r)
      BY <1>6 DEF ReplicateWrite
    <2>2. p \in Pcs \ Parked
      BY DEF Pcs, AdminPcs, SweepPcs, Returning, Parked
    <2> HIDE DEF p
    <2>3. r \in Job /\ r.pc \notin Parked
      BY <1>0, <2>2 DEF Job
    <2> QED
      BY <1>1, <1>3, <1>6, <2>1, <2>3 DEF ReplicateWrite
  <1>7. CASE RemoveDelete(w)
    BY <1>2, <1>3, <1>7 DEF RemoveDelete, Pcs, AdminPcs, SweepPcs, Returning, Parked
  <1>8. CASE RemoveForget(w)
    <2>1. job'[w].pc \in {"move", "trim"} /\ \A v \in Workers : v # w => job'[v] = job[v]
      BY <1>0, <1>8 DEF RemoveForget, Continue, Job
    <2> QED
      BY <1>8, <2>1 DEF Good, RemoveForget, Returning, Parked
  <1>9. CASE CopyNext(w)
    <2>1. job'[w].pc \in {"copy", "read"} /\ \A v \in Workers : v # w => job'[v] = job[v]
      <3>1. PICK r \in Job : job' = [job EXCEPT ![w] = r] /\ r.pc \in {"copy", "read"}
        BY <1>9, CopyDoes, DroppedIs, CopyingIs
      <3> QED
        BY <1>0, <3>1
    <2> QED
      BY <1>9, <2>1 DEF Good, CopyNext, Returning, Parked, Shared
  <1>10. CASE TrimNext(w)
    <2>1. job'[w].pc \in {"trim", "delete"} /\ \A v \in Workers : v # w => job'[v] = job[v]
      <3>1. PICK r \in Job : job' = [job EXCEPT ![w] = r] /\ r.pc \in {"trim", "delete"}
        BY <1>10, TrimDoes, DroppedIs, TrimmingIs
      <3> QED
        BY <1>0, <3>1
    <2> QED
      BY <1>10, <2>1 DEF Good, TrimNext, Returning, Parked, Shared
  <1>11. CASE StageEnds(w)
    BY <1>1, <1>2, <1>4, <1>11, StageEndsDoes, NoJobIs DEF Shared, Pcs, AdminPcs, Returning, Parked
  <1>12. CASE RebuildScan(w) \/ RebuildSwap(w)
    <2>1. job'[w].pc \in {"swap", "begin"} /\ \A v \in Workers : v # w => job'[v] = job[v]
      <3>1. CASE RebuildScan(w)
        <4>1. PICK l : Continue(w, [job[w] EXCEPT !.pc = "swap", !.listing = l])
          BY <3>1 DEF RebuildScan
        <4> QED
          BY <1>0, <4>1 DEF Continue, Job
      <3>2. CASE RebuildSwap(w)
        BY <1>0, <3>2 DEF RebuildSwap, Continue, Job
      <3> QED
        BY <1>12, <3>1, <3>2
    <2> QED
      BY <1>12, <2>1 DEF Good, RebuildScan, RebuildSwap, Returning, Parked, Shared
  <1>13. CASE BeginOnCatalog(w)
    <2>1. UNCHANGED <<state, why, quiet, device, misses, running, scene>>
      BY <1>13 DEF BeginOnCatalog, Shared
    <2>2. \/ StartStage(w, "under")
          \/ Pc(w, "release")
          \/ Continue(w, [job[w] EXCEPT !.pc = "move", !.stage = "move", !.counts = Counts, !.moved = 0])
      <3>1. job[w].pc = "begin" /\ Disc(w, job[w])
        BY <1>13, SaneJob DEF BeginOnCatalog, AtPc
      <3>2. w = "repair" \/ OpName(w) \in {"repair-replication", "cross-verify", "redistribute"}
        BY <3>1, Names DEF Disc, Where, RecoveryPcs, SweepPcs, Exclusive, Resting
      <3> QED
        BY <1>13, <3>2 DEF BeginOnCatalog
    <2> DEFINE r == [job[w] EXCEPT !.pc = "move", !.stage = "move", !.counts = Counts, !.moved = 0]
    <2>3. r \in Job /\ r.pc = "move"
      BY <1>0, CountsIs DEF Job, Pcs, AdminPcs, Stages
    <2> QED
      BY <1>1, <1>2, <1>4, <2>1, <2>2, <2>3 DEF Pcs, AdminPcs, Returning, Parked
  <1>14. CASE SyncObjects(w) \/ AttachShard(w)
    BY <1>14 DEF SyncObjects, AttachShard, AtPc, Returning
  <1> QED
    BY <1>5, <1>6, <1>7, <1>8, <1>9, <1>10, <1>11, <1>12, <1>13, <1>14 DEF SweepStep, Good

\* No device fails, and so no shard is ever found missing or brought back.
Calm ==
    /\ scene.failures = 0
    /\ \A s \in Slot : device[s] = "ok"
    /\ \A s \in Slot : state[s] \in {"Healthy", "Detached"}
    /\ job[Recovery].pc \notin Returning

\* Without a request to attach, the admin API returns no shard.
LEMMA AdminRests ==
    ASSUME Sane, NEW a \in Admins, "attach" \notin OpsAsked
    PROVE  job[a].pc \notin Returning /\ OpName(a) # "attach"
  <1>1. OpName(a) # "attach"
    BY DEF OpsAsked
  <1> QED
    BY <1>1, SaneJob, Names DEF Disc, Where, AdminPcs, SweepPcs, Returning

\* What leaves states and devices alone keeps them calm.
LEMMA CalmFrame ==
    ASSUME Calm, UNCHANGED <<state, device, scene>>, job'[Recovery].pc \notin Returning
    PROVE  Calm'
  BY DEF Calm

\* Sweeps keep calm.
LEMMA CalmSweeps ==
    ASSUME Sane, Calm, "attach" \notin OpsAsked, NEW w \in Workers, SweepStep(w)
    PROVE  Calm'
  <1>1. job[w].pc \notin Returning
    BY AdminRests, SaneJob, Names DEF Calm, Disc, Where, RepairPcs, SweepPcs, Returning
  <1>2. /\ \A v \in Workers : v # w => job'[v] = job[v]
        /\ job'[w].pc \notin Returning
        /\ UNCHANGED <<state, why, quiet, device, misses, running, scene>>
    BY <1>1, SweepKeepsOut
  <1>3. job'[Recovery].pc \notin Returning
    BY <1>2, Names DEF Calm
  <1> QED
    BY <1>2, <1>3, CalmFrame

\* The recovery loop keeps calm.
LEMMA CalmRecovery ==
    ASSUME Sane, Calm, "attach" \notin OpsAsked, RecoveryStep
    PROVE  Calm'
  <1>0. job \in [Workers -> Job] /\ job[Recovery] \in Job /\ Recovery \in Workers
    BY Names DEF Sane, AdminTyped
  <1>1. CASE PollBegins
    BY <1>0, <1>1, CalmFrame, NoJobIs DEF PollBegins, Continue, Job, Shared, Returning
  <1>2. CASE Poll
    <2>1. job[Recovery].shard \in Slot
      BY <1>2, PollDoes
    <2>2. device[job[Recovery].shard] # "gone" /\ ~ ProbeOffline(job[Recovery].shard)
      BY <2>1 DEF Calm, ProbeOffline
    <2>3. /\ UNCHANGED <<state, device, scene>>
          /\ \/ Continue(Recovery, [job[Recovery] EXCEPT !.pc = "poll", !.shard = job[Recovery].shard + 1])
             \/ Continue(Recovery, [job[Recovery] EXCEPT !.pc = "probe"])
      BY <1>2, <2>2, PollDoes
    <2>4. job'[Recovery].pc \in {"poll", "probe"}
      BY <1>0, <2>3, ZenonT(60) DEF Continue, Job
    <2> QED
      BY <2>3, <2>4, CalmFrame DEF Returning
  <1>3. CASE ProbeEnds
    <2>1. job[Recovery].shard \in Slot
      BY <1>3, SaneJob, Names DEF ProbeEnds, AtPc, Disc, Doing
    <2>2. Answering(job[Recovery].shard)
      BY <2>1 DEF Calm, Answering
    <2>3. UNCHANGED <<state, device, scene>>
      BY <1>3, <2>2 DEF ProbeEnds
    <2>4. job'[Recovery].pc = "poll"
      BY <1>0, <1>3 DEF ProbeEnds, Continue, Job
    <2> QED
      BY <2>3, <2>4, CalmFrame DEF Returning
  <1>4. CASE ReprobeEnds
    BY <1>4 DEF ReprobeEnds, AtPc, Calm, Returning
  <1>5. CASE CheckAdminOp
    BY <1>0, <1>5, CalmFrame DEF CheckAdminOp, Continue, Job, Shared, Returning
  <1>6. CASE SweepsBegin
    <2>1. job'[Recovery].pc \in {"idle", "copy"}
      <3>1. CASE Continue(Recovery, NoJob)
        BY <1>0, <3>1, NoJobIs DEF Continue
      <3>2. CASE StartStage(Recovery, "sweep")
        <4>1. PICK B \in SUBSET Objects : job' = [job EXCEPT ![Recovery] = Started(Recovery, "sweep", B)]
          BY <3>2, StageDoes
        <4> QED
          BY <1>0, <4>1 DEF Started, Job
      <3> QED
        BY <1>6, <3>1, <3>2 DEF SweepsBegin
    <2> QED
      BY <1>6, <2>1, CalmFrame DEF SweepsBegin, Shared, Returning
  <1>7. CASE SweepStep(Recovery)
    BY <1>0, <1>7, CalmSweeps
  <1> QED
    BY <1>1, <1>2, <1>3, <1>4, <1>5, <1>6, <1>7 DEF RecoveryStep

\* The steps of an admin leave the jobs of the loops alone.
LEMMA AdminsOwn ==
    ASSUME Sane, NEW a \in Admins, NEW r, Continue(a, r)
    PROVE  job'[Recovery] = job[Recovery]
  BY Names DEF Sane, AdminTyped, Continue

\* An operation keeps calm.
LEMMA CalmOperation ==
    ASSUME Sane, Calm, "attach" \notin OpsAsked, NEW a \in Admins, OperationStep(a)
    PROVE  Calm'
  <1>0. job[Recovery].pc \notin Returning
    BY DEF Calm
  <1>1. CASE MoveNext(a)
    BY <1>0, <1>1, AdminsOwn, CalmFrame, MoveNextDoes DEF Shared, Pc
  <1>2. CASE Release(a)
    BY <1>0, <1>2, AdminsOwn, CalmFrame DEF Release, Pc
  <1>3. CASE DrainHold(a)
    <2>1. job'[Recovery] = job[Recovery]
      BY <1>3, AdminsOwn DEF DrainHold, Pc
    <2>2. \A s \in Slot : state'[s] \in {"Healthy", "Detached"}
      BY <1>3 DEF DrainHold, Out, Calm, Sane, AdminTyped
    <2> QED
      BY <1>3, <2>1, <2>2 DEF DrainHold, Calm
  <1>4. CASE DrainList(a)
    <2>1. job'[Recovery] = job[Recovery]
      BY <1>4, AdminsOwn DEF DrainList
    <2> QED
      BY <1>0, <1>4, <2>1, CalmFrame DEF DrainList, Shared
  <1>5. CASE DrainNext(a)
    <2>1. PICK k \in job[a].todo :
             \/ /\ Continue(a, Drained(a, k, SafeAlready(k, job[a].shard)))
                /\ UNCHANGED state
             \/ \E T \in SurvivorTargets, placed \in SUBSET Slot, ok \in BOOLEAN :
                      Rescued(a, k, T, placed, ok)
      BY <1>5, DrainNextDoes
    <2>2. job'[Recovery] = job[Recovery]
      BY <2>1, AdminsOwn DEF Rescued
    <2>3. \A s \in Slot : state'[s] = state[s]
      <3>1. ASSUME NEW T \in SurvivorTargets, NEW placed \in SUBSET Slot, NEW ok \in BOOLEAN,
                   Rescued(a, k, T, placed, ok)
            PROVE  \A s \in Slot : state'[s] = state[s]
        <4>1. T \subseteq placed
          BY <3>1 DEF Rescued, SurvivorTargets, Usable, Calm, Answering
        <4> QED
          BY <3>1, <4>1 DEF Rescued
      <3> QED
        BY <2>1, <3>1
    <2> QED
      BY <1>5, <2>2, <2>3 DEF Calm, DrainNext
  <1>6. CASE DrainPurge(a)
    BY <1>0, <1>6, AdminsOwn, CalmFrame DEF DrainPurge, Pc
  <1>7. CASE DrainErase(a)
    <2>1. job'[Recovery] = job[Recovery]
      BY <1>7, AdminsOwn DEF DrainErase
    <2> QED
      BY <1>0, <1>7, <2>1, CalmFrame DEF DrainErase
  <1>8. CASE DrainSweep(a)
    <2>1. PICK B \in SUBSET Objects : Continue(a, Started(a, "under", B))
      BY <1>8, StageDoes DEF DrainSweep, Continue
    <2> QED
      BY <1>0, <1>8, <2>1, AdminsOwn, CalmFrame DEF DrainSweep, Shared
  <1>9. CASE SweepStep(a)
    BY <1>9, CalmSweeps, Names
  <1> QED
    BY <1>1, <1>2, <1>3, <1>4, <1>5, <1>6, <1>7, <1>8, <1>9 DEF OperationStep

\* A request keeps calm.
LEMMA CalmRequest ==
    ASSUME Sane, Calm, "attach" \notin OpsAsked, NEW a \in Admins, RequestStep(a)
    PROVE  Calm'
  <1>0. job[Recovery].pc \notin Returning
    BY DEF Calm
  <1>1. CASE Acquire(a)
    BY <1>0, <1>1, AcquireDoes, AdminsOwn, CalmFrame
  <1>2. CASE TakeOffline(a)
    <2>1. job'[Recovery] = job[Recovery]
      BY <1>2, AdminsOwn DEF TakeOffline, Pc
    <2>2. \A s \in Slot : state'[s] \in {"Healthy", "Detached"}
      BY <1>2 DEF TakeOffline, Out, Calm, Sane, AdminTyped
    <2> QED
      BY <1>2, <2>1, <2>2 DEF TakeOffline, Calm
  <1>3. CASE AttachRequest(a)
    BY <1>3, AdminRests DEF AttachRequest
  <1> QED
    BY <1>1, <1>2, <1>3 DEF RequestStep

\* Every step keeps calm.
LEMMA NextCalm ==
    ASSUME Sane, Calm, "attach" \notin OpsAsked, [AdminNext]_adminVars
    PROVE  Calm'
  <1>1. CASE RepairStep
    <2>1. CASE CycleBegins
      <3>1. job'[Recovery] = job[Recovery]
        BY <2>1, Names DEF CycleBegins, Continue, Sane, AdminTyped
      <3> QED
        BY <2>1, <3>1, CalmFrame DEF CycleBegins, Shared, Calm
    <2> QED
      BY <1>1, <2>1, CalmSweeps, Names DEF RepairStep
  <1>2. CASE DeviceStep
    BY <1>2 DEF DeviceStep, DeviceFails, DeviceReturns, Answering, Calm
  <1>3. CASE UNCHANGED adminVars
    BY <1>3 DEF adminVars, Calm
  <1> QED
    BY <1>1, <1>2, <1>3, CalmRecovery, CalmOperation, CalmRequest DEF AdminNext

\* What is asked for, and which loops run, is settled at the start.
LEMMA SceneKept ==
    ASSUME Sane, [AdminNext]_adminVars
    PROVE  /\ scene'.ops = scene.ops /\ scene'.loops = scene.loops /\ scene'.factor = scene.factor
           /\ scene'.placed = scene.placed /\ scene'.faults = scene.faults
           /\ OpsAsked' = OpsAsked /\ Alone' = Alone /\ OneMover' = OneMover
           /\ FaultsCovered' = FaultsCovered
           /\ \A a \in Admins : OpName(a)' = OpName(a) /\ OpShard(a)' = OpShard(a)
  <1>1. scene' = scene \/ scene' = [scene EXCEPT !.failures = @ - 1]
    <2>1. CASE RecoveryStep \/ RepairStep
      BY <2>1 DEF RecoveryStep, RepairStep, SweepStep, Shared, PollBegins, Poll, ProbeEnds, ReprobeEnds,
         CheckAdminOp, SweepsBegin, CycleBegins, ReplicateRead, ReplicateWrite, RemoveDelete, RemoveForget,
         CopyNext, TrimNext, StageEnds, RebuildScan, RebuildSwap, BeginOnCatalog, SyncObjects, AttachShard
    <2>2. CASE DeviceStep
      BY <2>2 DEF DeviceStep, DeviceFails, DeviceReturns
    <2>3. ASSUME NEW a \in Admins, OperationStep(a) \/ RequestStep(a)
          PROVE  scene' = scene
      BY <2>3 DEF OperationStep, RequestStep, SweepStep, Shared, MoveNext, Release, DrainHold, DrainList,
         DrainNext, DrainPurge, DrainErase, DrainSweep, Acquire, TakeOffline, AttachRequest,
         ReplicateRead, ReplicateWrite, RemoveDelete, RemoveForget,
         CopyNext, TrimNext, StageEnds, RebuildScan, RebuildSwap, BeginOnCatalog, SyncObjects, AttachShard
    <2>4. CASE UNCHANGED adminVars
      BY <2>4 DEF adminVars
    <2> QED
      BY <2>1, <2>2, <2>3, <2>4 DEF AdminNext
  <1>2. /\ scene'.ops = scene.ops /\ scene'.loops = scene.loops
        /\ scene'.factor = scene.factor /\ scene'.placed = scene.placed
        /\ scene'.faults = scene.faults
    BY <1>1 DEF Sane, AdminTyped, Scene
  <1>3. OpsAsked' = OpsAsked /\ Alone' = Alone /\ \A a \in Admins : OpName(a)' = OpName(a) /\ OpShard(a)' = OpShard(a)
    BY <1>2 DEF OpsAsked, Alone, OpName, OpShard
  <1>4. OneMover' = OneMover
    BY <1>2 DEF OneMover, OpName
  <1>5. FaultsCovered' = FaultsCovered
    BY <1>2 DEF FaultsCovered, OpName, Rf
  <1> QED
    BY <1>2, <1>3, <1>4, <1>5

----------------------------------------------------------------------------
(* A shard held offline stays so.                                          *)

\* Out by hand, and the recovery loop is not about to act on it.
PutAway(s) == state[s] = "Detached" /\ ~ InPoll(s)
Held == \A a \in Admins : job[a].pc = "done" /\ ~ job[a].did => PutAway(OpShard(a))

\* The inductive invariant.
HoldInv ==
    /\ Sane
    /\ OpsAsked = {"take-offline"} => Held

\* Nothing but requests to take shards offline.
LEMMA OnlyHolds ==
    ASSUME Sane, OpsAsked = {"take-offline"}
    PROVE  /\ "attach" \notin OpsAsked
           /\ \A a \in Admins : job[a].pc \in Resting /\ (OpName(a) = "take-offline" \/ OpName(a) = "nothing")
  <1> SUFFICES ASSUME NEW a \in Admins
               PROVE  job[a].pc \in Resting /\ (OpName(a) = "take-offline" \/ OpName(a) = "nothing")
    OBVIOUS
  <1>1. OpName(a) = "take-offline" \/ OpName(a) = "nothing"
    BY DEF OpsAsked
  <1>2. OpName(a) \notin Exclusive /\ OpName(a) # "attach"
    BY <1>1 DEF Exclusive
  <1>3. Disc(a, job[a])
    BY SaneJob, Names
  <1> QED
    BY <1>1, <1>2, <1>3 DEF Disc, Where

\* A step of the recovery loop is no step of a request.
LEMMA RecoveryTouches ==
    ASSUME Sane, RecoveryStep
    PROVE  \A a \in Admins : job'[a] = job[a]
  <1>1. ASSUME NEW r, Continue(Recovery, r)
        PROVE  \A a \in Admins : job'[a] = job[a]
    BY <1>1, Names DEF Continue, Sane, AdminTyped
  <1>2. CASE SweepStep(Recovery) /\ job[Recovery].pc \notin Returning
    BY <1>2, SweepKeepsOut, Names
  <1>3. CASE SweepStep(Recovery) /\ job[Recovery].pc \in Returning
    <2>1. SyncObjects(Recovery) \/ AttachShard(Recovery)
      BY <1>3 DEF SweepStep, ReplicateRead, ReplicateWrite, RemoveDelete, RemoveForget, CopyNext, TrimNext,
         StageEnds, RebuildScan, RebuildSwap, BeginOnCatalog, AtPc, Returning
    <2> QED
      BY <1>1, <2>1 DEF SyncObjects, AttachShard, Pc
  <1>4. CASE Poll
    BY <1>1, <1>4, PollDoes
  <1>5. CASE SweepsBegin
    <2>1. CASE StartStage(Recovery, "sweep")
      BY <1>1, <2>1, StageDoes DEF Continue
    <2> QED
      BY <1>1, <1>5, <2>1 DEF SweepsBegin
  <1> QED
    BY <1>1, <1>2, <1>3, <1>4, <1>5
       DEF RecoveryStep, PollBegins, ProbeEnds, ReprobeEnds, BeginSync, CheckAdminOp

\* No step of the recovery loop brings a shard back that it was not busy with.
LEMMA RecoveryLeaves ==
    ASSUME Sane, RecoveryStep, NEW s \in Slot, PutAway(s)
    PROVE  PutAway(s)' /\ \A a \in Admins : job'[a] = job[a]
  <1> DEFINE j == job[Recovery]
             t == j.shard
  <1>0. /\ job \in [Workers -> Job] /\ j \in Job /\ Disc(Recovery, j) /\ Recovery \in Workers
        /\ state \in [Slot -> States] /\ state[s] = "Detached" /\ ~ InPoll(s)
        /\ \A a \in Admins : a \in Workers /\ a # Recovery
    BY SaneJob, Names DEF Sane, AdminTyped, PutAway
  <1>1. ASSUME NEW r, Continue(Recovery, r), state'[s] = "Detached",
               r.pc \in {"probe", "reprobe", "sync", "attach"} => r.shard # s
        PROVE  PutAway(s)' /\ \A a \in Admins : job'[a] = job[a]
    <2>1. job'[Recovery] = r /\ \A a \in Admins : job'[a] = job[a]
      BY <1>0, <1>1 DEF Continue
    <2> QED
      BY <1>1, <2>1 DEF PutAway, InPoll
  <1>2. j.pc \in {"probe", "reprobe", "sync", "attach"} => t \in Slot /\ t # s
    BY <1>0 DEF InPoll, Disc, Doing
  <1>3. CASE SweepStep(Recovery) /\ j.pc \notin Returning
    <2>1. /\ \A v \in Workers : v # Recovery => job'[v] = job[v]
          /\ job'[Recovery].pc \notin {"probe", "reprobe", "sync", "attach"}
          /\ state' = state
      BY <1>0, <1>3, SweepKeepsOut DEF Parked, Returning
    <2> QED
      BY <1>0, <2>1 DEF PutAway, InPoll
  <1>4. CASE SweepStep(Recovery) /\ j.pc \in Returning
    <2>1. SyncObjects(Recovery) \/ AttachShard(Recovery)
      BY <1>4 DEF SweepStep, ReplicateRead, ReplicateWrite, RemoveDelete, RemoveForget, CopyNext, TrimNext,
         StageEnds, RebuildScan, RebuildSwap, BeginOnCatalog, AtPc, Returning
    <2>2. CASE SyncObjects(Recovery)
      <3>1. PICK r : r = [j EXCEPT !.pc = "attach"]
        OBVIOUS
      <3>2. r.shard = t
        BY <1>0, <3>1 DEF Job
      <3> QED
        BY <1>0, <1>1, <1>2, <1>4, <2>2, <3>1, <3>2 DEF SyncObjects, Pc, Returning
    <2>3. CASE AttachShard(Recovery)
      <3>1. PICK r : r = [j EXCEPT !.pc = "poll", !.shard = t + 1]
        OBVIOUS
      <3>2. r.pc = "poll"
        BY <1>0, <3>1 DEF Job
      <3>3. Continue(Recovery, r)
        BY <2>3, <3>1, Names DEF AttachShard
      <3>4. \E h, why0 : Out(t, h, why0)
        BY <2>3 DEF AttachShard
      <3>5. state'[s] = "Detached"
        BY <1>0, <1>2, <1>4, <3>4 DEF Out, Returning
      <3> QED
        BY <1>1, <3>2, <3>3, <3>5
    <2> QED
      BY <2>1, <2>2, <2>3
  <1>5. CASE Poll
    <2>0. /\ j.pc = "poll" /\ t \in Slot
          /\ \/ /\ t \in Usable
                /\ Out(t, "Offline", "missing")
                /\ Continue(Recovery, [j EXCEPT !.pc = "poll", !.shard = t + 1])
             \/ /\ t \in Usable
                /\ Continue(Recovery, [j EXCEPT !.pc = "probe"])
                /\ state' = state
             \/ /\ ProbeOffline(t)
                /\ Continue(Recovery, [j EXCEPT !.pc = "reprobe"])
                /\ state' = state
             \/ /\ Continue(Recovery, [j EXCEPT !.pc = "poll", !.shard = t + 1])
                /\ state' = state
      BY <1>5, PollDoes
    <2>1. t \in Usable \/ ProbeOffline(t) => t # s
      BY <1>0 DEF Usable, ProbeOffline
    <2>2. /\ [j EXCEPT !.pc = "poll", !.shard = t + 1].pc = "poll"
          /\ [j EXCEPT !.pc = "probe"].shard = t /\ [j EXCEPT !.pc = "reprobe"].shard = t
      BY <1>0 DEF Job
    <2>3. CASE Out(t, "Offline", "missing") /\ t \in Usable /\ Continue(Recovery, [j EXCEPT !.pc = "poll", !.shard = t + 1])
      <3>1. state'[s] = "Detached"
        BY <1>0, <2>0, <2>1, <2>3 DEF Out
      <3> QED
        BY <1>1, <2>2, <2>3, <3>1
    <2>4. CASE state' = state
      <3>1. state'[s] = "Detached"
        BY <1>0, <2>4
      <3>2. PICK r : /\ Continue(Recovery, r)
                     /\ r.pc \in {"probe", "reprobe", "sync", "attach"} => r.shard # s
        BY <2>0, <2>1, <2>2
      <3> QED
        BY <1>1, <3>1, <3>2
    <2> QED
      BY <2>0, <2>3, <2>4
  <1>6. CASE ProbeEnds
    <2>1. j.pc = "probe" /\ Continue(Recovery, [j EXCEPT !.pc = "poll", !.shard = t + 1])
      BY <1>6 DEF ProbeEnds, AtPc
    <2>2. [j EXCEPT !.pc = "poll", !.shard = t + 1].pc = "poll"
      BY <1>0 DEF Job
    <2>3. state' = state \/ Out(t, "Offline", "probe")
      BY <1>6 DEF ProbeEnds
    <2>4. state'[s] = "Detached"
      BY <1>0, <1>2, <2>1, <2>3 DEF Out
    <2> QED
      BY <1>1, <2>1, <2>2, <2>4
  <1>7. CASE ReprobeEnds
    <2>1. j.pc = "reprobe"
      BY <1>7 DEF ReprobeEnds, AtPc
    <2>2. CASE BeginSync(Recovery, t)
      <3>1. [j EXCEPT !.pc = "sync", !.shard = t].shard = t
        BY <1>0 DEF Job
      <3>2. state'[s] = "Detached"
        BY <1>0, <1>2, <2>1, <2>2 DEF BeginSync
      <3> QED
        BY <1>1, <1>2, <2>1, <2>2, <3>1, <3>2 DEF BeginSync
    <2>3. CASE Continue(Recovery, [j EXCEPT !.pc = "poll", !.shard = t + 1]) /\ state' = state
      <3>1. [j EXCEPT !.pc = "poll", !.shard = t + 1].pc = "poll"
        BY <1>0 DEF Job
      <3> QED
        BY <1>0, <1>1, <2>3, <3>1
    <2> QED
      BY <1>7, <2>2, <2>3 DEF ReprobeEnds
  <1>8. CASE PollBegins \/ CheckAdminOp
    <2>1. PICK r : Continue(Recovery, r) /\ r.pc \in {"poll", "locked"}
      <3>1. CASE PollBegins
        <4>1. [NoJob EXCEPT !.pc = "poll"].pc = "poll"
          BY NoJobIs DEF Job
        <4> QED
          BY <3>1, <4>1 DEF PollBegins
      <3>2. CASE CheckAdminOp
        <4>1. [j EXCEPT !.pc = "locked", !.did = running # NoOp].pc = "locked"
          BY <1>0 DEF Job
        <4> QED
          BY <3>2, <4>1 DEF CheckAdminOp
      <3> QED
        BY <1>8, <3>1, <3>2
    <2>2. state'[s] = "Detached"
      BY <1>0, <1>8 DEF PollBegins, CheckAdminOp, Shared
    <2> QED
      BY <1>1, <2>1, <2>2
  <1>9. CASE SweepsBegin
    <2>1. state'[s] = "Detached"
      BY <1>0, <1>9 DEF SweepsBegin, Shared
    <2>2. PICK r : Continue(Recovery, r) /\ r.pc \in {"idle", "copy"}
      <3>1. CASE Continue(Recovery, NoJob)
        BY <3>1, NoJobIs
      <3>2. CASE StartStage(Recovery, "sweep")
        <4>1. PICK B \in SUBSET Objects : job' = [job EXCEPT ![Recovery] = Started(Recovery, "sweep", B)]
          BY <3>2, StageDoes
        <4>2. Started(Recovery, "sweep", B).pc = "copy"
          BY <1>0 DEF Started, Job
        <4> QED
          BY <4>1, <4>2 DEF Continue
      <3> QED
        BY <1>9, <3>1, <3>2 DEF SweepsBegin
    <2> QED
      BY <1>1, <2>1, <2>2
  <1> QED
    BY <1>3, <1>4, <1>5, <1>6, <1>7, <1>8, <1>9 DEF RecoveryStep

\* Every step keeps it.
LEMMA NextHold ==
    ASSUME HoldInv, [AdminNext]_adminVars
    PROVE  HoldInv'
  <1>1. Sane' /\ Sane
    BY NextSane DEF HoldInv
  <1>2. OpsAsked' = OpsAsked /\ \A a \in Admins : OpName(a)' = OpName(a) /\ OpShard(a)' = OpShard(a)
    BY SceneKept DEF HoldInv
  <1> SUFFICES ASSUME OpsAsked = {"take-offline"}
               PROVE  Held'
    BY <1>1, <1>2 DEF HoldInv
  <1>3. Held /\ \A a \in Admins : OpShard(a) \in Slot
    BY <1>1, ShardOf DEF HoldInv
  <1>4. ASSUME \A a \in Admins : job'[a] = job[a], \A s \in Slot : PutAway(s) => PutAway(s)'
        PROVE  Held'
    <2> SUFFICES ASSUME NEW a \in Admins, job'[a].pc = "done" /\ ~ job'[a].did
                 PROVE  PutAway(OpShard(a))'
      BY DEF Held
    <2>1. OpShard(a) \in Slot /\ PutAway(OpShard(a))
      BY <1>3, <1>4 DEF Held
    <2>2. PICK s \in Slot : s = OpShard(a)
      BY <2>1
    <2>3. PutAway(s)'
      BY <1>4, <2>1, <2>2
    <2> QED
      BY <1>2, <2>2, <2>3 DEF PutAway, InPoll
  <1>5. ASSUME \A a \in Admins : job'[a] = job[a], job'[Recovery] = job[Recovery], state' = state
        PROVE  Held'
    BY <1>4, <1>5 DEF PutAway, InPoll
  <1>6. CASE RecoveryStep
    <2>1. CASE \E s \in Slot : PutAway(s)
      BY <1>1, <1>4, <1>6, <2>1, RecoveryLeaves
    <2>2. CASE \A s \in Slot : ~ PutAway(s)
      <3> SUFFICES ASSUME NEW a \in Admins, job'[a].pc = "done" /\ ~ job'[a].did
                   PROVE  FALSE
        BY DEF Held
      <3>1. job'[a] = job[a]
        BY <1>1, <1>6, RecoveryTouches
      <3> QED
        BY <1>3, <2>2, <3>1 DEF Held
    <2> QED
      BY <2>1, <2>2
  <1>7. CASE RepairStep
    <2>1. /\ \A v \in Workers : v # "repair" => job'[v] = job[v]
          /\ state' = state
      <3>1. CASE CycleBegins
        BY <1>1, <3>1, Names DEF CycleBegins, Continue, Shared, Sane, AdminTyped
      <3>2. CASE SweepStep("repair")
        <4>1. job["repair"].pc \notin Returning
          BY <1>1, SaneJob, Names DEF Disc, Where, RepairPcs, SweepPcs, Returning
        <4> QED
          BY <1>1, <3>2, <4>1, SweepKeepsOut, Names
      <3> QED
        BY <1>7, <3>1, <3>2 DEF RepairStep
    <2> QED
      BY <1>5, <2>1, Names
  <1>8. CASE DeviceStep
    BY <1>5, <1>8 DEF DeviceStep, DeviceFails, DeviceReturns
  <1>9. ASSUME NEW b \in Admins, OperationStep(b)
        PROVE  FALSE
    <2>1. job[b].pc \in Resting
      BY <1>1, OnlyHolds
    <2> QED
      BY <1>9, <2>1 DEF OperationStep, SweepStep, MoveNext, Release, DrainHold, DrainList, DrainNext,
         DrainPurge, DrainErase, DrainSweep, ReplicateRead, ReplicateWrite, RemoveDelete, RemoveForget,
         CopyNext, TrimNext, StageEnds, RebuildScan, RebuildSwap, BeginOnCatalog, SyncObjects,
         AttachShard, AtPc, Resting
  <1>10. ASSUME NEW b \in Admins, RequestStep(b)
         PROVE  Held'
    <2>1. TakeOffline(b)
      BY <1>1, <1>10, OnlyHolds DEF RequestStep, Acquire, AttachRequest, Exclusive
    <2>2. /\ \A v \in Workers : v # b => job'[v] = job[v]
          /\ job'[b].did = InPoll(OpShard(b))
          /\ state' = [state EXCEPT ![OpShard(b)] = "Detached"]
          /\ state \in [Slot -> States]
      BY <1>1, <2>1, Names DEF TakeOffline, Out, Continue, Sane, AdminTyped, Job
    <2>3. \A s \in Slot : InPoll(s)' = InPoll(s)
      BY <2>2, Names DEF InPoll
    <2> SUFFICES ASSUME NEW a \in Admins, job'[a].pc = "done" /\ ~ job'[a].did
                 PROVE  PutAway(OpShard(a))'
      BY DEF Held
    <2>4. PICK s \in Slot : s = OpShard(a)
      BY <1>3
    <2>5. ~ InPoll(s) /\ state'[s] = "Detached"
      <3>1. CASE a = b
        BY <2>2, <2>4, <3>1
      <3>2. CASE a # b
        <4>1. PutAway(s)
          BY <1>3, <2>2, <2>4, <3>2, Names DEF Held
        <4> QED
          BY <2>2, <4>1 DEF PutAway
      <3> QED
        BY <3>1, <3>2
    <2>6. ~ InPoll(s)'
      BY <2>3, <2>5
    <2> QED
      BY <1>2, <2>4, <2>5, <2>6 DEF PutAway, InPoll
  <1>11. CASE UNCHANGED adminVars
    BY <1>5, <1>11 DEF adminVars
  <1> QED
    BY <1>6, <1>7, <1>8, <1>9, <1>10, <1>11 DEF AdminNext

\* take_shard_offline of viz.rs against recovery_tick: a shard that an
\* operator took offline stays out of service, whatever the recovery and the
\* repair loop do and whichever devices fail and return, for any number of
\* shards, objects and requests, unless the recovery loop was in the middle of
\* a probe or a sync of the shard.
THEOREM HoldsAreRespected ==
    AdminInit /\ [][AdminNext]_adminVars => []HoldRespected
  <1>1. AdminInit => HoldInv
    <2> SUFFICES ASSUME AdminInit
                 PROVE  HoldInv
      OBVIOUS
    <2>1. Held
      BY NoJobIs, Names DEF AdminInit, Held
    <2> QED
      BY <2>1, InitSane DEF HoldInv
  <1>2. HoldInv /\ [AdminNext]_adminVars => HoldInv'
    BY NextHold
  <1>3. HoldInv => HoldRespected
    BY DEF HoldInv, HoldRespected, Held, PutAway, AtPc
  <1> QED
    BY <1>1, <1>2, <1>3, PTL

----------------------------------------------------------------------------
(* One mover at a time: the operations of the admin API, which the         *)
(* admin_op_lock keeps apart, or one loop.                                 *)

\* A shard in service is not attached.
Refused ==
    (\E a \in Admins : OpName(a) = "attach") =>
        /\ \A s \in Slot : state[s] = "Healthy"
        /\ \A w \in Workers : job[w].pc \in Resting

\* What worker w knows of the catalog when it acts on r.
Informed(r) ==
    /\ r.pc \in {"delete", "forget"} => Cardinality(entry[r.key] \ {r.from}) >= Rf
    /\ r.pc \in {"read", "write"} /\ r.stage = "move" =>
          /\ r.from \in entry[r.key] /\ r.to \in DOMAIN r.counts \ entry[r.key]
          /\ Cardinality((entry[r.key] \ {r.from}) \cap DOMAIN r.counts) + 1 >= Rf
    /\ r.pc = "swap" => \A k \in Objects : r.listing[k] \subseteq copies[k]
    /\ r.pc \in {"drain", "erase"} => \A k \in r.safe : entry[k] \ {r.shard} # {}
    /\ r.pc = "erase" => \A k \in Objects : r.shard \notin entry[k]

\* The catalog names copies that exist, but for the one being forgotten.
Backed ==
    \A k \in Objects : \A s \in entry[k] :
        s \in copies[k] \/ \E w \in Workers : job[w].pc = "forget" /\ job[w].key = k /\ job[w].from = s

\* The victim of a drain is out of service.
Victims == \A a \in Admins : job[a].pc \in {"victim", "drain"} => state[job[a].shard] = "Detached"

\* An object keeps its factor, or what there was of it.
Enough(k) == Cardinality(copies[k]) >= Min({Rf, Cardinality(scene.placed[k])})
\* No object is lost; a drain may cost copies, never the last.
Kept == \A k \in Objects : copies[k] # {} /\ ("drain" \notin OpsAsked => Enough(k))

\* One device has failed: the recovery loop deals with one shard.
Hurt(s) == state[s] # "Healthy" \/ device[s] # "ok"
Single ==
    /\ Rf >= 2
    /\ \A a \in Admins : OpName(a) # "take-offline"
    /\ scene.failures \in {0, 1}
    /\ scene.failures = 1 => \A s \in Slot : ~ Hurt(s)
    /\ \A s \in Slot : state[s] \in {"Healthy", "Offline", "Syncing"}
    /\ \A s, t \in Slot : Hurt(s) /\ Hurt(t) => s = t
    /\ job[Recovery].pc \in {"sync", "attach"} =>
          state[job[Recovery].shard] = "Syncing" /\ device[job[Recovery].shard] = "ok"
    /\ \A s \in Slot : state[s] = "Syncing" =>
          job[Recovery].pc \in {"sync", "attach"} /\ job[Recovery].shard = s
    /\ job[Recovery].pc = "reprobe" => state[job[Recovery].shard] = "Offline"
    /\ \A k \in Objects : Cardinality(entry[k]) >= 2

\* What the recovery loop meets.
Watched == Recovery \in scene.loops => Calm \/ Single

\* A drain starts with nothing declared safe.
Fresh == \A a \in Admins : job[a].pc \in {"hold", "victim"} => job[a].safe = {}

\* The inductive invariant.
SerialInv ==
    /\ Sane
    /\ OneMover
    /\ Fresh
    /\ Refused
    /\ Watched
    /\ Victims
    /\ Backed
    /\ \A w \in Workers : Informed(job[w])
    /\ Kept

\* A worker at work.
Busy(w) == job[w].pc \notin Resting

\* An operation at work has the lock, and no loop runs.
LEMMA NoAttach ==
    ASSUME SerialInv, NEW a \in Admins, Busy(a)
    PROVE  /\ OpName(a) \in Exclusive /\ running = a /\ scene.loops = {}
           /\ job[a].pc \notin {"sync", "attach"} /\ "attach" \notin OpsAsked
           /\ \A b \in Admins : OpName(b) # "attach"
  <1>1. Disc(a, job[a]) /\ a \in Workers
    BY SaneJob, Names DEF SerialInv
  <1>2. \A b \in Admins : OpName(b) # "attach"
    BY <1>1 DEF SerialInv, Refused, Busy
  <1>3. OpName(a) \in Exclusive /\ running = a /\ job[a].pc \notin {"sync", "attach"}
    BY <1>1, <1>2 DEF Disc, Where, Busy
  <1>4. scene.loops = {}
    BY <1>3 DEF SerialInv, OneMover, OpName
  <1> QED
    BY <1>2, <1>3, <1>4 DEF OpsAsked

\* A loop at work is alone.
LEMMA LoopBusy ==
    ASSUME SerialInv, NEW w \in Loops, Busy(w)
    PROVE  /\ w \in scene.loops /\ \A v \in scene.loops : v = w
           /\ \A a \in Admins : ~ Busy(a) /\ OpName(a) \notin Exclusive /\ OpName(a) # "attach"
           /\ "attach" \notin OpsAsked /\ "drain" \notin OpsAsked
  <1>1. Disc(w, job[w])
    BY SaneJob, Names DEF SerialInv
  <1>2. w \in scene.loops
    BY <1>1 DEF Disc, Where, Busy, Resting
  <1>3. \A a \in Admins : OpName(a) \notin Exclusive /\ OpName(a) # "attach"
    BY <1>2 DEF SerialInv, OneMover, OpName
  <1>4. \A a \in Admins : ~ Busy(a)
    BY <1>3, NoAttach
  <1> QED
    BY <1>2, <1>3, <1>4 DEF SerialInv, OneMover, OpsAsked, Exclusive

\* One worker is at work.
LEMMA OneBusy ==
    ASSUME SerialInv, NEW v \in Workers, NEW w \in Workers, Busy(v), Busy(w)
    PROVE  v = w
  <1>1. CASE v \in Loops \/ w \in Loops
    BY <1>1, LoopBusy, NoAttach, Names
  <1>2. CASE v \in Admins /\ w \in Admins
    BY <1>2, NoAttach
  <1> QED
    BY <1>1, <1>2, Names

\* The factor is at least one.
LEMMA RfIs ==
    ASSUME Sane
    PROVE  Rf \in Nat /\ Rf >= 1 /\ Rf <= Slots /\ MinPlaced \in Nat /\ MinPlaced >= 1 /\ MinPlaced <= Rf
  BY SlotFacts DEF Rf, MinPlaced, Sane, AdminTyped, Scene

\* Entries and copies are sets of shards.
LEMMA EntryIs ==
    ASSUME Sane, NEW k \in Objects
    PROVE  /\ entry[k] \subseteq Slot /\ copies[k] \subseteq Slot
           /\ entry[k] \in SUBSET Slot /\ copies[k] \in SUBSET Slot
  BY DEF Sane, AdminTyped, Placing

\* The lesser of two numbers.
LEMMA MinTwo ==
    ASSUME NEW a \in Nat, NEW b \in Nat
    PROVE  /\ Min({a, b}) \in {a, b} /\ Min({a, b}) <= a /\ Min({a, b}) <= b
           /\ Min({a, b}) \in Nat
  <1> DEFINE P(x) == x \in {a, b} /\ \A y \in {a, b} : x <= y
  <1>1. \E x : P(x)
    <2>1. CASE a <= b
      BY <2>1
    <2>2. CASE b <= a
      BY <2>2
    <2> QED
      BY <2>1, <2>2
  <1>2. Min({a, b}) = CHOOSE x : P(x)
    BY DEF Min
  <1>3. P(CHOOSE x : P(x))
    BY <1>1
  <1> QED
    BY <1>2, <1>3

\* What suffices for the factor.
LEMMA EnoughFrom ==
    ASSUME Sane, NEW k \in Objects, NEW c \in SUBSET Slot,
           Cardinality(c) >= Rf \/ (Enough(k) /\ copies[k] \subseteq c)
    PROVE  Cardinality(c) >= Min({Rf, Cardinality(scene.placed[k])})
  <1>1. Rf \in Nat /\ Cardinality(scene.placed[k]) \in Nat
    <2>1. scene.placed[k] \in SUBSET Slot
      BY DEF Sane, AdminTyped, Scene
    <2> QED
      BY <2>1, RfIs, SlotFacts
  <1>2. Cardinality(c) \in Nat /\ Cardinality(copies[k]) \in Nat
    BY SlotFacts, EntryIs
  <1>3. Min({Rf, Cardinality(scene.placed[k])}) \in Nat /\ Min({Rf, Cardinality(scene.placed[k])}) <= Rf
    BY <1>1, MinTwo
  <1>4. CASE Cardinality(c) >= Rf
    BY <1>1, <1>2, <1>3, <1>4
  <1>5. CASE Enough(k) /\ copies[k] \subseteq c
    <2>1. Cardinality(copies[k]) <= Cardinality(c)
      BY <1>5, SlotFacts, EntryIs
    <2> QED
      BY <1>2, <1>3, <1>5, <2>1 DEF Enough
  <1> QED
    BY <1>4, <1>5

----------------------------------------------------------------------------

\* The catalog, what workers know of it, and the copies.
Books == Backed /\ (\A w \in Workers : Informed(job[w])) /\ Kept
\* Where a worker has nothing to remember.
Bare == Pcs \ {"delete", "forget", "read", "write", "swap", "drain", "erase"}

\* Steps that leave copies and catalog alone.
LEMMA BooksQuiet ==
    ASSUME SerialInv, NEW w \in Workers, NEW r, job' = [job EXCEPT ![w] = r],
           UNCHANGED <<copies, entry, scene>>, job[w].pc # "forget", Informed(r)
    PROVE  Books'
  <1>0. job \in [Workers -> Job]
    BY DEF SerialInv, Sane, AdminTyped
  <1>1. Backed'
    <2> SUFFICES ASSUME NEW k \in Objects, NEW s \in entry[k]
                 PROVE  s \in copies[k] \/ \E v \in Workers : job'[v].pc = "forget" /\ job'[v].key = k /\ job'[v].from = s
      BY DEF Backed
    <2>1. s \in copies[k] \/ \E v \in Workers : job[v].pc = "forget" /\ job[v].key = k /\ job[v].from = s
      BY DEF SerialInv, Backed
    <2>2. \A v \in Workers : job[v].pc = "forget" => job'[v] = job[v]
      BY <1>0
    <2> QED
      BY <2>1, <2>2
  <1>2. ASSUME NEW v \in Workers
        PROVE  Informed(job[v])'
    <2>1. Informed(job'[v])
      BY <1>0 DEF SerialInv
    <2> QED
      BY <2>1 DEF Informed, Rf
  <1>3. Kept'
    BY DEF SerialInv, Kept, Enough, Rf, OpsAsked, OpName
  <1> QED
    BY <1>1, <1>2, <1>3 DEF Books

\* Nothing to remember is nothing out of date.
LEMMA BareInformed ==
    ASSUME NEW r, r.pc \in Bare
    PROVE  Informed(r)
  BY DEF Informed, Bare

\* Such a step to a place with nothing to remember.
LEMMA BooksBare ==
    ASSUME SerialInv, NEW w \in Workers, NEW r, Continue(w, r), r.pc \in Bare,
           UNCHANGED <<copies, entry, scene>>, job[w].pc # "forget"
    PROVE  Books'
  BY BooksQuiet, BareInformed DEF Continue

\* The same, for a step that moves on only.
LEMMA BooksPc ==
    ASSUME SerialInv, NEW w \in Workers, NEW p \in Bare, Pc(w, p),
           UNCHANGED <<copies, entry, scene>>, job[w].pc # "forget"
    PROVE  Books'
  <1>1. [job[w] EXCEPT !.pc = p].pc = p
    BY SaneJob DEF SerialInv, Job
  <1> QED
    BY <1>1, BooksBare DEF Pc

\* An object given up.
LEMMA BooksGiveUp ==
    ASSUME SerialInv, NEW w \in Workers, GiveUp(w), UNCHANGED <<copies, entry, scene>>, job[w].pc # "forget"
    PROVE  Books'
  <1>0. job[w] \in Job
    BY SaneJob DEF SerialInv
  <1>1. CASE Stage(w) = "move"
    BY <1>1, BooksPc DEF GiveUp, Pc, Bare, Pcs, AdminPcs
  <1>2. CASE Stage(w) # "move"
    <2> DEFINE r == [job[w] EXCEPT !.pc = IF @ = "delete" THEN "trim" ELSE "copy", !.todo = @ \ {job[w].key}]
    <2>1. r.pc \in Bare
      BY <1>0 DEF Job, Bare, Pcs, AdminPcs, SweepPcs
    <2>2. Continue(w, r)
      BY <1>2 DEF GiveUp
    <2> HIDE DEF r
    <2> QED
      BY <2>1, <2>2, BooksBare
  <1> QED
    BY <1>1, <1>2

\* A stage that starts.
LEMMA BooksStart ==
    ASSUME SerialInv, NEW w \in Workers, NEW stage \in {"sweep", "under", "over"},
           StartStage(w, stage), UNCHANGED <<copies, entry, scene>>, job[w].pc # "forget"
    PROVE  Books'
  <1>1. PICK B \in SUBSET Objects : job' = [job EXCEPT ![w] = Started(w, stage, B)]
    BY StageDoes
  <1>2. Started(w, stage, B).pc \in Bare
    BY SaneJob DEF SerialInv, Started, Job, Bare, Pcs, AdminPcs, SweepPcs
  <1> QED
    BY <1>1, <1>2, BooksBare DEF Continue

\* A sweep's read keeps the books.
LEMMA ReadBooks ==
    ASSUME SerialInv, NEW w \in Workers, ReplicateRead(w)
    PROVE  Books'
  <1>0. UNCHANGED <<copies, entry, scene>> /\ job[w].pc = "read" /\ job[w] \in Job /\ Informed(job[w])
    BY SaneJob DEF ReplicateRead, Shared, AtPc, SerialInv
  <1>1. CASE GiveUp(w)
    BY <1>0, <1>1, BooksGiveUp
  <1>2. CASE Pc(w, "write")
    <2> DEFINE r == [job[w] EXCEPT !.pc = "write"]
    <2>1. Informed(r)
      BY <1>0 DEF Informed, Job
    <2> QED
      BY <1>0, <1>2, <2>1, BooksQuiet DEF Pc, Continue
  <1> QED
    BY <1>1, <1>2 DEF ReplicateRead

\* The copy stage keeps the books.
LEMMA CopyBooks ==
    ASSUME SerialInv, NEW w \in Workers, CopyNext(w)
    PROVE  Books'
  <1>0. Sane /\ UNCHANGED <<copies, entry, scene>> /\ job[w].pc = "copy" /\ job[w].stage \in {"sweep", "under"}
    BY CopyDoes DEF SerialInv, Shared
  <1>1. PICK r : job' = [job EXCEPT ![w] = r] /\ r.pc \in {"copy", "read"} /\ r.stage = job[w].stage
    BY <1>0, CopyDoes, CopyingIs, DroppedIs
  <1>2. Informed(r)
    BY <1>0, <1>1 DEF Informed
  <1> QED
    BY <1>0, <1>1, <1>2, BooksQuiet

\* The trim stage keeps the books.
LEMMA TrimBooks ==
    ASSUME SerialInv, NEW w \in Workers, TrimNext(w)
    PROVE  Books'
  <1>0. Sane /\ UNCHANGED <<copies, entry, scene>> /\ job[w].pc = "trim" /\ job[w].stage = "over"
    BY TrimDoes DEF SerialInv, Shared
  <1>1. PICK k \in Objects :
           \/ job' = [job EXCEPT ![w] = Dropped(w, k)]
           \/ \E s \in Excess(k) : s \in Slot /\ job' = [job EXCEPT ![w] = Trimming(w, k, s)]
    BY <1>0, TrimDoes
  <1>2. CASE job' = [job EXCEPT ![w] = Dropped(w, k)]
    <2>1. Dropped(w, k).pc = "trim"
      BY <1>0, DroppedIs
    <2> QED
      BY <1>0, <1>2, <2>1, BooksBare DEF Continue, Bare, Pcs, AdminPcs, SweepPcs
  <1>3. ASSUME NEW s \in Excess(k), s \in Slot, job' = [job EXCEPT ![w] = Trimming(w, k, s)]
        PROVE  Books'
    <2>1. PICK r : r = Trimming(w, k, s)
      OBVIOUS
    <2>2. r.pc = "delete" /\ r.key = k /\ r.from = s
      BY <1>0, <1>3, <2>1, TrimmingIs
    <2>3. Cardinality((entry[k] \ {s}) \cap Healthy) >= Rf
      BY DEF Excess
    <2>4. Cardinality(entry[k] \ {s}) >= Rf
      <3>1. (entry[k] \ {s}) \in SUBSET Slot /\ ((entry[k] \ {s}) \cap Healthy) \in SUBSET Slot
        BY <1>0, EntryIs
      <3>2. Cardinality((entry[k] \ {s}) \cap Healthy) <= Cardinality(entry[k] \ {s})
        BY <3>1, SlotFacts
      <3>3. Cardinality((entry[k] \ {s}) \cap Healthy) \in Nat /\ Cardinality(entry[k] \ {s}) \in Nat
        BY <3>1, SlotFacts
      <3> QED
        BY <1>0, <2>3, <3>2, <3>3, RfIs
    <2>5. Informed(r)
      BY <2>2, <2>4 DEF Informed
    <2> QED
      BY <1>0, <1>3, <2>1, <2>5, BooksQuiet
  <1> QED
    BY <1>1, <1>2, <1>3

\* The end of a stage keeps the books.
LEMMA StageEndsBooks ==
    ASSUME SerialInv, NEW w \in Workers, StageEnds(w)
    PROVE  Books'
  <1>0. Sane
    BY DEF SerialInv
  <1>1. job[w].pc \in {"copy", "trim"} /\ UNCHANGED <<copies, entry, scene>>
    BY <1>0, StageEndsDoes DEF Shared
  <1>2. "release" \in Bare /\ "idle" \in Bare
    BY DEF Bare, Pcs, AdminPcs
  <1> QED
    BY <1>0, <1>1, <1>2, StageEndsDoes, BooksStart, BooksPc, BooksBare, NoJobIs

\* The listing of the shards keeps the books.
LEMMA ScanBooks ==
    ASSUME SerialInv, NEW w \in Workers, RebuildScan(w)
    PROVE  Books'
  <1>0. job[w].pc = "scan" /\ UNCHANGED <<copies, entry, scene>> /\ job[w] \in Job
    BY SaneJob DEF RebuildScan, AtPc, Shared, SerialInv
  <1>1. PICK scanned \in SUBSET Slot :
          Continue(w, [job[w] EXCEPT !.pc = "swap", !.listing = [k \in Objects |-> copies[k] \cap scanned]])
    BY DEF RebuildScan
  <1>2. PICK l : l = [k \in Objects |-> copies[k] \cap scanned]
    OBVIOUS
  <1>3. PICK r : r = [job[w] EXCEPT !.pc = "swap", !.listing = l]
    OBVIOUS
  <1>4. r.pc = "swap" /\ r.listing = l
    BY <1>0, <1>3 DEF Job
  <1>5. \A k \in Objects : l[k] \subseteq copies[k]
    BY <1>2
  <1>6. Informed(r)
    BY <1>4, <1>5 DEF Informed
  <1>7. job' = [job EXCEPT ![w] = r]
    BY <1>1, <1>2, <1>3 DEF Continue
  <1> QED
    BY <1>0, <1>6, <1>7, BooksQuiet

\* What a worker begins on the catalog.
LEMMA BeginDoes ==
    ASSUME Sane, NEW w \in Workers, BeginOnCatalog(w)
    PROVE  /\ job[w].pc = "begin" /\ UNCHANGED Shared
           /\ \/ w = "repair" /\ StartStage(w, "under")
              \/ w \in Admins /\ OpName(w) = "repair-replication" /\ StartStage(w, "under")
              \/ w \in Admins /\ OpName(w) = "cross-verify" /\ Pc(w, "release")
              \/ /\ w \in Admins /\ OpName(w) = "redistribute" /\ Pc(w, "release")
                 /\ Under # {} \/ Balanced(Counts)
              \/ /\ w \in Admins /\ OpName(w) = "redistribute" /\ Under = {}
                 /\ Continue(w, [job[w] EXCEPT !.pc = "move", !.stage = "move", !.counts = Counts, !.moved = 0])
  <1>1. job[w].pc = "begin" /\ Disc(w, job[w]) /\ UNCHANGED Shared
    BY SaneJob DEF BeginOnCatalog, AtPc
  <1>2. w # Recovery
    BY <1>1 DEF Disc, Where, RecoveryPcs, SweepPcs
  <1>3. CASE w = "repair"
    BY <1>1, <1>3 DEF BeginOnCatalog
  <1>4. CASE w \in Admins
    <2>1. w # "repair" /\ OpName(w) \in {"repair-replication", "redistribute", "cross-verify"}
      BY <1>1, <1>4, Names DEF Disc, Where, Resting, Exclusive
    <2>2. CASE OpName(w) = "repair-replication"
      <3>1. StartStage(w, "under")
        BY <2>1, <2>2 DEF BeginOnCatalog
      <3> QED
        BY <1>1, <1>4, <2>2, <3>1
    <2>3. CASE OpName(w) = "cross-verify"
      <3>1. Pc(w, "release")
        BY <2>1, <2>3 DEF BeginOnCatalog
      <3> QED
        BY <1>1, <1>4, <2>3, <3>1
    <2>4. CASE OpName(w) = "redistribute"
      <3>1. IF Under # {} \/ Balanced(Counts) THEN Pc(w, "release")
            ELSE Continue(w, [job[w] EXCEPT !.pc = "move", !.stage = "move", !.counts = Counts, !.moved = 0])
        BY <2>1, <2>4 DEF BeginOnCatalog
      <3> QED
        BY <1>1, <1>4, <2>4, <3>1
    <2> QED
      BY <2>1, <2>2, <2>3, <2>4
  <1> QED
    BY <1>2, <1>3, <1>4, Names

\* The beginning on the catalog keeps the books.
LEMMA BeginBooks ==
    ASSUME SerialInv, NEW w \in Workers, BeginOnCatalog(w)
    PROVE  Books'
  <1>0. Sane /\ job[w] \in Job
    BY SaneJob DEF SerialInv
  <1>1. job[w].pc = "begin" /\ UNCHANGED <<copies, entry, scene>>
    BY <1>0, BeginDoes DEF Shared
  <1>2. "release" \in Bare /\ "move" \in Bare
    BY DEF Bare, Pcs, AdminPcs
  <1>3. [job[w] EXCEPT !.pc = "move", !.stage = "move", !.counts = Counts, !.moved = 0].pc \in Bare
    BY <1>0, <1>2 DEF Job
  <1> QED
    BY <1>0, <1>1, <1>2, <1>3, BeginDoes, BooksStart, BooksPc, BooksBare

\* When the only busy worker acts, the others know nothing that could be wrong.
LEMMA InformedBusy ==
    ASSUME SerialInv, NEW w \in Workers, Busy(w), NEW r, job' = [job EXCEPT ![w] = r], (Informed(r))'
    PROVE  \A v \in Workers : Informed(job[v])'
  <1> SUFFICES ASSUME NEW v \in Workers
               PROVE  Informed(job[v])'
    OBVIOUS
  <1>1. CASE v = w
    BY <1>1 DEF SerialInv, Sane, AdminTyped
  <1>2. CASE v # w
    <2>1. job'[v] = job[v] /\ job[v].pc \in Resting
      BY <1>2, OneBusy DEF SerialInv, Sane, AdminTyped, Busy
    <2> QED
      BY <2>1 DEF Informed, Resting
  <1> QED
    BY <1>1, <1>2

\* The catalog names copies that exist, for a worker at work.
LEMMA BackedNow ==
    ASSUME SerialInv, NEW w \in Workers, Busy(w), NEW k \in Objects
    PROVE  /\ \A s \in entry[k] : s \in copies[k] \/ (job[w].pc = "forget" /\ job[w].key = k /\ job[w].from = s)
           /\ job[w].pc # "forget" => entry[k] \subseteq copies[k]
  <1>1. ASSUME NEW v \in Workers, job[v].pc = "forget"
        PROVE  v = w
    BY <1>1, OneBusy DEF Busy, Resting
  <1> QED
    BY <1>1 DEF SerialInv, Backed

\* Copies that were added keep what there is.
LEMMA KeptMore ==
    ASSUME SerialInv, scene' = scene, copies' \in Placing, \A k \in Objects : copies[k] \subseteq copies'[k]
    PROVE  Kept'
  <1> SUFFICES ASSUME NEW k \in Objects
               PROVE  copies'[k] # {} /\ ("drain" \notin OpsAsked => Enough(k)')
    BY DEF Kept, OpsAsked, OpName
  <1>1. copies[k] # {} /\ ("drain" \notin OpsAsked => Enough(k)) /\ Sane
    BY DEF SerialInv, Kept
  <1>2. copies'[k] \in SUBSET Slot
    BY DEF Placing
  <1>3. "drain" \notin OpsAsked => Cardinality(copies'[k]) >= Min({Rf, Cardinality(scene.placed[k])})
    BY <1>1, <1>2, EnoughFrom
  <1> QED
    BY <1>1, <1>3 DEF Enough, Rf

\* A sweep's write keeps the books.
LEMMA WriteBooks ==
    ASSUME SerialInv, Sane', NEW w \in Workers, ReplicateWrite(w)
    PROVE  Books'
  <1> DEFINE k == job[w].key
             t == job[w].to
             j == job[w]
  <1>0. /\ Sane /\ j \in Job /\ Disc(w, j) /\ j.pc = "write" /\ k \in Objects /\ t \in Slot
        /\ Busy(w) /\ Informed(j) /\ scene' = scene
    BY SaneJob DEF ReplicateWrite, AtPc, Job, Disc, Doing, SerialInv, Busy, Resting
  <1>1. CASE Answering(t)
    <2> DEFINE p == IF Stage(w) # "move" THEN "copy"
                    ELSE IF Cardinality((entry[k] \cup {t}) \cap DOMAIN j.counts) >= Rf
                         THEN "delete" ELSE "move"
    <2>1. PICK r : r = [j EXCEPT !.did = TRUE, !.pc = p]
      OBVIOUS
    <2>2. job' = [job EXCEPT ![w] = r]
      BY <1>1, <2>1 DEF ReplicateWrite, Continue
    <2>3. \/ Stage(w) # "move" /\ p = "copy"
          \/ Stage(w) = "move" /\ p \in {"delete", "move"}
      OBVIOUS
    <2> HIDE DEF p
    <2>4. r.pc = p /\ r.key = k /\ r.from = j.from
      BY <1>0, <2>1 DEF Job
    <2>5. /\ copies' = [copies EXCEPT ![k] = @ \cup {t}]
          /\ entry' = [entry EXCEPT ![k] = @ \cup {t}]
      BY <1>1 DEF ReplicateWrite
    <2>6. /\ copies'[k] = copies[k] \cup {t} /\ entry'[k] = entry[k] \cup {t}
          /\ \A i \in Objects : i # k => copies'[i] = copies[i] /\ entry'[i] = entry[i]
      BY <1>0, <2>5 DEF Sane, AdminTyped, Placing
    <2>7. (Informed(r))'
      <3>1. CASE Stage(w) = "move" /\ p = "delete"
        <4> DEFINE A == (entry[k] \ {j.from}) \cap DOMAIN j.counts
        <4>1. j.from \in entry[k] /\ t \notin entry[k] /\ Cardinality(A) + 1 >= Rf
          BY <1>0, <3>1 DEF Informed, Stage
        <4>2. A \in SUBSET Slot /\ IsFiniteSet(A) /\ t \notin A
          BY <1>0, <4>1, EntryIs, SlotFacts
        <4>3. Cardinality(A \cup {t}) = Cardinality(A) + 1
          BY <4>2, FS_AddElement
        <4>4. A \cup {t} \subseteq entry'[k] \ {j.from} /\ entry'[k] \ {j.from} \in SUBSET Slot
          BY <1>0, <2>6, <4>1, EntryIs
        <4>5. Cardinality(A \cup {t}) <= Cardinality(entry'[k] \ {j.from})
          BY <4>4, SlotFacts
        <4>6. Cardinality(A) \in Nat /\ Cardinality(entry'[k] \ {j.from}) \in Nat /\ Rf \in Nat
          BY <1>0, <4>2, <4>4, SlotFacts, RfIs
        <4> HIDE DEF A
        <4>7. Cardinality(entry'[k] \ {j.from}) >= Rf
          BY <4>1, <4>3, <4>5, <4>6
        <4> QED
          BY <1>0, <2>4, <3>1, <4>7 DEF Informed, Rf
      <3>2. CASE ~ (Stage(w) = "move" /\ p = "delete")
        BY <2>3, <2>4, <3>2 DEF Informed
      <3> QED
        BY <3>1, <3>2
    <2>8. \A v \in Workers : Informed(job[v])'
      BY <1>0, <2>2, <2>7, InformedBusy
    <2>9. Backed'
      <3>1. \A i \in Objects : entry[i] \subseteq copies[i]
        BY <1>0, BackedNow
      <3>2. \A i \in Objects : entry'[i] \subseteq copies'[i]
        BY <2>6, <3>1
      <3> QED
        BY <3>2 DEF Backed
    <2>10. Kept'
      <3>1. copies' \in Placing
        BY DEF Sane, AdminTyped
      <3>2. \A i \in Objects : copies[i] \subseteq copies'[i]
        BY <2>6
      <3> QED
        BY <1>0, <3>1, <3>2, KeptMore
    <2> QED
      BY <2>8, <2>9, <2>10 DEF Books
  <1>2. CASE ~ Answering(t)
    BY <1>0, <1>2, BooksGiveUp DEF ReplicateWrite
  <1> QED
    BY <1>1, <1>2

\* A sweep's delete keeps the books.
LEMMA DeleteBooks ==
    ASSUME SerialInv, Sane', NEW w \in Workers, RemoveDelete(w)
    PROVE  Books'
  <1> DEFINE k == job[w].key
             f == job[w].from
             j == job[w]
  <1>0. /\ Sane /\ j \in Job /\ Disc(w, j) /\ j.pc = "delete" /\ k \in Objects
        /\ Busy(w) /\ Informed(j) /\ scene' = scene /\ entry' = entry
    BY SaneJob DEF RemoveDelete, AtPc, Job, Disc, Doing, SerialInv, Busy, Resting
  <1>1. CASE Answering(f) /\ f \in copies[k]
    <2>1. PICK r : r = [j EXCEPT !.pc = "forget"]
      OBVIOUS
    <2>2. job' = [job EXCEPT ![w] = r] /\ job'[w] = r
      BY <1>1, <2>1 DEF RemoveDelete, Continue, Pc, SerialInv, Sane, AdminTyped
    <2>3. r.pc = "forget" /\ r.key = k /\ r.from = f
      BY <1>0, <2>1 DEF Job
    <2>4. /\ copies'[k] = copies[k] \ {f}
          /\ \A i \in Objects : i # k => copies'[i] = copies[i]
      BY <1>0, <1>1 DEF RemoveDelete, Sane, AdminTyped, Placing
    <2>5. Cardinality(entry[k] \ {f}) >= Rf
      BY <1>0 DEF Informed
    <2>6. (Informed(r))'
      BY <1>0, <2>3, <2>5 DEF Informed, Rf
    <2>7. \A v \in Workers : Informed(job[v])'
      BY <1>0, <2>2, <2>6, InformedBusy
    <2>8. \A i \in Objects : entry[i] \subseteq copies[i]
      BY <1>0, BackedNow
    <2>9. Backed'
      <3> SUFFICES ASSUME NEW i \in Objects, NEW s \in entry[i], ~ (i = k /\ s = f)
                   PROVE  s \in copies'[i]
        BY <1>0, <2>2, <2>3 DEF Backed
      <3> QED
        BY <2>4, <2>8
    <2>10. Kept'
      <3>1. entry[k] \ {f} \subseteq copies'[k] /\ copies'[k] \in SUBSET Slot
        BY <1>0, <2>4, <2>8, EntryIs
      <3>2. Cardinality(entry[k] \ {f}) <= Cardinality(copies'[k])
        BY <1>0, <3>1, SlotFacts, EntryIs
      <3>3. Cardinality(entry[k] \ {f}) \in Nat /\ Cardinality(copies'[k]) \in Nat /\ Rf \in Nat /\ Rf >= 1
        BY <1>0, <3>1, SlotFacts, EntryIs, RfIs
      <3>4. Cardinality(copies'[k]) >= Rf /\ Cardinality(copies'[k]) # 0
        BY <2>5, <3>2, <3>3
      <3>5. copies'[k] # {}
        BY <3>4, FS_EmptySet
      <3>6. Cardinality(copies'[k]) >= Min({Rf, Cardinality(scene.placed[k])})
        BY <1>0, <3>1, <3>4, EnoughFrom
      <3> QED
        BY <1>0, <2>4, <3>5, <3>6 DEF Kept, Enough, Rf, SerialInv, OpsAsked, OpName
    <2> QED
      BY <2>7, <2>9, <2>10 DEF Books
  <1>2. CASE ~ (Answering(f) /\ f \in copies[k])
    BY <1>0, <1>2, BooksGiveUp DEF RemoveDelete
  <1> QED
    BY <1>1, <1>2

\* What the removal of a catalog entry changes.
LEMMA ForgetDoes ==
    ASSUME Sane, NEW w \in Workers, RemoveForget(w)
    PROVE  /\ job[w].pc = "forget" /\ job[w].key \in Objects
           /\ entry'[job[w].key] = entry[job[w].key] \ {job[w].from}
           /\ \A i \in Objects : i # job[w].key => entry'[i] = entry[i]
           /\ UNCHANGED <<copies, state, why, quiet, device, misses, running, scene>>
           /\ \E r \in Job : /\ job' = [job EXCEPT ![w] = r]
                             /\ r.stage = job[w].stage /\ r.todo = job[w].todo
                             /\ r.shard = job[w].shard
                             /\ \/ /\ job[w].stage = "move" /\ r.pc = "move"
                                   /\ r.counts = Moved(job[w].counts, job[w].from, job[w].to)
                                \/ job[w].stage = "over" /\ r.pc = "trim"
  <1> DEFINE j == job[w]
  <1>0. j \in Job /\ Disc(w, j) /\ j.pc = "forget" /\ j.key \in Objects /\ j.stage \in {"over", "move"}
    BY SaneJob DEF RemoveForget, AtPc, Job, Disc, Doing
  <1>1. Moved(j.counts, j.from, j.to) \in Counted
    BY <1>0, MovedCounts DEF Job
  <1>2. CASE j.stage = "move"
    <2>1. PICK r : r = [j EXCEPT !.pc = "move", !.counts = Moved(@, j.from, j.to), !.moved = @ + 1]
      OBVIOUS
    <2>2. job' = [job EXCEPT ![w] = r]
      BY <1>2, <2>1 DEF RemoveForget, Continue
    <2>3. /\ r \in Job /\ r.pc = "move" /\ r.stage = j.stage /\ r.todo = j.todo /\ r.shard = j.shard
          /\ r.counts = Moved(j.counts, j.from, j.to)
      <3>1. PICK n, c : n = j.moved + 1 /\ c = Moved(j.counts, j.from, j.to)
        OBVIOUS
      <3>2. r = [j EXCEPT !.pc = "move", !.counts = c, !.moved = n]
        BY <2>1, <3>1
      <3>3. c \in Counted /\ n \in Nat
        BY <1>0, <1>1, <3>1 DEF Job
      <3>4. r \in Job /\ r.pc = "move" /\ r.stage = j.stage /\ r.todo = j.todo /\ r.shard = j.shard /\ r.counts = c
        BY <1>0, <3>2, <3>3, ZenonT(60) DEF Job, Pcs, AdminPcs
      <3> QED
        BY <3>1, <3>4
    <2> QED
      BY <1>0, <1>2, <2>2, <2>3 DEF RemoveForget, Forget, Sane, AdminTyped, Placing
  <1>3. CASE j.stage = "over"
    <2>1. PICK r : r = [j EXCEPT !.pc = "trim"]
      OBVIOUS
    <2>2. job' = [job EXCEPT ![w] = r]
      BY <1>3, <2>1 DEF RemoveForget, Continue
    <2>3. /\ r \in Job /\ r.pc = "trim" /\ r.stage = j.stage /\ r.todo = j.todo /\ r.shard = j.shard
      BY <1>0, <2>1 DEF Job, Pcs, AdminPcs, SweepPcs
    <2> QED
      BY <1>0, <1>3, <2>2, <2>3 DEF RemoveForget, Forget, Sane, AdminTyped, Placing
  <1> QED
    BY <1>0, <1>2, <1>3

\* A sweep's removal of an entry keeps the books.
LEMMA ForgetBooks ==
    ASSUME SerialInv, NEW w \in Workers, RemoveForget(w)
    PROVE  Books'
  <1>0. Sane /\ job[w].pc = "forget" /\ Busy(w)
    BY ForgetDoes DEF SerialInv, Busy, Resting
  <1>1. PICK r \in Job : job' = [job EXCEPT ![w] = r] /\ r.pc \in {"move", "trim"}
    BY <1>0, ForgetDoes
  <1>2. (Informed(r))'
    BY <1>1 DEF Informed
  <1>3. \A v \in Workers : Informed(job[v])'
    BY <1>0, <1>1, <1>2, InformedBusy
  <1>4. Backed'
    <2>1. \A k \in Objects : \A s \in entry[k] : s \in copies[k] \/ (job[w].key = k /\ job[w].from = s)
      BY <1>0, BackedNow
    <2>2. \A k \in Objects : \A s \in entry'[k] : s \in entry[k] /\ ~ (job[w].key = k /\ job[w].from = s)
      BY <1>0, ForgetDoes
    <2>3. copies' = copies
      BY <1>0, ForgetDoes
    <2> QED
      BY <2>1, <2>2, <2>3 DEF Backed
  <1>5. Kept'
    <2>1. UNCHANGED <<copies, scene>>
      BY <1>0, ForgetDoes
    <2> QED
      BY <2>1 DEF SerialInv, Kept, Enough, Rf, OpsAsked, OpName
  <1> QED
    BY <1>3, <1>4, <1>5 DEF Books

\* The new catalog keeps the books.
LEMMA SwapBooks ==
    ASSUME SerialInv, NEW w \in Workers, RebuildSwap(w)
    PROVE  Books'
  <1>0. Sane /\ job[w] \in Job /\ Disc(w, job[w]) /\ job[w].pc = "swap" /\ Busy(w) /\ Informed(job[w])
    BY SaneJob DEF RebuildSwap, AtPc, SerialInv, Busy, Resting
  <1>1. PICK r : r = [job[w] EXCEPT !.pc = "begin", !.listing = <<>>]
    OBVIOUS
  <1>2. job' = [job EXCEPT ![w] = r] /\ r.pc = "begin"
    BY <1>0, <1>1 DEF RebuildSwap, Continue, Job
  <1>3. (Informed(r))'
    BY <1>2 DEF Informed
  <1>4. \A v \in Workers : Informed(job[v])'
    BY <1>0, <1>2, <1>3, InformedBusy
  <1>5. \A k \in Objects : entry'[k] \subseteq copies'[k]
    BY <1>0 DEF Informed, RebuildSwap
  <1>6. Kept'
    BY DEF RebuildSwap, SerialInv, Kept, Enough, Rf, OpsAsked, OpName
  <1> QED
    BY <1>4, <1>5, <1>6 DEF Books, Backed

\* Only the recovery loop, and only after the one failure, brings a shard back.
LEMMA ReturnIsSingle ==
    ASSUME SerialInv, NEW w \in Workers, job[w].pc \in {"sync", "attach"}
    PROVE  /\ w = Recovery /\ Single /\ Busy(w) /\ job[w].shard \in Slot
           /\ state[job[w].shard] = "Syncing" /\ device[job[w].shard] = "ok"
  <1>1. Sane /\ Disc(w, job[w]) /\ Busy(w)
    BY SaneJob DEF SerialInv, Busy, Resting
  <1>2. w = Recovery
    BY <1>1, NoAttach, Names DEF Disc, Where, RepairPcs, SweepPcs
  <1>3. Recovery \in scene.loops
    BY <1>1, <1>2, LoopBusy, Names
  <1>4. Single
    BY <1>2, <1>3 DEF SerialInv, Watched, Calm, Returning
  <1> QED
    BY <1>1, <1>2, <1>4 DEF Single, Disc, Doing

\* The sync removes no copy: none of its shard is later than that of another.
LEMMA SyncKeeps ==
    ASSUME SerialInv, NEW w \in Workers, SyncObjects(w)
    PROVE  \A k \in Objects : copies[k] \subseteq copies'[k]
  <1> DEFINE s == job[w].shard
  <1>0. job[w].pc = "sync"
    BY DEF SyncObjects, AtPc
  <1>1. w = Recovery /\ Single /\ Busy(w) /\ s \in Slot /\ state[s] = "Syncing" /\ device[s] = "ok" /\ Sane
    BY <1>0, ReturnIsSingle DEF SerialInv
  <1>2. PICK stale \in SUBSET Objects :
          copies' = IF Answering(s) THEN [k \in Objects |-> Synced(k, s, k \in stale)] ELSE copies
    BY DEF SyncObjects
  <1> SUFFICES ASSUME NEW k \in Objects
               PROVE  copies[k] \subseteq copies'[k]
    OBVIOUS
  <1>3. entry[k] \subseteq copies[k] /\ entry[k] \in SUBSET Slot
    BY <1>0, <1>1, BackedNow, EntryIs
  <1>4. Cardinality(entry[k]) >= 2
    BY <1>1 DEF Single
  <1>5. PICK r \in entry[k] : r # s
    <2> SUFFICES ASSUME entry[k] \subseteq {s}
                 PROVE  FALSE
      OBVIOUS
    <2>1. Cardinality(entry[k]) <= Cardinality({s}) /\ Cardinality({s}) = 1 /\ Cardinality(entry[k]) \in Nat
      BY <1>1, <1>3, SlotFacts, FS_Singleton
    <2> QED
      BY <1>4, <2>1
  <1>6. state[r] = "Healthy" /\ device[r] = "ok" /\ r \in Slot
    BY <1>1, <1>3, <1>5 DEF Single, Hurt
  <1> DEFINE sources == {q \in (entry[k] \ {s}) \cap Healthy : Answering(q) /\ q \in copies[k]}
  <1>7. r \in sources
    BY <1>3, <1>5, <1>6 DEF Healthy, Answering
  <1>8. copies[k] \subseteq Synced(k, s, k \in stale)
    BY <1>7 DEF Synced
  <1> QED
    BY <1>2, <1>8

\* Sync_and_reattach keeps the books.
LEMMA SyncBooks ==
    ASSUME SerialInv, Sane', NEW w \in Workers, SyncObjects(w)
    PROVE  Books'
  <1>0. job[w].pc = "sync" /\ job[w] \in Job /\ Busy(w) /\ scene' = scene /\ entry' = entry
    BY SaneJob DEF SyncObjects, AtPc, Busy, Resting, SerialInv
  <1>1. PICK r : r = [job[w] EXCEPT !.pc = "attach"]
    OBVIOUS
  <1>2. job' = [job EXCEPT ![w] = r] /\ r.pc = "attach"
    BY <1>0, <1>1 DEF SyncObjects, Pc, Continue, Job
  <1>3. (Informed(r))'
    BY <1>2 DEF Informed
  <1>4. \A v \in Workers : Informed(job[v])'
    BY <1>0, <1>2, <1>3, InformedBusy
  <1>5. \A k \in Objects : copies[k] \subseteq copies'[k]
    BY SyncKeeps
  <1>6. \A k \in Objects : entry'[k] \subseteq copies'[k]
    BY <1>0, <1>5, BackedNow
  <1>7. Kept'
    BY <1>0, <1>5, KeptMore DEF Sane, AdminTyped
  <1> QED
    BY <1>4, <1>6, <1>7 DEF Books, Backed

\* What the return of a shard changes.
LEMMA AttachDoes ==
    ASSUME SerialInv, NEW w \in Workers, AttachShard(w)
    PROVE  /\ w = Recovery /\ Single /\ Busy(w) /\ job[w].pc = "attach" /\ job[w].shard \in Slot
           /\ \A k \in Objects : /\ entry[k] \subseteq entry'[k]
                                 /\ entry'[k] \subseteq entry[k] \cup {job[w].shard}
                                 /\ entry'[k] \subseteq copies[k]
           /\ state' = [state EXCEPT ![job[w].shard] = "Healthy"]
           /\ UNCHANGED <<copies, device, running, scene>>
           /\ \E r : job' = [job EXCEPT ![w] = r] /\ r.pc = "poll"
  <1> DEFINE s == job[w].shard
  <1>0. job[w].pc = "attach" /\ job[w] \in Job
    BY SaneJob DEF AttachShard, AtPc, SerialInv
  <1>1. w = Recovery /\ Single /\ Busy(w) /\ s \in Slot /\ device[s] = "ok"
    BY <1>0, ReturnIsSingle
  <1>2. /\ entry' = [k \in Objects |-> IF s \in copies[k] THEN entry[k] \cup {s} ELSE entry[k] \ {s}]
        /\ state' = [state EXCEPT ![s] = "Healthy"]
    BY <1>1 DEF AttachShard, Answering, Out
  <1>3. \A k \in Objects : entry[k] \subseteq copies[k]
    BY <1>0, <1>1, BackedNow
  <1>4. \A k \in Objects : /\ entry[k] \subseteq entry'[k]
                           /\ entry'[k] \subseteq entry[k] \cup {s}
                           /\ entry'[k] \subseteq copies[k]
    BY <1>2, <1>3
  <1>5. job' = [job EXCEPT ![w] = [job[w] EXCEPT !.pc = "poll", !.shard = s + 1]]
    BY <1>1, Names DEF AttachShard, Continue
  <1>6. [job[w] EXCEPT !.pc = "poll", !.shard = s + 1].pc = "poll"
    BY <1>0 DEF Job
  <1> QED
    BY <1>0, <1>1, <1>2, <1>4, <1>5, <1>6 DEF AttachShard

\* The return of a shard keeps the books.
LEMMA AttachBooks ==
    ASSUME SerialInv, NEW w \in Workers, AttachShard(w)
    PROVE  Books'
  <1>1. PICK r : job' = [job EXCEPT ![w] = r] /\ r.pc = "poll"
    BY AttachDoes
  <1>2. (Informed(r))'
    BY <1>1 DEF Informed
  <1>3. \A v \in Workers : Informed(job[v])'
    BY <1>1, <1>2, InformedBusy, AttachDoes
  <1>4. \A k \in Objects : entry'[k] \subseteq copies'[k]
    BY AttachDoes
  <1>5. UNCHANGED <<copies, scene>>
    BY AttachDoes
  <1>6. Kept'
    BY <1>5 DEF SerialInv, Kept, Enough, Rf, OpsAsked, OpName
  <1> QED
    BY <1>3, <1>4, <1>6 DEF Books, Backed

\* Every step of a sweep keeps the books.
LEMMA SweepBooks ==
    ASSUME SerialInv, Sane', NEW w \in Workers, SweepStep(w)
    PROVE  Books'
  BY ReadBooks, WriteBooks, DeleteBooks, ForgetBooks, CopyBooks, TrimBooks, StageEndsBooks, ScanBooks,
     SwapBooks, BeginBooks, SyncBooks, AttachBooks DEF SweepStep

\* Every step of the recovery loop keeps the books.
LEMMA RecoveryBooks ==
    ASSUME SerialInv, Sane', RecoveryStep
    PROVE  Books'
  <1>0. Recovery \in Workers /\ job[Recovery] \in Job /\ Sane
    BY SaneJob, Names DEF SerialInv
  <1>1. "poll" \in Bare /\ "probe" \in Bare /\ "reprobe" \in Bare /\ "sync" \in Bare /\ "locked" \in Bare /\ "idle" \in Bare
    BY DEF Bare, Pcs, RecoveryPcs
  <1>2. CASE PollBegins
    <2>1. [NoJob EXCEPT !.pc = "poll"].pc = "poll"
      BY NoJobIs DEF Job
    <2> QED
      BY <1>0, <1>1, <1>2, <2>1, BooksBare DEF PollBegins, AtPc, Shared
  <1>3. CASE Poll
    <2>1. /\ [job[Recovery] EXCEPT !.pc = "poll", !.shard = job[Recovery].shard + 1].pc = "poll"
          /\ [job[Recovery] EXCEPT !.pc = "probe"].pc = "probe"
          /\ [job[Recovery] EXCEPT !.pc = "reprobe"].pc = "reprobe"
      BY <1>0 DEF Job
    <2>2. job[Recovery].pc = "poll" /\ UNCHANGED <<copies, entry, scene>>
      BY <1>0, <1>3, PollDoes
    <2>3. PICK r : Continue(Recovery, r) /\ r.pc \in {"poll", "probe", "reprobe"}
      BY <1>0, <1>3, <2>1, PollDoes
    <2> QED
      BY <1>0, <1>1, <2>2, <2>3, BooksBare
  <1>4. CASE ProbeEnds
    <2>1. [job[Recovery] EXCEPT !.pc = "poll", !.shard = job[Recovery].shard + 1].pc = "poll"
      BY <1>0 DEF Job
    <2>2. PICK r : Continue(Recovery, r) /\ r.pc = "poll"
      BY <1>4, <2>1 DEF ProbeEnds
    <2>3. job[Recovery].pc = "probe" /\ UNCHANGED <<copies, entry, scene>>
      BY <1>4 DEF ProbeEnds, AtPc
    <2> QED
      BY <1>0, <1>1, <2>2, <2>3, BooksBare
  <1>5. CASE ReprobeEnds
    <2>1. \A p, s : [job[Recovery] EXCEPT !.pc = p, !.shard = s].pc = p
      BY <1>0 DEF Job
    <2> QED
      BY <1>0, <1>1, <1>5, <2>1, BooksBare, ZenonT(60) DEF ReprobeEnds, BeginSync, AtPc
  <1>6. CASE CheckAdminOp
    <2>1. [job[Recovery] EXCEPT !.pc = "locked", !.did = running # NoOp].pc = "locked"
      BY <1>0 DEF Job
    <2>2. PICK r : Continue(Recovery, r) /\ r.pc = "locked"
      BY <1>6, <2>1 DEF CheckAdminOp
    <2>3. job[Recovery].pc = "poll" /\ UNCHANGED <<copies, entry, scene>>
      BY <1>6 DEF CheckAdminOp, AtPc, Shared
    <2> QED
      BY <1>0, <1>1, <2>2, <2>3, BooksBare
  <1>7. CASE SweepsBegin
    BY <1>0, <1>1, <1>7, BooksBare, BooksStart, NoJobIs DEF SweepsBegin, AtPc, Shared
  <1>8. CASE SweepStep(Recovery)
    BY <1>0, <1>8, SweepBooks
  <1> QED
    BY <1>2, <1>3, <1>4, <1>5, <1>6, <1>7, <1>8 DEF RecoveryStep

\* Every step of the repair loop keeps the books.
LEMMA RepairBooks ==
    ASSUME SerialInv, Sane', RepairStep
    PROVE  Books'
  <1>1. CASE CycleBegins
    <2>1. [NoJob EXCEPT !.pc = "scan"].pc = "scan" /\ "scan" \in Bare
      BY NoJobIs DEF Job, Bare, Pcs, RepairPcs
    <2> QED
      BY <1>1, <2>1, Names, BooksBare DEF CycleBegins, AtPc, Shared
  <1> QED
    BY <1>1, SweepBooks, Names DEF RepairStep

\* A failing device keeps the books.
LEMMA DeviceBooks ==
    ASSUME SerialInv, DeviceStep
    PROVE  Books'
  <1>1. /\ UNCHANGED <<copies, entry, job>> /\ scene'.factor = scene.factor
        /\ scene'.placed = scene.placed /\ OpsAsked' = OpsAsked
    BY SceneKept DEF SerialInv, DeviceStep, DeviceFails, DeviceReturns, AdminNext
  <1>2. Backed'
    BY <1>1 DEF SerialInv, Backed
  <1>3. \A w \in Workers : Informed(job[w])'
    BY <1>1 DEF SerialInv, Informed, Rf
  <1>4. Kept'
    BY <1>1 DEF SerialInv, Kept, Enough, Rf
  <1> QED
    BY <1>2, <1>3, <1>4 DEF Books

\* Drain_shard on an object keeps the books.
LEMMA DrainNextBooks ==
    ASSUME SerialInv, Sane', NEW a \in Admins, DrainNext(a)
    PROVE  Books'
  <1> DEFINE v == job[a].shard
             j == job[a]
  <1>0. /\ j.pc = "drain" /\ j \in Job /\ Sane /\ Busy(a) /\ a \in Workers /\ v \in Slot /\ scene' = scene
        /\ Informed(j) /\ state[v] = "Detached" /\ "drain" \in OpsAsked
    <2>1. j.pc = "drain" /\ scene' = scene /\ Sane
      BY DEF DrainNext, AtPc, SerialInv
    <2>2. j \in Job /\ a \in Workers /\ v \in Slot /\ OpName(a) = "drain"
      BY <2>1, DrainJob
    <2> QED
      BY <2>1, <2>2 DEF SerialInv, Busy, Resting, Victims, OpsAsked
  <1>1. PICK k \in j.todo :
             \/ /\ Continue(a, Drained(a, k, SafeAlready(k, v)))
                /\ UNCHANGED <<copies, entry, state>>
             \/ \E T \in SurvivorTargets, placed \in SUBSET Slot, ok \in BOOLEAN :
                      Rescued(a, k, T, placed, ok)
    BY <1>0, DrainNextDoes
  <1>2. k \in Objects
    BY <1>0 DEF Job
  <1>3. CASE Continue(a, Drained(a, k, SafeAlready(k, v))) /\ UNCHANGED <<copies, entry, state>>
    <2>1. PICK r : r = Drained(a, k, SafeAlready(k, v))
      OBVIOUS
    <2>2. /\ r.pc = "drain" /\ r.shard = v
          /\ r.safe = IF SafeAlready(k, v) THEN j.safe \cup {k} ELSE j.safe
      <3>1. SafeAlready(k, v) \in BOOLEAN
        BY DEF SafeAlready
      <3> QED
        BY <1>0, <1>2, <2>1, <3>1, DrainedIs, ZenonT(60)
    <2>3. \A i \in j.safe : entry[i] \ {v} # {}
      BY <1>0 DEF Informed
    <2>4. \A i \in r.safe : entry[i] \ {v} # {}
      BY <2>2, <2>3 DEF SafeAlready
    <2>5. Informed(r)
      BY <2>2, <2>4 DEF Informed
    <2> QED
      BY <1>0, <1>3, <2>1, <2>5, BooksQuiet DEF Continue
  <1>4. ASSUME NEW T \in SurvivorTargets, NEW placed \in SUBSET Slot, NEW ok \in BOOLEAN,
               Rescued(a, k, T, placed, ok)
        PROVE  Books'
    <2>1. PICK r : r = Drained(a, k, ok)
      OBVIOUS
    <2>2. /\ r.pc = "drain" /\ r.shard = v
          /\ r.safe = IF ok THEN j.safe \cup {k} ELSE j.safe
      BY <1>0, <1>2, <2>1, DrainedIs
    <2>3. job' = [job EXCEPT ![a] = r]
      BY <1>4, <2>1 DEF Rescued, Continue
    <2>4. /\ \A i \in Objects : i # k => copies'[i] = copies[i] /\ entry'[i] = entry[i]
          /\ ok => entry'[k] = placed /\ copies'[k] = copies[k] \cup placed
          /\ ~ ok => entry'[k] = entry[k]
          /\ copies[k] \subseteq copies'[k]
      BY <1>0, <1>2, <1>4 DEF Rescued, Sane, AdminTyped, Placing
    <2>5. v \notin placed
      <3>1. v \notin Usable
        BY <1>0 DEF Usable
      <3> QED
        BY <1>4, <3>1 DEF Rescued, SurvivorTargets
    <2>6. ok => placed # {}
      <3> SUFFICES ASSUME ok, placed = {}
                   PROVE  FALSE
        OBVIOUS
      <3>1. Cardinality(placed) >= MinPlaced /\ Cardinality(placed) = 0
        BY <1>4, FS_EmptySet DEF Rescued
      <3> QED
        BY <1>0, <3>1, RfIs
    <2>7. \A i \in j.safe : i \in Objects /\ entry[i] \ {v} # {}
      BY <1>0 DEF Informed, Job
    <2>8. \A i \in r.safe : entry'[i] \ {v} # {}
      <3> SUFFICES ASSUME NEW i \in r.safe
                   PROVE  entry'[i] \ {v} # {}
        OBVIOUS
      <3>1. CASE ok /\ i = k
        BY <2>4, <2>5, <2>6, <3>1
      <3>2. CASE ~ (ok /\ i = k)
        <4>1. i \in j.safe
          BY <2>2, <3>2
        <4>2. entry'[i] = entry[i]
          BY <2>4, <2>7, <3>2, <4>1
        <4> QED
          BY <2>7, <4>1, <4>2
      <3> QED
        BY <3>1, <3>2
    <2>9. (Informed(r))'
      BY <2>2, <2>8 DEF Informed
    <2>10. \A u \in Workers : Informed(job[u])'
      BY <1>0, <2>3, <2>9, InformedBusy
    <2>11. \A i \in Objects : entry'[i] \subseteq copies'[i]
      <3>1. \A i \in Objects : entry[i] \subseteq copies[i]
        BY <1>0, BackedNow
      <3> QED
        BY <1>2, <2>4, <3>1
    <2>12. Kept'
      <3>1. \A i \in Objects : copies[i] \subseteq copies'[i]
        BY <1>2, <2>4
      <3> QED
        BY <1>0, <3>1, KeptMore DEF Sane, AdminTyped
    <2> QED
      BY <2>10, <2>11, <2>12 DEF Books, Backed
  <1> QED
    BY <1>1, <1>3, <1>4

\* The victim's removal from the catalog keeps the books.
LEMMA PurgeBooks ==
    ASSUME SerialInv, NEW a \in Admins, DrainPurge(a)
    PROVE  Books'
  <1> DEFINE v == job[a].shard
             j == job[a]
  <1>0. /\ j.pc = "drain" /\ j \in Job /\ Busy(a) /\ a \in Workers /\ Informed(j)
        /\ UNCHANGED <<copies, scene>>
    BY DrainJob DEF DrainPurge, AtPc, SerialInv, Busy, Resting
  <1>1. PICK r : r = [j EXCEPT !.pc = "erase"]
    OBVIOUS
  <1>2. r.pc = "erase" /\ r.shard = v /\ r.safe = j.safe /\ job' = [job EXCEPT ![a] = r]
    BY <1>0, <1>1 DEF Job, DrainPurge, Pc, Continue
  <1>3. \A k \in Objects : entry'[k] = entry[k] \ {v}
    BY DEF DrainPurge
  <1>4. \A k \in j.safe : k \in Objects /\ entry[k] \ {v} # {}
    BY <1>0 DEF Informed, Job
  <1>5. (Informed(r))'
    BY <1>2, <1>3, <1>4 DEF Informed
  <1>6. \A u \in Workers : Informed(job[u])'
    BY <1>0, <1>2, <1>5, InformedBusy
  <1>7. \A i \in Objects : entry[i] \subseteq copies[i]
    BY <1>0, BackedNow
  <1>8. Kept'
    BY <1>0 DEF SerialInv, Kept, Enough, Rf, OpsAsked, OpName
  <1> QED
    BY <1>0, <1>3, <1>6, <1>7, <1>8 DEF Books, Backed

\* The erasure of the victim keeps the books.
LEMMA EraseBooks ==
    ASSUME SerialInv, NEW a \in Admins, DrainErase(a)
    PROVE  Books'
  <1> DEFINE v == job[a].shard
             j == job[a]
  <1>0. /\ j.pc = "erase" /\ j \in Job /\ Sane /\ Busy(a) /\ a \in Workers /\ Informed(j)
        /\ UNCHANGED <<entry, scene>> /\ "drain" \in OpsAsked
    BY DrainJob DEF DrainErase, AtPc, SerialInv, Busy, Resting, OpsAsked
  <1>1. PICK k \in j.safe :
          /\ copies' = IF Answering(v) THEN [copies EXCEPT ![k] = @ \ {v}] ELSE copies
          /\ Continue(a, [j EXCEPT !.safe = @ \ {k}])
    BY DEF DrainErase
  <1>2. PICK r : r = [j EXCEPT !.safe = @ \ {k}]
    OBVIOUS
  <1>3. r.pc = "erase" /\ r.shard = v /\ r.safe = j.safe \ {k} /\ job' = [job EXCEPT ![a] = r]
    BY <1>0, <1>1, <1>2 DEF Job, Continue
  <1>4. k \in Objects
    BY <1>0 DEF Job
  <1>5. /\ \A i \in j.safe : entry[i] \ {v} # {}
        /\ \A i \in Objects : v \notin entry[i]
    BY <1>0 DEF Informed
  <1>6. (Informed(r))'
    BY <1>0, <1>3, <1>5 DEF Informed
  <1>7. \A u \in Workers : Informed(job[u])'
    BY <1>0, <1>3, <1>6, InformedBusy
  <1>8. \A i \in Objects : entry[i] \subseteq copies[i]
    BY <1>0, BackedNow
  <1>9. /\ \A i \in Objects : i # k => copies'[i] = copies[i]
        /\ copies'[k] = copies[k] \/ copies'[k] = copies[k] \ {v}
    BY <1>0, <1>1, <1>4 DEF Sane, AdminTyped, Placing
  <1>10. \A i \in Objects : entry[i] \subseteq copies'[i]
    BY <1>5, <1>8, <1>9
  <1>11. Kept'
    <2>1. \A i \in Objects : copies'[i] # {}
      BY <1>1, <1>4, <1>5, <1>9, <1>10 DEF SerialInv, Kept
    <2> QED
      BY <1>0, <2>1 DEF Kept, OpsAsked, OpName
  <1> QED
    BY <1>0, <1>7, <1>10, <1>11 DEF Books, Backed

\* Every step of an operation keeps the books.
LEMMA OperationBooks ==
    ASSUME SerialInv, Sane', NEW a \in Admins, OperationStep(a)
    PROVE  Books'
  <1>0. Sane /\ a \in Workers /\ job[a] \in Job /\ Informed(job[a])
    BY SaneJob, Names DEF SerialInv
  <1>1. "release" \in Bare /\ "done" \in Bare /\ "victim" \in Bare
    BY DEF Bare, Pcs, AdminPcs
  <1>2. CASE MoveNext(a)
    <2> DEFINE c == job[a].counts
    <2>0. job[a].pc = "move" /\ UNCHANGED <<copies, entry, scene>>
      BY <1>0, <1>2, MoveNextDoes DEF Shared
    <2>1. CASE Pc(a, "release")
      BY <1>0, <1>1, <2>0, <2>1, BooksPc
    <2>2. ASSUME NEW src \in Fullest(c), NEW dst \in Emptiest(c), NEW k \in Movable(c, src, dst),
                 Continue(a, [job[a] EXCEPT !.pc = "read", !.key = k, !.from = src, !.to = dst])
          PROVE  Books'
      <3>1. PICK r : r = [job[a] EXCEPT !.pc = "read", !.key = k, !.from = src, !.to = dst]
        OBVIOUS
      <3>2. /\ r.pc = "read" /\ r.key = k /\ r.from = src /\ r.to = dst /\ r.counts = c
            /\ job' = [job EXCEPT ![a] = r]
        BY <1>0, <2>2, <3>1 DEF Job, Continue
      <3>3. /\ src \in entry[k] /\ dst \notin entry[k] /\ dst \in DOMAIN c
            /\ Cardinality((entry[k] \ {src}) \cap DOMAIN c) + 1 >= Rf
        BY DEF Movable, Emptiest
      <3>4. Informed(r)
        BY <3>2, <3>3 DEF Informed
      <3> QED
        BY <1>0, <2>0, <3>2, <3>4, BooksQuiet
    <2> QED
      BY <1>0, <1>2, <2>1, <2>2, MoveNextDoes
  <1>3. CASE Release(a)
    BY <1>0, <1>1, <1>3, BooksPc DEF Release, AtPc
  <1>4. CASE DrainHold(a)
    BY <1>0, <1>1, <1>4, BooksPc DEF DrainHold, AtPc
  <1>5. CASE DrainList(a)
    <2>0. job[a].pc = "victim" /\ UNCHANGED <<copies, entry, scene>>
      BY <1>5 DEF DrainList, AtPc, Shared
    <2>1. PICK listed : Continue(a, [job[a] EXCEPT !.pc = "drain", !.todo = listed])
      BY <1>5 DEF DrainList
    <2>2. PICK r : r = [job[a] EXCEPT !.pc = "drain", !.todo = listed]
      OBVIOUS
    <2>3. r.pc = "drain" /\ r.safe = job[a].safe /\ job' = [job EXCEPT ![a] = r]
      BY <1>0, <2>1, <2>2 DEF Job, Continue
    <2>4. r.safe = {}
      BY <2>0, <2>3 DEF SerialInv, Fresh
    <2>5. Informed(r)
      BY <2>3, <2>4 DEF Informed
    <2> QED
      BY <1>0, <2>0, <2>3, <2>5, BooksQuiet
  <1>6. CASE DrainSweep(a)
    BY <1>0, <1>6, BooksStart DEF DrainSweep, AtPc, Shared
  <1> QED
    BY <1>0, <1>2, <1>3, <1>4, <1>5, <1>6, DrainNextBooks, PurgeBooks, EraseBooks, SweepBooks
       DEF OperationStep

\* A request keeps the books.
LEMMA RequestBooks ==
    ASSUME SerialInv, NEW a \in Admins, RequestStep(a)
    PROVE  Books'
  <1>0. Sane /\ a \in Workers /\ job[a] \in Job
    BY SaneJob, Names DEF SerialInv
  <1>1. "done" \in Bare /\ "hold" \in Bare /\ "scan" \in Bare
    BY DEF Bare, Pcs, AdminPcs
  <1>2. CASE Acquire(a)
    <2>1. PICK r : Continue(a, r) /\ r.pc \in {"done", "hold", "scan"}
      <3>1. [job[a] EXCEPT !.pc = "done"].pc = "done"
        BY <1>0 DEF Job
      <3> QED
        BY <1>0, <1>2, <3>1, AcquireDoes
    <2> QED
      BY <1>0, <1>1, <1>2, <2>1, BooksBare, AcquireDoes
  <1>3. CASE TakeOffline(a)
    <2>1. PICK r : r = [job[a] EXCEPT !.pc = "done", !.did = InPoll(OpShard(a))]
      OBVIOUS
    <2>2. r.pc = "done"
      BY <1>0, <2>1 DEF Job
    <2> QED
      BY <1>0, <1>1, <1>3, <2>1, <2>2, BooksBare DEF TakeOffline, AtPc
  <1>4. CASE AttachRequest(a)
    <2>1. state[OpShard(a)] = "Healthy"
      BY <1>0, <1>4, ShardOf DEF SerialInv, Refused, AttachRequest
    <2>2. Pc(a, "done") /\ job[a].pc = "idle" /\ UNCHANGED <<copies, entry, scene>>
      BY <1>4, <2>1 DEF AttachRequest, AtPc
    <2> QED
      BY <1>0, <1>1, <2>2, BooksPc
  <1> QED
    BY <1>2, <1>3, <1>4 DEF RequestStep

----------------------------------------------------------------------------
\* A worker at rest takes no step of a sweep or an operation.
LEMMA AtRest ==
    ASSUME NEW w, job[w].pc \in Resting
    PROVE  ~ SweepStep(w) /\ ~ OperationStep(w)
  BY DEF OperationStep, SweepStep, MoveNext, Release, DrainHold, DrainList, DrainNext,
     DrainPurge, DrainErase, DrainSweep, ReplicateRead, ReplicateWrite, RemoveDelete, RemoveForget,
     CopyNext, TrimNext, StageEnds, RebuildScan, RebuildSwap, BeginOnCatalog, SyncObjects,
     AttachShard, AtPc, Resting

\* The recovery loop acts while it is at work, or when its tick is due.
LEMMA RecoveryActs ==
    ASSUME RecoveryStep
    PROVE  Busy(Recovery) \/ (Recovery \in scene.loops /\ PollBegins)
  <1>1. CASE PollBegins
    BY <1>1 DEF PollBegins
  <1>2. CASE Poll \/ ProbeEnds \/ ReprobeEnds \/ CheckAdminOp \/ SweepsBegin
    <2>1. job[Recovery].pc \in {"poll", "probe", "reprobe", "locked"}
      BY <1>2 DEF Poll, ProbeEnds, ReprobeEnds, CheckAdminOp, SweepsBegin, AtPc
    <2> QED
      BY <2>1 DEF Busy, Resting
  <1>3. CASE SweepStep(Recovery)
    BY <1>3, AtRest DEF Busy
  <1> QED
    BY <1>1, <1>2, <1>3 DEF RecoveryStep

\* The same for the repair loop.
LEMMA RepairActs ==
    ASSUME RepairStep
    PROVE  Busy("repair") \/ ("repair" \in scene.loops /\ CycleBegins)
  BY AtRest DEF RepairStep, CycleBegins, AtPc, Busy, Resting

\* A shard in service is never attached.
LEMMA NextRefused ==
    ASSUME SerialInv, [AdminNext]_adminVars
    PROVE  Refused'
  <1>0. Sane
    BY DEF SerialInv
  <1>1. \A a \in Admins : OpName(a)' = OpName(a)
    BY <1>0, SceneKept
  <1> SUFFICES ASSUME NEW a \in Admins, OpName(a) = "attach"
               PROVE  /\ \A s \in Slot : state'[s] = "Healthy"
                      /\ \A w \in Workers : job'[w].pc \in Resting
    BY <1>1 DEF Refused
  <1>2. /\ \A s \in Slot : state[s] = "Healthy"
        /\ \A w \in Workers : job[w].pc \in Resting
        /\ scene.loops = {} /\ \A b \in Admins : OpName(b) \in {"attach", "nothing"}
    BY DEF SerialInv, Refused, OneMover, OpName
  <1>3. ~ RecoveryStep /\ ~ RepairStep
    BY <1>2, RecoveryActs, RepairActs, Names DEF Busy
  <1>4. CASE DeviceStep \/ UNCHANGED adminVars
    BY <1>2, <1>4 DEF DeviceStep, DeviceFails, DeviceReturns, adminVars
  <1>5. ASSUME NEW b \in Admins, RequestStep(b)
        PROVE  /\ \A s \in Slot : state'[s] = "Healthy"
               /\ \A w \in Workers : job'[w].pc \in Resting
    <2>1. AttachRequest(b)
      BY <1>2, <1>5 DEF RequestStep, Acquire, TakeOffline, Exclusive
    <2>2. state[OpShard(b)] = "Healthy"
      BY <1>0, <1>2, ShardOf
    <2>3. Pc(b, "done") /\ state' = state
      BY <2>1, <2>2 DEF AttachRequest
    <2>4. job' = [job EXCEPT ![b] = [job[b] EXCEPT !.pc = "done"]] /\ [job[b] EXCEPT !.pc = "done"].pc = "done"
      BY <1>0, <2>3, DoneIs DEF Pc, Continue
    <2>5. \A w \in Workers : job'[w].pc \in Resting
      BY <1>0, <1>2, <2>4 DEF Sane, AdminTyped, Resting
    <2> QED
      BY <1>2, <2>3, <2>5
  <1> QED
    BY <1>2, <1>3, <1>4, <1>5, AtRest, Names DEF AdminNext

\* The victim of a drain stays out of service.
LEMMA DrainKeeps ==
    ASSUME SerialInv, [AdminNext]_adminVars, NEW a \in Admins, job'[a].pc \in {"hold", "victim", "drain"}
    PROVE  /\ job'[a].pc \in {"victim", "drain"} => state'[job'[a].shard] = "Detached"
           /\ job'[a].pc \in {"hold", "victim"} => job'[a].safe = {}
  <1> DEFINE Goal == /\ job'[a].pc \in {"victim", "drain"} => state'[job'[a].shard] = "Detached"
                     /\ job'[a].pc \in {"hold", "victim"} => job'[a].safe = {}
  <1>0. Sane /\ a \in Workers /\ job \in [Workers -> Job] /\ job[a] \in Job /\ state \in [Slot -> States]
    BY Names DEF SerialInv, Sane, AdminTyped
  <1>1. ASSUME job'[a] = job[a], state[job[a].shard] = "Detached" => state'[job[a].shard] = "Detached"
        PROVE  Goal
    BY <1>1 DEF SerialInv, Victims, Fresh
  <1>2. ASSUME job'[a] = job[a]
        PROVE  Busy(a) /\ scene.loops = {} /\ (\A b \in Admins : OpName(b) # "attach") /\ job[a].shard \in Slot
    <2>1. Busy(a) /\ job[a].pc \in {"hold", "victim", "drain"}
      BY <1>2 DEF Busy, Resting
    <2> QED
      BY <1>0, <2>1, NoAttach, DrainJob
  <1> SUFFICES Goal
    OBVIOUS
  <1> HIDE DEF Goal
  <1>3. CASE RecoveryStep
    <2>1. CASE job'[a] = job[a]
      BY <1>2, <1>3, <2>1, RecoveryActs, LoopBusy, Names
    <2>2. CASE job'[a] # job[a]
      <3>1. Busy(Recovery) => ~ Busy(a)
        BY <1>0, OneBusy, Names
      <3>2. \E r : Continue(Recovery, r)
        <4>1. CASE PollBegins
          BY <4>1 DEF PollBegins
        <4>2. CASE Poll
          BY <1>0, <4>2, PollDoes
        <4>3. CASE ProbeEnds
          BY <4>3 DEF ProbeEnds
        <4>4. CASE ReprobeEnds
          BY <4>4 DEF ReprobeEnds, BeginSync
        <4>5. CASE CheckAdminOp
          BY <4>5 DEF CheckAdminOp
        <4>6. CASE SweepsBegin
          <5>1. CASE Continue(Recovery, NoJob)
            BY <5>1
          <5>2. CASE StartStage(Recovery, "sweep")
            BY <5>2, StageDoes DEF Continue
          <5> QED
            BY <4>6, <5>1, <5>2 DEF SweepsBegin
        <4>7. CASE SweepStep(Recovery)
          <5>1. CASE job[Recovery].pc \notin Returning
            <6>1. \A v \in Workers : v # Recovery => job'[v] = job[v]
              BY <1>0, <4>7, <5>1, SweepKeepsOut, Names
            <6> QED
              BY <1>0, <2>2, <6>1, Names
          <5>2. CASE job[Recovery].pc \in Returning
            <6>1. SyncObjects(Recovery) \/ AttachShard(Recovery)
              BY <4>7, <5>2 DEF SweepStep, ReplicateRead, ReplicateWrite, RemoveDelete, RemoveForget,
                 CopyNext, TrimNext, StageEnds, RebuildScan, RebuildSwap, BeginOnCatalog, AtPc, Returning
            <6> QED
              BY <6>1 DEF SyncObjects, AttachShard, Pc
          <5> QED
            BY <5>1, <5>2
        <4> QED
          BY <1>3, <4>1, <4>2, <4>3, <4>4, <4>5, <4>6, <4>7 DEF RecoveryStep
      <3> QED
        BY <1>0, <2>2, <3>2, Names DEF Continue
    <2> QED
      BY <2>1, <2>2
  <1>4. CASE RepairStep
    <2>1. job'[a] = job[a]
      <3>1. CASE CycleBegins
        BY <1>0, <3>1, Names DEF CycleBegins, Continue
      <3>2. CASE SweepStep("repair")
        <4>1. job["repair"].pc \notin Returning
          BY <1>0, SaneJob, Names DEF Disc, Where, RepairPcs, SweepPcs, Returning
        <4> QED
          BY <1>0, <3>2, <4>1, SweepKeepsOut, Names
      <3> QED
        BY <1>4, <3>1, <3>2 DEF RepairStep
    <2> QED
      BY <1>2, <1>4, <2>1, RepairActs, LoopBusy, Names
  <1>5. CASE DeviceStep \/ UNCHANGED adminVars
    BY <1>1, <1>5 DEF DeviceStep, DeviceFails, DeviceReturns, adminVars
  <1>6. ASSUME NEW b \in Admins, RequestStep(b)
        PROVE  Goal
    <2>1. CASE Acquire(b)
      <3>1. CASE b = a
        <4>1. CASE running # NoOp
          BY <1>0, <2>1, <3>1, <4>1, AcquireDoes, DoneIs DEF Continue
        <4>2. CASE running = NoOp
          <5>1. PICK r \in Job : Continue(a, r) /\ r.pc \in {"hold", "scan"} /\ r.safe = {}
            BY <1>0, <2>1, <3>1, <4>2, AcquireDoes
          <5>2. job'[a] = r
            BY <1>0, <5>1 DEF Continue
          <5> QED
            BY <5>1, <5>2 DEF Goal
        <4> QED
          BY <4>1, <4>2
      <3>2. CASE b # a
        <4>1. PICK r : Continue(b, r)
          BY <1>0, <2>1, AcquireDoes
        <4>2. job'[a] = job[a]
          BY <1>0, <3>2, <4>1 DEF Continue
        <4> QED
          BY <1>0, <1>1, <2>1, <4>2, AcquireDoes
      <3> QED
        BY <3>1, <3>2
    <2>2. CASE TakeOffline(b)
      <3>1. CASE b = a
        BY <1>0, <2>2, <3>1, DoneIs DEF TakeOffline, Pc, Continue
      <3>2. CASE b # a
        <4>1. job'[a] = job[a]
          BY <1>0, <2>2, <3>2 DEF TakeOffline, Pc, Continue
        <4>2. job[a].shard \in Slot
          BY <1>2, <4>1
        <4>3. state[job[a].shard] = "Detached" => state'[job[a].shard] = "Detached"
          BY <1>0, <2>2, <4>2 DEF TakeOffline, Out
        <4> QED
          BY <1>1, <4>1, <4>3
      <3> QED
        BY <3>1, <3>2
    <2>3. CASE AttachRequest(b)
      <3>1. state[OpShard(b)] = "Healthy" /\ \A w \in Workers : job[w].pc \in Resting
        BY <1>0, <2>3, ShardOf DEF SerialInv, Refused, AttachRequest
      <3>2. Pc(b, "done")
        BY <2>3, <3>1 DEF AttachRequest
      <3>3. job'[a].pc \in Resting
        BY <1>0, <3>1, <3>2, DoneIs DEF Pc, Continue, Resting
      <3> QED
        BY <3>3 DEF Resting
    <2> QED
      BY <1>6, <2>1, <2>2, <2>3 DEF RequestStep
  <1>7. ASSUME NEW b \in Admins, OperationStep(b)
        PROVE  Goal
    <2>0. Busy(b) /\ b \in Workers
      BY <1>7, AtRest, Names DEF Busy
    <2>1. ASSUME NEW r, Continue(b, r)
          PROVE  /\ b = a => job'[a] = r
                 /\ b # a => job'[a] = job[a]
      BY <1>0, <2>0, <2>1 DEF Continue
    <2>2. job'[a] = job[a] => b = a
      BY <1>0, <1>2, <2>0, OneBusy
    <2>3. CASE SweepStep(b)
      <3>1. job[b].pc \notin Returning
        <4>1. job[b].pc \notin {"sync", "attach"}
          BY <2>0, NoAttach
        <4> QED
          BY <1>0, <2>0, <4>1, SaneJob, Names DEF Disc, Where, AdminPcs, SweepPcs, Returning
      <3>2. (\A v \in Workers : v # b => job'[v] = job[v]) /\ job'[b].pc \notin Parked
        BY <1>0, <2>0, <2>3, <3>1, SweepKeepsOut
      <3> QED
        BY <1>0, <2>2, <3>2 DEF Parked
    <2>4. CASE MoveNext(b)
      <3>1. PICK r : Continue(b, r) /\ r.pc \in {"read", "release"}
        <4>1. job[b] \in Job
          BY <1>0, <2>0
        <4>2. [job[b] EXCEPT !.pc = "release"].pc = "release"
          BY <4>1 DEF Job
        <4>3. CASE Pc(b, "release")
          BY <4>2, <4>3 DEF Pc
        <4>4. CASE ~ Pc(b, "release")
          <5>1. PICK k, f, t : Continue(b, [job[b] EXCEPT !.pc = "read", !.key = k, !.from = f, !.to = t])
            BY <1>0, <2>4, <4>4, MoveNextDoes
          <5>2. [job[b] EXCEPT !.pc = "read", !.key = k, !.from = f, !.to = t].pc = "read"
            BY <4>1 DEF Job
          <5> QED
            BY <5>1, <5>2
        <4> QED
          BY <4>3, <4>4
      <3> QED
        BY <2>1, <2>2, <3>1
    <2>5. CASE Release(b)
      BY <1>0, <2>1, <2>2, <2>5, DoneIs DEF Release, Pc
    <2>6. CASE DrainHold(b)
      <3>1. b = a
        BY <2>1, <2>2, <2>6 DEF DrainHold, Pc
      <3>2. PICK r : r = [job[a] EXCEPT !.pc = "victim"]
        OBVIOUS
      <3>3. r.pc = "victim" /\ r.safe = job[a].safe /\ r.shard = job[a].shard /\ job'[a] = r
        BY <1>0, <2>1, <2>6, <3>1, <3>2 DEF Job, DrainHold, Pc
      <3>4. job[a].safe = {} /\ job[a].shard \in Slot
        BY <1>0, <2>6, <3>1, DrainJob DEF DrainHold, AtPc, SerialInv, Fresh
      <3>5. state'[job[a].shard] = "Detached"
        BY <1>0, <2>6, <3>1, <3>4 DEF DrainHold, Out
      <3> QED
        BY <3>3, <3>4, <3>5 DEF Goal
    <2>7. CASE DrainList(b)
      <3>1. PICK listed : Continue(b, [job[b] EXCEPT !.pc = "drain", !.todo = listed])
        BY <2>7 DEF DrainList
      <3>2. b = a
        BY <2>1, <2>2, <3>1
      <3>3. job'[a].pc = "drain" /\ job'[a].shard = job[a].shard
        <4>1. PICK r : r = [job[a] EXCEPT !.pc = "drain", !.todo = listed]
          OBVIOUS
        <4>2. r.pc = "drain" /\ r.shard = job[a].shard
          BY <1>0, <4>1 DEF Job
        <4>3. job'[a] = r
          BY <2>1, <3>1, <3>2, <4>1
        <4> QED
          BY <4>2, <4>3
      <3>4. state' = state /\ job[a].pc = "victim"
        BY <2>7, <3>2 DEF DrainList, AtPc, Shared
      <3> QED
        BY <3>3, <3>4 DEF Goal, SerialInv, Victims
    <2>8. CASE DrainNext(b)
      <3>0. job[b].pc = "drain" /\ job[b].shard \in Slot
        BY <1>0, <2>8, DrainJob DEF DrainNext, AtPc
      <3>1. PICK k \in job[b].todo :
             \/ Continue(b, Drained(b, k, SafeAlready(k, job[b].shard))) /\ UNCHANGED <<copies, entry, state>>
             \/ \E T \in SurvivorTargets, placed \in SUBSET Slot, ok \in BOOLEAN : Rescued(b, k, T, placed, ok)
        BY <1>0, <2>8, DrainNextDoes
      <3>2. k \in Objects /\ SafeAlready(k, job[b].shard) \in BOOLEAN
        BY <1>0, <2>0 DEF Job, SafeAlready
      <3>3. PICK ok \in BOOLEAN : Continue(b, Drained(b, k, ok))
        BY <3>1, <3>2 DEF Rescued
      <3>4. b = a
        BY <2>1, <2>2, <3>3
      <3>5. job'[a].pc = "drain" /\ job'[a].shard = job[a].shard
        <4>1. PICK r : r = Drained(b, k, ok)
          OBVIOUS
        <4>2. r.pc = "drain" /\ r.shard = job[b].shard
          <5>0. Sane /\ job[b].pc = "drain"
            BY <1>0, <3>0
          <5>1. job[b] \in Job /\ job[b].pc = "drain"
            BY <5>0, DrainJob
          <5>2. r.pc = job[b].pc /\ r.shard = job[b].shard
            BY <4>1, <5>1 DEF Drained, Job
          <5> QED
            BY <5>1, <5>2
        <4>3. job'[a] = r
          BY <2>1, <3>3, <3>4, <4>1
        <4> QED
          BY <3>4, <4>2, <4>3
      <3>6. state[job[a].shard] = "Detached"
        BY <3>0, <3>4 DEF SerialInv, Victims
      <3>7. state'[job[a].shard] = "Detached"
        <4>1. ASSUME NEW T \in SurvivorTargets, NEW placed \in SUBSET Slot, NEW u \in BOOLEAN,
                     Rescued(b, k, T, placed, u)
              PROVE  state'[job[a].shard] = "Detached"
          <5>1. job[a].shard \notin T
            BY <3>6 DEF SurvivorTargets, Usable
          <5> QED
            BY <3>0, <3>4, <3>6, <4>1, <5>1 DEF Rescued
        <4> QED
          BY <3>1, <3>6, <4>1
      <3> QED
        BY <3>5, <3>7 DEF Goal
    <2>9. CASE DrainPurge(b)
      <3>1. [job[b] EXCEPT !.pc = "erase"].pc = "erase"
        BY <1>0, <2>0 DEF Job
      <3> QED
        BY <2>1, <2>2, <2>9, <3>1 DEF DrainPurge, Pc
    <2>10. CASE DrainErase(b)
      <3>1. PICK k : Continue(b, [job[b] EXCEPT !.safe = @ \ {k}])
        BY <2>10 DEF DrainErase
      <3>2. [job[b] EXCEPT !.safe = @ \ {k}].pc = "erase"
        BY <1>0, <2>0, <2>10 DEF Job, DrainErase, AtPc
      <3> QED
        BY <2>1, <2>2, <3>1, <3>2
    <2>11. CASE DrainSweep(b)
      <3>1. PICK B \in SUBSET Objects : Continue(b, Started(b, "under", B))
        BY <2>11, StageDoes DEF DrainSweep, Continue
      <3>2. Started(b, "under", B).pc = "copy"
        BY <1>0, <2>0 DEF Started, Job
      <3> QED
        BY <2>1, <2>2, <3>1, <3>2
    <2> QED
      BY <1>7, <2>3, <2>4, <2>5, <2>6, <2>7, <2>8, <2>9, <2>10, <2>11 DEF OperationStep
  <1> QED
    BY <1>3, <1>4, <1>5, <1>6, <1>7 DEF AdminNext, Goal

\* Steps that leave states and devices alone.
LEMMA SingleFrame ==
    ASSUME Single, UNCHANGED <<state, device, scene>>, \A k \in Objects : Cardinality(entry'[k]) >= 2,
           job[Recovery].pc \notin {"sync", "attach"}, job'[Recovery].pc \notin Returning
    PROVE  Single'
  <1>1. \A s \in Slot : state[s] # "Syncing"
    BY DEF Single
  <1>2. \A s \in Slot : Hurt(s)' <=> Hurt(s)
    BY DEF Hurt
  <1>3. Rf' = Rf /\ \A a \in Admins : OpName(a)' = OpName(a)
    BY DEF Rf, OpName
  <1> QED
    BY <1>1, <1>2, <1>3 DEF Single, Returning

\* The sweeps of the recovery loop leave two replicas in the catalog.
LEMMA SweepLeavesTwo ==
    ASSUME SerialInv, Single, SweepStep(Recovery)
    PROVE  \A k \in Objects : Cardinality(entry'[k]) >= 2
  <1>0. Sane /\ Recovery \in Workers /\ job[Recovery] \in Job /\ Disc(Recovery, job[Recovery]) /\ Informed(job[Recovery])
        /\ entry \in Placing /\ Rf \in Nat /\ Rf >= 2
    BY SaneJob, Names, RfIs DEF SerialInv, Sane, AdminTyped, Single
  <1>1. \A k \in Objects : Cardinality(entry[k]) >= 2
    BY DEF Single
  <1>2. ASSUME NEW k \in Objects, entry[k] \subseteq entry'[k], entry'[k] \in SUBSET Slot
        PROVE  Cardinality(entry'[k]) >= 2
    <2>1. Cardinality(entry[k]) <= Cardinality(entry'[k]) /\ Cardinality(entry[k]) \in Nat /\ Cardinality(entry'[k]) \in Nat
      BY <1>0, <1>2, SlotFacts, EntryIs
    <2> QED
      BY <1>1, <2>1
  <1>3. CASE entry' = entry
    BY <1>1, <1>3
  <1>4. CASE ReplicateWrite(Recovery)
    <2>1. CASE entry' = entry
      BY <1>3, <2>1
    <2>2. CASE entry' = [entry EXCEPT ![job[Recovery].key] = @ \cup {job[Recovery].to}]
      <3>1. job[Recovery].to \in Slot
        BY <1>0 DEF Job
      <3>2. \A k \in Objects : entry[k] \subseteq entry'[k] /\ entry'[k] \in SUBSET Slot
        BY <1>0, <2>2, <3>1 DEF Placing
      <3> QED
        BY <1>2, <3>2
    <2> QED
      BY <1>4, <2>1, <2>2 DEF ReplicateWrite
  <1>5. CASE RemoveForget(Recovery)
    <2>1. job[Recovery].pc = "forget" /\ entry' = [entry EXCEPT ![job[Recovery].key] = @ \ {job[Recovery].from}]
      BY <1>5 DEF RemoveForget, AtPc, Forget
    <2>2. Cardinality(entry[job[Recovery].key] \ {job[Recovery].from}) >= Rf /\ job[Recovery].key \in Objects
      BY <1>0, <2>1 DEF Informed, Disc, Doing
    <2>3. entry[job[Recovery].key] \ {job[Recovery].from} \in SUBSET Slot
      BY <1>0, <2>2 DEF Placing
    <2>4. Cardinality(entry[job[Recovery].key] \ {job[Recovery].from}) \in Nat
      BY <2>3, SlotFacts
    <2>5. Cardinality(entry[job[Recovery].key] \ {job[Recovery].from}) >= 2
      BY <1>0, <2>2, <2>4
    <2> QED
      BY <1>0, <1>1, <2>1, <2>5 DEF Placing
  <1>6. CASE RebuildSwap(Recovery)
    BY <1>0, <1>6 DEF RebuildSwap, AtPc, Disc, Where, RecoveryPcs, SweepPcs
  <1>7. CASE AttachShard(Recovery)
    <2>1. \A k \in Objects : /\ entry[k] \subseteq entry'[k]
                             /\ entry'[k] \subseteq entry[k] \cup {job[Recovery].shard}
      BY <1>0, <1>7, AttachDoes
    <2>2. job[Recovery].shard \in Slot
      BY <1>0, <1>7, AttachDoes
    <2> QED
      BY <1>0, <1>2, <2>1, <2>2 DEF Placing
  <1>8. CASE ~ ReplicateWrite(Recovery) /\ ~ RemoveForget(Recovery) /\ ~ RebuildSwap(Recovery) /\ ~ AttachShard(Recovery)
    <2>1. entry' = entry
      BY <1>8 DEF SweepStep, ReplicateRead, RemoveDelete, CopyNext, TrimNext, StageEnds, RebuildScan,
         BeginOnCatalog, SyncObjects, Shared
    <2> QED
      BY <1>3, <2>1
  <1> QED
    BY <1>4, <1>5, <1>6, <1>7, <1>8

\* The recovery loop deals with the one shard that failed.
LEMMA SingleRecovery ==
    ASSUME SerialInv, Single, RecoveryStep
    PROVE  Single'
  <1>0. /\ job \in [Workers -> Job] /\ job[Recovery] \in Job /\ Recovery \in Workers /\ Sane
        /\ Disc(Recovery, job[Recovery]) /\ state \in [Slot -> States] /\ device \in [Slot -> Devices]
    BY SaneJob, Names DEF SerialInv, Sane, AdminTyped
  <1>1. \A k \in Objects : Cardinality(entry[k]) >= 2
    BY DEF Single
  <1> DEFINE s == job[Recovery].shard
  <1>2. CASE PollBegins
    <2>1. job'[Recovery].pc = "poll"
      BY <1>0, <1>2, NoJobIs DEF PollBegins, Continue, Job
    <2> QED
      BY <1>1, <1>2, <2>1, SingleFrame DEF PollBegins, AtPc, Shared, Returning
  <1>3. ASSUME s \in Slot, job[Recovery].pc \in {"poll", "probe"}, job'[Recovery].pc = "poll", ~ Answering(s),
               state' = [state EXCEPT ![s] = "Offline"], UNCHANGED <<entry, device, scene>>
        PROVE  Single'
    <2>1. Hurt(s)
      BY <1>3 DEF Hurt, Answering
    <2>2. scene.failures # 1 /\ scene.failures = 0
      BY <1>3, <2>1 DEF Single
    <2>3. \A t \in Slot : state[t] # "Syncing" /\ state'[t] \in {"Healthy", "Offline"}
      BY <1>0, <1>3 DEF Single
    <2>4. \A t \in Slot : Hurt(t)' => Hurt(t)
      BY <1>0, <1>3, <2>1 DEF Hurt
    <2>5. Rf' = Rf /\ \A a \in Admins : OpName(a)' = OpName(a)
      BY <1>3 DEF Rf, OpName
    <2> QED
      BY <1>3, <2>2, <2>3, <2>4, <2>5 DEF Single
  <1>4. CASE Poll
    <2>0. s \in Slot /\ job[Recovery].pc = "poll" /\ UNCHANGED <<entry, device, scene>>
      BY <1>0, <1>4, PollDoes DEF Poll
    <2>1. CASE s \in Usable /\ device[s] = "gone"
      <3>1. Continue(Recovery, [job[Recovery] EXCEPT !.shard = s + 1])
            /\ state' = [state EXCEPT ![s] = "Offline"]
        BY <1>4, <2>1 DEF Poll, Out, ProbeOffline, Usable
      <3>2. job'[Recovery].pc = "poll"
        BY <1>0, <2>0, <3>1 DEF Continue, Job
      <3> QED
        BY <1>3, <2>0, <2>1, <3>1, <3>2 DEF Answering
    <2>2. CASE ProbeOffline(s)
      <3>1. PICK r : r = [job[Recovery] EXCEPT !.pc = "reprobe"]
        OBVIOUS
      <3>2. r.pc = "reprobe" /\ r.shard = s
        BY <1>0, <3>1 DEF Job
      <3>3. job' = [job EXCEPT ![Recovery] = r] /\ state' = state
        BY <1>4, <2>2, <3>1 DEF Poll, ProbeOffline, Usable, Continue
      <3>4. job'[Recovery] = r /\ state[s] = "Offline"
        BY <1>0, <2>2, <3>3 DEF ProbeOffline
      <3>5. \A t \in Slot : state[t] # "Syncing"
        BY <2>0 DEF Single
      <3>6. \A t \in Slot : Hurt(t)' <=> Hurt(t)
        BY <2>0, <3>3 DEF Hurt
      <3>7. Rf' = Rf /\ \A a \in Admins : OpName(a)' = OpName(a)
        BY <2>0 DEF Rf, OpName
      <3> QED
        BY <2>0, <3>2, <3>3, <3>4, <3>5, <3>6, <3>7 DEF Single
    <2>3. CASE ~ ProbeOffline(s) /\ ~ (s \in Usable /\ device[s] = "gone")
      <3>1. state' = state /\ job'[Recovery].pc \in {"poll", "probe"}
        BY <1>0, <1>4, <2>0, <2>3 DEF Poll, Continue, Job
      <3> QED
        BY <1>1, <2>0, <3>1, SingleFrame DEF Returning
    <2> QED
      BY <2>1, <2>2, <2>3
  <1>5. CASE ProbeEnds
    <2>0. s \in Slot /\ job[Recovery].pc = "probe" /\ UNCHANGED <<entry, device, scene>>
      BY <1>0, <1>5 DEF ProbeEnds, AtPc, Disc, Doing
    <2>1. job'[Recovery].pc = "poll"
      BY <1>0, <1>5 DEF ProbeEnds, Continue, Job
    <2>2. CASE state' = state
      BY <1>1, <2>0, <2>1, <2>2, SingleFrame DEF Returning
    <2>3. CASE state' # state
      <3>1. ~ Answering(s) /\ state' = [state EXCEPT ![s] = "Offline"]
        BY <1>5, <2>3 DEF ProbeEnds, Out
      <3> QED
        BY <1>3, <2>0, <2>1, <3>1
    <2> QED
      BY <2>2, <2>3
  <1>6. CASE ReprobeEnds
    <2>0. s \in Slot /\ job[Recovery].pc = "reprobe" /\ UNCHANGED <<entry, device, scene>> /\ state[s] = "Offline"
      BY <1>0, <1>6 DEF ReprobeEnds, AtPc, Disc, Doing, Single
    <2>1. CASE ~ Answering(s)
      <3>1. state' = state /\ job'[Recovery].pc = "poll"
        BY <1>0, <1>6, <2>1 DEF ReprobeEnds, Continue, Job
      <3> QED
        BY <1>1, <2>0, <3>1, SingleFrame DEF Returning
    <2>2. CASE Answering(s)
      <3>1. PICK r : r = [job[Recovery] EXCEPT !.pc = "sync", !.shard = s]
        OBVIOUS
      <3>2. r.pc = "sync" /\ r.shard = s
        BY <1>0, <3>1 DEF Job
      <3>3. job' = [job EXCEPT ![Recovery] = r] /\ state' = [state EXCEPT ![s] = "Syncing"]
        BY <1>6, <2>2, <3>1 DEF ReprobeEnds, BeginSync, Continue
      <3>4. job'[Recovery] = r /\ state'[s] = "Syncing" /\ device[s] = "ok"
        BY <1>0, <2>0, <2>2, <3>3 DEF Answering
      <3>5. \A t \in Slot : t # s => state'[t] = state[t] /\ state[t] # "Syncing"
        BY <1>0, <2>0, <3>3 DEF Single
      <3>6. (\A t \in Slot : Hurt(t)' <=> Hurt(t)) /\ Hurt(s)
        BY <1>0, <2>0, <3>4, <3>5 DEF Hurt
      <3>7. Rf' = Rf /\ \A a \in Admins : OpName(a)' = OpName(a)
        BY <2>0 DEF Rf, OpName
      <3> QED
        BY <2>0, <3>2, <3>4, <3>5, <3>6, <3>7 DEF Single
    <2> QED
      BY <2>1, <2>2
  <1>7. CASE CheckAdminOp
    <2>1. job'[Recovery].pc = "locked"
      BY <1>0, <1>7 DEF CheckAdminOp, Continue, Job
    <2> QED
      BY <1>1, <1>7, <2>1, SingleFrame DEF CheckAdminOp, AtPc, Shared, Returning
  <1>8. CASE SweepsBegin
    <2>1. job'[Recovery].pc \in {"idle", "copy"}
      <3>1. CASE Continue(Recovery, NoJob)
        BY <1>0, <3>1, NoJobIs DEF Continue
      <3>2. CASE StartStage(Recovery, "sweep")
        <4>1. PICK B \in SUBSET Objects : job' = [job EXCEPT ![Recovery] = Started(Recovery, "sweep", B)]
          BY <3>2, StageDoes
        <4> QED
          BY <1>0, <4>1 DEF Started, Job
      <3> QED
        BY <1>8, <3>1, <3>2 DEF SweepsBegin
    <2> QED
      BY <1>1, <1>8, <2>1, SingleFrame DEF SweepsBegin, AtPc, Shared, Returning
  <1>9. CASE SweepStep(Recovery)
    <2>0. \A k \in Objects : Cardinality(entry'[k]) >= 2
      BY <1>9, SweepLeavesTwo
    <2>1. CASE job[Recovery].pc \notin Returning
      <3>1. job'[Recovery].pc \notin Returning /\ UNCHANGED <<state, device, scene>>
        BY <1>0, <1>9, <2>1, SweepKeepsOut
      <3> QED
        BY <2>0, <2>1, <3>1, SingleFrame DEF Returning
    <2>2. CASE SyncObjects(Recovery)
      <3>1. PICK r : r = [job[Recovery] EXCEPT !.pc = "attach"]
        OBVIOUS
      <3>2. r.pc = "attach" /\ r.shard = s
        BY <1>0, <3>1 DEF Job
      <3>3. job'[Recovery] = r /\ job[Recovery].pc = "sync" /\ UNCHANGED <<state, device, scene>>
        BY <1>0, <2>2, <3>1 DEF SyncObjects, Pc, Continue, AtPc
      <3>6. \A t \in Slot : Hurt(t)' <=> Hurt(t)
        BY <3>3 DEF Hurt
      <3>7. Rf' = Rf /\ \A a \in Admins : OpName(a)' = OpName(a)
        BY <3>3 DEF Rf, OpName
      <3> QED
        BY <2>0, <3>2, <3>3, <3>6, <3>7 DEF Single
    <2>3. CASE AttachShard(Recovery)
      <3>1. /\ job[Recovery].pc = "attach" /\ s \in Slot /\ UNCHANGED <<device, scene>>
            /\ state' = [state EXCEPT ![s] = "Healthy"]
            /\ \E r : job' = [job EXCEPT ![Recovery] = r] /\ r.pc = "poll"
        BY <1>0, <2>3, AttachDoes
      <3>2. job'[Recovery].pc = "poll"
        BY <1>0, <3>1
      <3>3. \A t \in Slot : state'[t] \in {"Healthy", "Offline"}
        BY <1>0, <3>1 DEF Single
      <3>6. \A t \in Slot : Hurt(t)' => Hurt(t)
        BY <1>0, <3>1 DEF Hurt
      <3>7. Rf' = Rf /\ \A a \in Admins : OpName(a)' = OpName(a)
        BY <3>1 DEF Rf, OpName
      <3> QED
        BY <2>0, <3>1, <3>2, <3>3, <3>6, <3>7 DEF Single
    <2>4. job[Recovery].pc \in Returning => SyncObjects(Recovery) \/ AttachShard(Recovery)
      BY <1>9 DEF SweepStep, ReplicateRead, ReplicateWrite, RemoveDelete, RemoveForget,
         CopyNext, TrimNext, StageEnds, RebuildScan, RebuildSwap, BeginOnCatalog, AtPc, Returning
    <2> QED
      BY <2>1, <2>2, <2>3, <2>4
  <1> QED
    BY <1>2, <1>4, <1>5, <1>6, <1>7, <1>8, <1>9 DEF RecoveryStep

\* A device fails: it is the only one.
LEMMA SingleDevice ==
    ASSUME SerialInv, Single, DeviceStep
    PROVE  Single'
  <1>0. Sane /\ device \in [Slot -> Devices] /\ scene \in Scene
    BY DEF SerialInv, Sane, AdminTyped
  <1>1. PICK s \in Slot : DeviceFails(s) \/ DeviceReturns(s)
    BY DEF DeviceStep
  <1>2. Rf' = Rf /\ \A a \in Admins : OpName(a)' = OpName(a)
    BY <1>0, SceneKept DEF AdminNext, Rf
  <1>3. CASE DeviceFails(s)
    <2>1. scene.failures = 1 /\ scene'.failures = 0
      BY <1>0, <1>3 DEF DeviceFails, Single, Scene
    <2>2. \A t \in Slot : ~ Hurt(t)
      BY <2>1 DEF Single
    <2>3. \A t \in Slot : state'[t] = "Healthy" /\ (Hurt(t)' => t = s)
      BY <1>0, <1>3, <2>2 DEF DeviceFails, Hurt
    <2>4. job[Recovery].pc \in {"sync", "attach", "reprobe"} => job[Recovery].shard \in Slot
      BY <1>0, SaneJob, Names DEF Disc, Doing
    <2>5. job[Recovery].pc \notin {"sync", "attach", "reprobe"} /\ UNCHANGED <<job, entry, state>>
      BY <1>3, <2>2, <2>4 DEF Single, Hurt, DeviceFails
    <2> QED
      BY <1>2, <2>1, <2>3, <2>5 DEF Single
  <1>4. CASE DeviceReturns(s)
    <2>1. UNCHANGED <<job, entry, state, scene>> /\ \A t \in Slot : (Hurt(t)' => Hurt(t)) /\ (device[t] = "ok" => device'[t] = "ok")
      BY <1>0, <1>4 DEF DeviceReturns, Hurt
    <2>2. job[Recovery].pc \in {"sync", "attach"} => job[Recovery].shard \in Slot
      BY <1>0, SaneJob, Names DEF Disc, Doing
    <2> QED
      BY <1>2, <2>1, <2>2 DEF Single
  <1> QED
    BY <1>1, <1>3, <1>4

\* Every step keeps what the recovery loop meets.
LEMMA NextWatched ==
    ASSUME SerialInv, [AdminNext]_adminVars
    PROVE  Watched'
  <1>0. Sane /\ scene'.loops = scene.loops
    BY SceneKept DEF SerialInv
  <1> SUFFICES ASSUME Recovery \in scene.loops
               PROVE  Calm' \/ Single'
    BY <1>0 DEF Watched
  <1>1. \A a \in Admins : OpName(a) # "attach" /\ OpName(a) \notin Exclusive
    BY DEF SerialInv, OneMover, OpName
  <1>2. "attach" \notin OpsAsked
    BY <1>1 DEF OpsAsked
  <1>3. CASE Calm
    BY <1>0, <1>2, <1>3, NextCalm
  <1>4. CASE Single
    <2>1. CASE RecoveryStep
      BY <1>4, <2>1, SingleRecovery
    <2>2. CASE DeviceStep
      BY <1>4, <2>2, SingleDevice
    <2>3. CASE RepairStep
      <3>1. "repair" \in scene.loops
        BY <2>3, RepairActs, LoopBusy, Names
      <3> QED
        BY <3>1, Names DEF SerialInv, OneMover
    <2>4. ASSUME NEW a \in Admins, OperationStep(a) \/ RequestStep(a)
          PROVE  FALSE
      <3>1. OpName(a) # "take-offline"
        BY <1>4 DEF Single
      <3>2. ~ RequestStep(a)
        BY <1>1, <3>1 DEF RequestStep, Acquire, TakeOffline, AttachRequest
      <3>3. Busy(a)
        BY <2>4, <3>2, AtRest DEF Busy
      <3> QED
        BY <1>1, <3>3, NoAttach
    <2>5. CASE UNCHANGED adminVars
      <3>1. \A s \in Slot : Hurt(s)' <=> Hurt(s)
        BY <2>5 DEF Hurt, adminVars
      <3> QED
        BY <1>4, <2>5, <3>1 DEF Single, adminVars, Rf, OpName
    <2> QED
      BY <2>1, <2>2, <2>3, <2>4, <2>5 DEF AdminNext
  <1> QED
    BY <1>3, <1>4 DEF SerialInv, Watched

\* Every step keeps the invariant.
LEMMA NextSerial ==
    ASSUME SerialInv, [AdminNext]_adminVars
    PROVE  SerialInv'
  <1>1. Sane /\ Sane'
    BY NextSane DEF SerialInv
  <1>2. OneMover'
    BY <1>1, SceneKept DEF SerialInv
  <1>3. Fresh' /\ Victims'
    BY DrainKeeps DEF Fresh, Victims
  <1>4. Refused' /\ Watched'
    BY NextRefused, NextWatched
  <1>5. Books'
    <2>1. CASE UNCHANGED adminVars
      <3>1. UNCHANGED <<copies, entry, job, scene>>
        BY <2>1 DEF adminVars
      <3>2. Backed' /\ Kept'
        BY <3>1 DEF SerialInv, Backed, Kept, Enough, Rf, OpsAsked, OpName
      <3>3. \A w \in Workers : Informed(job[w])'
        BY <3>1 DEF SerialInv, Informed, Rf
      <3> QED
        BY <3>2, <3>3 DEF Books
    <2>2. CASE RecoveryStep \/ RepairStep \/ DeviceStep
      BY <1>1, <2>2, RecoveryBooks, RepairBooks, DeviceBooks
    <2>3. ASSUME NEW a \in Admins, OperationStep(a) \/ RequestStep(a)
          PROVE  Books'
      BY <1>1, <2>3, OperationBooks, RequestBooks
    <2> QED
      BY <2>1, <2>2, <2>3 DEF AdminNext
  <1> QED
    BY <1>1, <1>2, <1>3, <1>4, <1>5 DEF SerialInv, Books

\* It holds initially.
LEMMA InitSerial ==
    ASSUME AdminInit, OneMover, FaultsCovered
    PROVE  SerialInv
  <1>1. Sane /\ scene \in Scene
    BY InitSane DEF Sane, AdminTyped
  <1>2. \A w \in Workers : job[w] = NoJob /\ job[w].pc = "idle"
    BY NoJobIs DEF AdminInit
  <1>3. \A w \in Workers : Informed(job[w])
    BY <1>2 DEF Informed
  <1>4. Fresh /\ Refused /\ Victims /\ Backed
    BY <1>2, Names DEF Fresh, Refused, Victims, Backed, AdminInit, Resting
  <1>5. Kept
    <2> SUFFICES ASSUME NEW k \in Objects
                 PROVE  copies[k] # {} /\ Enough(k)
      BY DEF Kept
    <2>1. copies[k] = scene.placed[k] /\ copies[k] # {} /\ copies[k] \in SUBSET Slot
      BY <1>1 DEF AdminInit, Scene
    <2>2. Min({Rf, Cardinality(copies[k])}) <= Cardinality(copies[k])
      BY <1>1, <2>1, RfIs, SlotFacts, MinTwo
    <2>3. Min({Rf, Cardinality(copies[k])}) \in Nat /\ Cardinality(copies[k]) \in Nat
      BY <1>1, <2>1, RfIs, SlotFacts, MinTwo
    <2> QED
      BY <2>1, <2>2, <2>3 DEF Enough
  <1>6. Watched
    <2>1. CASE scene.failures = 0
      BY <1>2, <2>1, Names DEF Watched, Calm, AdminInit, Returning
    <2>2. CASE scene.failures # 0 /\ Recovery \in scene.loops
      <3>1. \A s \in Slot : ~ Hurt(s)
        BY DEF AdminInit, Hurt
      <3>2. /\ scene.failures = 1 /\ Rf >= 2
            /\ \A k \in Objects : Cardinality(entry[k]) >= 2
            /\ \A a \in Admins : OpName(a) # "take-offline"
        BY <2>2 DEF FaultsCovered, AdminInit, Rf, OpName
      <3>3. \A s \in Slot : state[s] = "Healthy"
        BY DEF AdminInit
      <3> QED
        BY <1>2, <3>1, <3>2, <3>3, Names DEF Watched, Single
    <2> QED
      BY <2>1, <2>2 DEF Watched
  <1> QED
    BY <1>1, <1>3, <1>4, <1>5, <1>6 DEF SerialInv

\* No object is lost while one mover at a time is at work: under any sequence
\* of the operations that admin_op_lock keeps apart (try_acquire_admin_op,
\* viz.rs), with any failure of devices, and under either loop, if at most one
\* device fails of a cluster that the recovery loop watches with two copies of
\* everything.
THEOREM NoMoverLoses ==
    AdminInit /\ [][AdminNext]_adminVars => []NoObjectLost
  <1> DEFINE I == Sane /\ (OneMover /\ FaultsCovered => SerialInv)
  <1>1. AdminInit => I
    BY InitSane, InitSerial
  <1>2. I /\ [AdminNext]_adminVars => I'
    BY NextSane, SceneKept, NextSerial
  <1>3. I => NoObjectLost
    BY DEF SerialInv, Kept, NoObjectLost
  <1> QED
    BY <1>1, <1>2, <1>3, PTL

\* A worker alone: no other is named.
LEMMA AloneIsOne ==
    ASSUME Sane, Alone, NEW x, NEW y,
           x \in scene.loops \/ (x \in Admins /\ OpName(x) # "nothing"),
           y \in scene.loops \/ (y \in Admins /\ OpName(y) # "nothing")
    PROVE  x = y
  <1> DEFINE A == {a \in Admins : OpName(a) # "nothing"}
             S == scene.loops \cup A
  <1>0. scene.loops \subseteq Loops
    BY DEF Sane, AdminTyped, Scene
  <1>1. IsFiniteSet(S) /\ Cardinality(S) <= 1 /\ Cardinality(S) \in Nat
    <2>1. IsFiniteSet(Loops)
      <3>1. Loops = {"recovery"} \cup {"repair"}
        BY DEF Loops
      <3>2. IsFiniteSet({"recovery"}) /\ IsFiniteSet({"repair"})
        BY FS_Singleton
      <3> QED
        BY <3>1, <3>2, FS_Union
    <2>2. IsFiniteSet(scene.loops) /\ IsFiniteSet(A)
      BY <1>0, <2>1, AdminAssumption, FS_Subset
    <2>3. IsFiniteSet(S)
      BY <2>2, FS_Union
    <2> QED
      BY <2>3, FS_CardinalityType DEF Alone
  <1>2. x \in S /\ y \in S
    OBVIOUS
  <1> HIDE DEF S
  <1> SUFFICES ASSUME x # y
               PROVE  FALSE
    OBVIOUS
  <1>3. IsFiniteSet({x, y}) /\ Cardinality({x, y}) <= Cardinality(S)
    BY <1>1, <1>2, FS_Subset
  <1>4. Cardinality({x, y}) = 2
    <2>1. IsFiniteSet({x}) /\ Cardinality({x}) = 1
      BY FS_Singleton
    <2>2. {x, y} = {x} \cup {y} /\ y \notin {x}
      OBVIOUS
    <2>3. Cardinality({x} \cup {y}) =
              IF y \in {x} THEN Cardinality({x}) ELSE Cardinality({x}) + 1
      BY <2>1, FS_AddElement, ZenonT(60)
    <2>4. Cardinality({x, y}) = Cardinality({x}) + 1
      BY <2>2, <2>3, ZenonT(60)
    <2> QED
      BY <2>1, <2>4
  <1> QED
    BY <1>1, <1>3, <1>4

\* A worker alone is one mover at a time.
LEMMA AloneIsSerial ==
    ASSUME Sane, Alone
    PROVE  /\ OneMover
           /\ "drain" \in OpsAsked => OpsAsked = {"drain"}
  <1>0. scene.loops \subseteq Loops
    BY DEF Sane, AdminTyped, Scene
  <1>1. \A a \in Admins : OpName(a) \in Exclusive \cup {"attach"} => OpName(a) # "nothing"
    BY DEF Exclusive
  <1>2. \A w \in scene.loops : w \notin Admins
    BY <1>0, Names
  <1>3. \A v, w \in scene.loops : v = w
    BY AloneIsOne
  <1>4. scene.loops # {} => \A a \in Admins : OpName(a) = "nothing"
    BY <1>2, AloneIsOne
  <1>5. \A a, b \in Admins : OpName(a) # "nothing" /\ OpName(b) # "nothing" => a = b
    BY AloneIsOne
  <1>6. OneMover
    BY <1>1, <1>3, <1>4, <1>5 DEF OneMover, OpName
  <1> QED
    BY <1>5, <1>6 DEF OpsAsked

\* What a worker that runs alone keeps, whatever the number of shards, objects
\* and requests, and the failures of devices that it can stand: its factor, or
\* what there was of it.
THEOREM FactorIsKept ==
    AdminInit /\ [][AdminNext]_adminVars => []FactorKept
  <1> DEFINE I == Sane /\ (Alone /\ FaultsCovered => SerialInv)
  <1>1. AdminInit => I
    BY InitSane, InitSerial, AloneIsSerial
  <1>2. I /\ [AdminNext]_adminVars => I'
    <2>1. Sane /\ [AdminNext]_adminVars => Sane' /\ Alone' = Alone /\ FaultsCovered' = FaultsCovered
      BY NextSane, SceneKept
    <2> QED
      BY <2>1, NextSerial
  <1>3. I => FactorKept
    <2> SUFFICES ASSUME Sane, SerialInv, Alone, FaultsCovered, OpsAsked # {"drain"}, NEW k \in Objects
                 PROVE  Enough(k)
      BY DEF FactorKept, Enough
    <2> QED
      BY AloneIsSerial DEF SerialInv, Kept
  <1> QED
    BY <1>1, <1>2, <1>3, PTL

----------------------------------------------------------------------------
(* What an operation delivers that runs alone, on devices that answer.     *)

\* The one request.
Mine(a) == Alone /\ OpName(a) \in Exclusive

\* The shards it finds: all in service, but for the one it drains.
Standing(a) ==
    \A s \in Slot : state[s] = IF OpName(a) = "drain" /\ s = OpShard(a) /\ job[a].pc \notin {"idle", "hold"}
                               THEN "Detached" ELSE "Healthy"

\* repair_replication_sweep, and the last part of a drain: what is left of the
\* plan is on the list or did not fit into it, and every copy and every trim
\* succeeds.
LeftOut(a, S) == IF OpName(a) = "drain" THEN {{}} ELSE BeyondBatch(S)
LeftCopies(a, todo) == \E X \in LeftOut(a, Short) : PlannedCopies \subseteq todo \cup X
LeftTrims(a, todo) == \E X \in LeftOut(a, Surplus) : PlannedTrims \subseteq todo \cup X
Planned(a, r) ==
    /\ r.pc \in {"copy", "read", "write"} /\ r.stage = "under" =>
          /\ LeftCopies(a, r.todo)
          /\ OpName(a) = "repair-replication" => Over = Surplus
    /\ r.pc \in {"read", "write"} =>
          /\ r.from \in entry[r.key] /\ r.to \in Healthy
          /\ r.stage = "under" => r.key \in r.todo /\ r.key \in Under /\ r.to \notin entry[r.key]
    /\ r.pc \in {"trim", "delete", "forget"} /\ r.stage = "over" =>
          LeftCopies(a, {}) /\ LeftTrims(a, r.todo)
    /\ r.pc \in {"delete", "forget"} => r.from \in entry[r.key]
    /\ r.pc \in {"delete", "forget"} /\ r.stage = "over" =>
          r.key \in r.todo /\ Cardinality((entry[r.key] \ {r.from}) \cap Healthy) >= Rf
    /\ r.pc \in {"release", "done"} /\ OpName(a) \in {"repair-replication", "drain"} =>
          LeftCopies(a, {}) /\ LeftTrims(a, {})

\* redistribute_sweep: its counts are those of the catalog, but for the copy
\* it is about to remove.
Settled ==
    \/ Under # {} \/ Balanced(Counts)
    \/ \E src \in Fullest(Counts), dst \in Emptiest(Counts) : Movable(Counts, src, dst) = {}
Counting(a, r) ==
    /\ r.pc \in {"move", "read", "write"} /\ r.stage = "move" => r.counts = Counts
    /\ r.pc \in {"delete", "forget"} /\ r.stage = "move" =>
          /\ r.to # r.from /\ DOMAIN r.counts = Healthy
          /\ \A s \in Healthy : Counts[s] = IF s = r.to THEN r.counts[s] + 1 ELSE r.counts[s]
    /\ r.pc \in {"release", "done"} /\ OpName(a) = "redistribute" => r.moved >= AdminBatch \/ Settled

\* drain_shard: what the victim has is on the list, or safe.
Emptying == {"idle", "hold", "victim", "drain", "erase"}
Vacating(a, r) ==
    OpName(a) = "drain" => \A k \in Objects :
        /\ entry[k] # {}
        /\ r.pc \in {"hold", "victim"} => r.did
        /\ r.pc = "drain" /\ OpShard(a) \in copies[k] => k \in r.todo \cup r.safe
        /\ r.pc = "erase" /\ OpShard(a) \in copies[k] => k \in r.safe
        /\ r.pc \notin Emptying => OpShard(a) \notin copies[k] \cup entry[k]

\* rebuild_catalog lists every shard.
Exact(a, r) ==
    /\ r.pc \in {"idle", "scan", "swap", "begin"} /\ OpName(a) = "repair-replication" =>
          entry = scene.placed /\ copies = scene.placed
    /\ r.pc = "swap" => r.listing = copies
    /\ r.pc \in {"begin", "release", "done"} /\ OpName(a) = "cross-verify" => entry = copies

\* What the operation knows.
Duty(a, r) == Planned(a, r) /\ Counting(a, r) /\ Vacating(a, r) /\ Exact(a, r)

\* The course of an operation.
Course(a) ==
    /\ Calm
    /\ job[a].pc = "idle" => running = NoOp
    /\ Standing(a)
    /\ Duty(a, job[a])

\* The inductive invariant.
Run(a) == SerialInv /\ Mine(a) /\ Course(a)

\* What an operation that runs alone relies on.
LEMMA RunFacts ==
    ASSUME NEW a \in Admins, Run(a)
    PROVE  /\ Sane /\ a \in Workers /\ job \in [Workers -> Job] /\ job[a] \in Job
           /\ Disc(a, job[a]) /\ Informed(job[a])
           /\ \A s \in Slot : Answering(s)
           /\ scene.loops = {} /\ "attach" \notin OpsAsked /\ OpName(a) \in Exclusive
           /\ job[Recovery].pc = "idle" /\ job["repair"].pc = "idle"
           /\ \A b \in Admins : b # a => OpName(b) = "nothing"
           /\ Usable = Healthy /\ Healthy \subseteq Slot
           /\ job[a].pc \notin {"sync", "attach"}
  <1>1. Sane /\ a \in Workers /\ job \in [Workers -> Job] /\ job[a] \in Job /\ Disc(a, job[a]) /\ Informed(job[a])
    BY SaneJob, Names DEF Run, SerialInv, Sane, AdminTyped
  <1>2. OpName(a) \in Exclusive /\ OpName(a) # "nothing" /\ OpName(a) # "attach" /\ Alone
    BY DEF Run, Mine, Exclusive
  <1>3. \A b \in Admins : b # a => OpName(b) = "nothing"
    BY <1>1, <1>2, AloneIsOne
  <1>4. scene.loops = {}
    <2> SUFFICES ASSUME NEW w \in scene.loops
                 PROVE  FALSE
      OBVIOUS
    <2>1. w = a
      BY <1>1, <1>2, AloneIsOne
    <2> QED
      BY <1>1, <2>1, Names DEF Sane, AdminTyped, Scene
  <1>5. "attach" \notin OpsAsked
    BY <1>2, <1>3 DEF OpsAsked
  <1>6. job[Recovery].pc = "idle" /\ job["repair"].pc = "idle"
    BY <1>1, <1>4, SaneJob, Names DEF Disc, Where
  <1>7. \A s \in Slot : Answering(s)
    BY DEF Run, Course, Calm, Answering
  <1>8. Usable = Healthy /\ Healthy \subseteq Slot
    BY DEF Run, Course, Calm, Usable, Healthy
  <1>9. job[a].pc \notin {"sync", "attach"}
    BY <1>1, <1>2 DEF Disc, Where
  <1> QED
    BY <1>1, <1>2, <1>3, <1>4, <1>5, <1>6, <1>7, <1>8, <1>9

\* No other worker acts.
LEMMA OnlyMine ==
    ASSUME NEW a \in Admins, Run(a), [AdminNext]_adminVars
    PROVE  OperationStep(a) \/ Acquire(a) \/ UNCHANGED adminVars
  <1>1. ~ RecoveryStep /\ ~ RepairStep
    BY RunFacts, RecoveryActs, RepairActs DEF Busy, Resting
  <1>2. ~ DeviceStep
    BY DEF Run, Course, Calm, DeviceStep, DeviceFails, DeviceReturns, Answering
  <1>3. ASSUME NEW b \in Admins, OperationStep(b) \/ RequestStep(b)
        PROVE  OperationStep(a) \/ Acquire(a)
    <2>1. CASE b = a
      <3>1. OpName(a) \in Exclusive
        BY RunFacts
      <3>2. ~ TakeOffline(a) /\ ~ AttachRequest(a)
        BY <3>1 DEF TakeOffline, AttachRequest, Exclusive
      <3> QED
        BY <1>3, <2>1, <3>2 DEF RequestStep
    <2>2. CASE b # a
      <3>1. OpName(b) = "nothing"
        BY <2>2, RunFacts
      <3>2. ~ RequestStep(b)
        BY <3>1 DEF RequestStep, Acquire, TakeOffline, AttachRequest, Exclusive
      <3>3. Busy(b)
        BY <1>3, <3>2, AtRest DEF Busy
      <3>4. OpName(b) \in Exclusive
        BY <3>3, NoAttach DEF Run
      <3> QED
        BY <3>1, <3>4 DEF Exclusive
    <2> QED
      BY <2>1, <2>2
  <1> QED
    BY <1>1, <1>2, <1>3 DEF AdminNext

\* What the duty is about.
LEMMA ViewsKept ==
    ASSUME UNCHANGED <<entry, state, scene>>
    PROVE  /\ Healthy' = Healthy /\ Rf' = Rf /\ Under' = Under /\ PlannedCopies' = PlannedCopies
           /\ PlannedTrims' = PlannedTrims /\ Counts' = Counts /\ Settled' = Settled
           /\ Over' = Over /\ Short' = Short /\ Surplus' = Surplus
  <1>1. Healthy' = Healthy /\ Usable' = Usable /\ Rf' = Rf
    BY DEF Healthy, Usable, Rf
  <1>2. Under' = Under /\ Over' = Over
    BY <1>1 DEF Under, Over
  <1>3. Counts' = Counts
    BY <1>1 DEF Counts
  <1>4. PlannedCopies' = PlannedCopies
    BY <1>1, <1>2 DEF PlannedCopies, CopySources, CopyTargets
  <1>5. PlannedTrims' = PlannedTrims
    BY <1>1, <1>2 DEF PlannedTrims, Excess
  <1>6. Settled' = Settled
    BY <1>1, <1>2, <1>3 DEF Settled, Movable
  <1>7. Short' = Short /\ Surplus' = Surplus
    BY <1>1 DEF Short, Surplus
  <1> QED
    BY <1>1, <1>2, <1>3, <1>4, <1>5, <1>6, <1>7

\* What a plan may leave out, when the catalog stays.
LEMMA LeftViews ==
    ASSUME UNCHANGED <<entry, state, scene>>, NEW a, NEW T
    PROVE  /\ LeftCopies(a, T) => (LeftCopies(a, T))'
           /\ LeftTrims(a, T) => (LeftTrims(a, T))'
  <1>1. OpName(a)' = OpName(a)
    BY DEF OpName
  <1> QED
    BY <1>1, ViewsKept DEF LeftCopies, LeftTrims, LeftOut

\* What a plan may leave out, when the plan shrinks.
LEMMA LeftKept ==
    ASSUME NEW a, scene' = scene, NEW T, NEW U
    PROVE  /\ LeftCopies(a, T) /\ PlannedCopies' \subseteq PlannedCopies \cup U /\ T \subseteq U =>
                 (LeftCopies(a, U))'
           /\ LeftTrims(a, T) /\ PlannedTrims' \subseteq PlannedTrims \cup U /\ T \subseteq U =>
                 (LeftTrims(a, U))'
  <1>1. OpName(a)' = OpName(a) /\ Short' = Short /\ Surplus' = Surplus
    BY DEF OpName, Short, Surplus, Rf
  <1> QED
    BY <1>1 DEF LeftCopies, LeftTrims, LeftOut

\* An object that needs nothing leaves the list.
LEMMA LeftDrop ==
    ASSUME NEW a, NEW T, NEW k
    PROVE  /\ LeftCopies(a, T) /\ k \notin PlannedCopies => LeftCopies(a, T \ {k})
           /\ LeftTrims(a, T) /\ k \notin PlannedTrims => LeftTrims(a, T \ {k})
  BY DEF LeftCopies, LeftTrims

\* The sweep of a drain leaves nothing out.
LEMMA DrainLeft ==
    ASSUME NEW a, OpName(a) = "drain", NEW T
    PROVE  /\ LeftCopies(a, T) <=> PlannedCopies \subseteq T
           /\ LeftTrims(a, T) <=> PlannedTrims \subseteq T
  BY DEF LeftCopies, LeftTrims, LeftOut

\* A batch of as many objects as there are is all of them.
LEMMA WholeBatch ==
    ASSUME NEW S \in SUBSET Objects, NEW B \in Batches(S, Cardinality(Objects))
    PROVE  B = S
  <1>1. IsFiniteSet(S) /\ Cardinality(S) \in Nat /\ Cardinality(Objects) \in Nat /\ Cardinality(S) <= Cardinality(Objects)
    BY AdminAssumption, FS_Subset, FS_CardinalityType
  <1>2. B \in SUBSET S /\ Cardinality(B) = Min({Cardinality(S), Cardinality(Objects)})
    BY DEF Batches
  <1>3. Min({Cardinality(S), Cardinality(Objects)}) \in {Cardinality(S), Cardinality(Objects)}
        /\ Min({Cardinality(S), Cardinality(Objects)}) <= Cardinality(S)
    BY <1>1, MinTwo
  <1>4. Cardinality(B) = Cardinality(S)
    BY <1>1, <1>2, <1>3
  <1> QED
    BY <1>1, <1>2, <1>4, FS_Subset

\* What the first batch has no room for.
LEMMA FirstBatch ==
    ASSUME NEW S, NEW B \in Batches(S, AdminBatch)
    PROVE  S \ B \in BeyondBatch(S) /\ S = B \cup (S \ B)
  BY DEF BeyondBatch, Batches

\* The states stay.
LEMMA StandingKept ==
    ASSUME NEW a \in Admins, Run(a), NEW r, job' = [job EXCEPT ![a] = r], UNCHANGED <<state, scene>>,
           OpName(a) = "drain" => (r.pc \in {"idle", "hold"} <=> job[a].pc \in {"idle", "hold"})
    PROVE  Standing(a)'
  <1>1. job'[a] = r
    BY RunFacts
  <1>2. Standing(a)
    BY DEF Run, Course
  <1> QED
    BY <1>1, <1>2 DEF Standing, OpName, OpShard

\* A step that changes nothing but the job.
LEMMA Quietly ==
    ASSUME NEW a \in Admins, Run(a), Calm', NEW r, job' = [job EXCEPT ![a] = r],
           UNCHANGED <<copies, entry, state, scene>>, r.pc # "idle",
           OpName(a) = "drain" => (r.pc \in {"idle", "hold"} <=> job[a].pc \in {"idle", "hold"}),
           Duty(a, r)
    PROVE  Course(a)'
  <1>1. job'[a] = r
    BY RunFacts
  <1>2. (Duty(a, r))'
    <2>1. OpName(a)' = OpName(a) /\ OpShard(a)' = OpShard(a)
      BY DEF OpName, OpShard
    <2>2. (Planned(a, r))'
      BY <2>1, ViewsKept, LeftViews DEF Duty, Planned
    <2>3. (Counting(a, r))'
      BY <2>1, ViewsKept DEF Duty, Counting
    <2>4. (Vacating(a, r))'
      BY <2>1 DEF Duty, Vacating
    <2>5. (Exact(a, r))'
      BY <2>1 DEF Duty, Exact
    <2> QED
      BY <2>2, <2>3, <2>4, <2>5 DEF Duty
  <1>3. Duty(a, job[a])'
    BY <1>1, <1>2, SMTT(30) DEF Duty, Planned, Counting, Vacating, Exact
  <1> QED
    BY <1>1, <1>3, StandingKept DEF Course

\* A sweep's read keeps the course.
LEMMA ReadCourse ==
    ASSUME NEW a \in Admins, Run(a), Calm', ReplicateRead(a)
    PROVE  Course(a)'
  <1> DEFINE j == job[a]
  <1>0. /\ Sane /\ a \in Workers /\ j \in Job /\ Disc(a, j) /\ j.pc = "read" /\ j.key \in Objects /\ j.from \in Slot
        /\ Answering(j.from) /\ UNCHANGED <<copies, entry, state, scene>> /\ Duty(a, j) /\ SerialInv
    BY RunFacts DEF ReplicateRead, AtPc, Disc, Doing, Job, Shared, Run, Course
  <1>1. j.from \in copies[j.key]
    <2>1. j.from \in entry[j.key]
      BY <1>0 DEF Duty, Planned
    <2> QED
      BY <1>0, <2>1, BackedNow DEF Busy, Resting
  <1>2. PICK r : r = [j EXCEPT !.pc = "write"]
    OBVIOUS
  <1>3. job' = [job EXCEPT ![a] = r]
    BY <1>0, <1>1, <1>2 DEF ReplicateRead, Pc, Continue
  <1>4. /\ r.pc = "write" /\ r.stage = j.stage /\ r.todo = j.todo /\ r.key = j.key /\ r.from = j.from
        /\ r.to = j.to /\ r.counts = j.counts
    BY <1>0, <1>2 DEF Job
  <1>5. Duty(a, r)
    BY <1>0, <1>4 DEF Duty, Planned, Counting, Vacating, Exact, Emptying
  <1> QED
    BY <1>0, <1>3, <1>4, <1>5, Quietly

\* The copy stage keeps the course.
LEMMA CopyCourse ==
    ASSUME NEW a \in Admins, Run(a), Calm', CopyNext(a)
    PROVE  Course(a)'
  <1> DEFINE j == job[a]
  <1>0. /\ Sane /\ a \in Workers /\ j \in Job /\ Disc(a, j) /\ j.pc = "copy" /\ j.stage = "under"
        /\ UNCHANGED <<copies, entry, state, scene>> /\ Duty(a, j) /\ ~ Once(a)
    BY RunFacts, CopyDoes, Names DEF Run, Course, Disc, Doing, Once, Shared
  <1>1. LeftCopies(a, j.todo) /\ (OpName(a) = "repair-replication" => Over = Surplus)
    BY <1>0 DEF Duty, Planned
  <1>2. PICK k \in j.todo :
                /\ k \in Objects
                /\ \/ /\ CopySources(k) = {} \/ CopyTargets(k) = {} \/ (~ Once(a) /\ k \notin Under)
                      /\ job' = [job EXCEPT ![a] = Dropped(a, k)]
                   \/ \E from \in CopySources(k), to \in CopyTargets(k) :
                        /\ from \in Slot /\ to \in Slot /\ (~ Once(a) => k \in Under)
                        /\ job' = [job EXCEPT ![a] = Copying(a, k, from, to)]
    BY <1>0, CopyDoes
  <1>3. CASE /\ CopySources(k) = {} \/ CopyTargets(k) = {} \/ k \notin Under
             /\ job' = [job EXCEPT ![a] = Dropped(a, k)]
    <2>1. PICK r : r = Dropped(a, k)
      OBVIOUS
    <2>2. r.pc = "copy" /\ r.stage = "under" /\ r.todo = j.todo \ {k}
      BY <1>0, <2>1, DroppedIs
    <2>3. LeftCopies(a, r.todo)
      BY <1>1, <1>3, <2>2, LeftDrop DEF PlannedCopies
    <2>4. Duty(a, r)
      BY <1>0, <1>1, <2>2, <2>3 DEF Duty, Planned, Counting, Vacating, Exact, Emptying
    <2> QED
      BY <1>0, <1>3, <2>1, <2>2, <2>4, Quietly
  <1>4. ASSUME NEW from \in CopySources(k), NEW to \in CopyTargets(k), from \in Slot, to \in Slot, k \in Under,
               job' = [job EXCEPT ![a] = Copying(a, k, from, to)]
        PROVE  Course(a)'
    <2>1. PICK r : r = Copying(a, k, from, to)
      OBVIOUS
    <2>2. r.pc = "read" /\ r.stage = "under" /\ r.todo = j.todo /\ r.key = k /\ r.from = from /\ r.to = to
      BY <1>0, <1>2, <1>4, <2>1, CopyingIs, LeftIs
    <2>3. from \in entry[k] /\ to \in Healthy /\ to \notin entry[k]
      BY <1>4 DEF CopySources, CopyTargets
    <2>4. Duty(a, r)
      BY <1>0, <1>1, <1>2, <1>4, <2>2, <2>3 DEF Duty, Planned, Counting, Vacating, Exact, Emptying
    <2> QED
      BY <1>0, <1>4, <2>1, <2>2, <2>4, Quietly
  <1> QED
    BY <1>0, <1>2, <1>3, <1>4

\* The trim stage keeps the course.
LEMMA TrimCourse ==
    ASSUME NEW a \in Admins, Run(a), Calm', TrimNext(a)
    PROVE  Course(a)'
  <1> DEFINE j == job[a]
  <1>0. /\ Sane /\ a \in Workers /\ j \in Job /\ Disc(a, j) /\ j.pc = "trim" /\ j.stage = "over"
        /\ UNCHANGED <<copies, entry, state, scene>> /\ Duty(a, j)
    BY RunFacts, TrimDoes DEF Run, Course, Shared
  <1>1. LeftTrims(a, j.todo) /\ LeftCopies(a, {})
    BY <1>0 DEF Duty, Planned
  <1>2. PICK k \in j.todo :
                /\ k \in Objects
                /\ \/ Excess(k) = {} /\ job' = [job EXCEPT ![a] = Dropped(a, k)]
                   \/ \E s \in Excess(k) :
                        s \in Slot /\ job' = [job EXCEPT ![a] = Trimming(a, k, s)]
    BY <1>0, TrimDoes
  <1>3. CASE Excess(k) = {} /\ job' = [job EXCEPT ![a] = Dropped(a, k)]
    <2>1. PICK r : r = Dropped(a, k)
      OBVIOUS
    <2>2. r.pc = "trim" /\ r.stage = "over" /\ r.todo = j.todo \ {k}
      BY <1>0, <2>1, DroppedIs
    <2>3. LeftTrims(a, r.todo)
      <3>1. k \notin PlannedTrims
        BY <1>3 DEF PlannedTrims
      <3>2. LeftTrims(a, j.todo \ {k})
        BY <1>1, <3>1, LeftDrop
      <3> QED
        BY <2>2, <3>2
    <2>4. Duty(a, r)
      BY <1>0, <1>1, <2>2, <2>3 DEF Duty, Planned, Counting, Vacating, Exact, Emptying
    <2> QED
      BY <1>0, <1>3, <2>1, <2>2, <2>4, Quietly
  <1>4. ASSUME NEW s \in Excess(k), s \in Slot, job' = [job EXCEPT ![a] = Trimming(a, k, s)]
        PROVE  Course(a)'
    <2>1. PICK r : r = Trimming(a, k, s)
      OBVIOUS
    <2>2. r.pc = "delete" /\ r.stage = "over" /\ r.todo = j.todo /\ r.key = k /\ r.from = s
      BY <1>0, <1>2, <1>4, <2>1, TrimmingIs, LeftIs
    <2>3. s \in entry[k] /\ Cardinality((entry[k] \ {s}) \cap Healthy) >= Rf
      BY <1>4 DEF Excess
    <2>4. Duty(a, r)
      BY <1>0, <1>1, <1>2, <2>2, <2>3 DEF Duty, Planned, Counting, Vacating, Exact, Emptying
    <2> QED
      BY <1>0, <1>4, <2>1, <2>2, <2>4, Quietly
  <1> QED
    BY <1>2, <1>3, <1>4

\* The fields of a stage that starts.
LEMMA StartedIs ==
    ASSUME Sane, NEW w \in Workers, NEW stage \in {"under", "over"}, NEW B
    PROVE  /\ Started(w, stage, B).pc = IF stage = "over" THEN "trim" ELSE "copy"
           /\ Started(w, stage, B).stage = stage /\ Started(w, stage, B).todo = B
  BY SaneJob DEF Started, Job

\* The end of a stage keeps the course.
LEMMA StageEndsCourse ==
    ASSUME NEW a \in Admins, Run(a), Calm', StageEnds(a)
    PROVE  Course(a)'
  <1> DEFINE j == job[a]
  <1>0. /\ Sane /\ a \in Workers /\ a \notin Loops /\ j \in Job /\ Disc(a, j) /\ j.pc \in {"copy", "trim"}
        /\ j.todo = {} /\ UNCHANGED <<copies, entry, state, scene>> /\ Duty(a, j)
    BY RunFacts, StageEndsDoes, Names DEF Run, Course, Shared
  <1>1. CASE j.stage = "under" /\ StartStage(a, "over")
    <2>0. j.pc = "copy"
      BY <1>0, <1>1 DEF Disc, Doing
    <2>1. PICK B \in Batches(Over, Limit(a)) : job' = [job EXCEPT ![a] = Started(a, "over", B)]
      BY <1>1, StageDoes
    <2>2. PICK r : r = Started(a, "over", B)
      OBVIOUS
    <2>3. r.pc = "trim" /\ r.stage = "over" /\ r.todo = B
      BY <1>0, <2>2, StartedIs
    <2>4. LeftCopies(a, {}) /\ LeftTrims(a, B)
      <3>1. LeftCopies(a, {}) /\ (OpName(a) = "repair-replication" => Over = Surplus)
        BY <1>0, <1>1, <2>0 DEF Duty, Planned
      <3>2. PlannedTrims \subseteq Over /\ Over \in SUBSET Objects
        BY DEF PlannedTrims, Over
      <3>3. CASE OpName(a) = "drain"
        <4>1. Limit(a) = Cardinality(Objects)
          BY <1>0, <3>3 DEF Limit
        <4>2. B = Over
          BY <3>2, <4>1, WholeBatch
        <4> QED
          BY <3>1, <3>2, <3>3, <4>2, DrainLeft
      <3>4. CASE OpName(a) = "repair-replication"
        <4>1. Limit(a) = AdminBatch
          BY <1>0, <3>4 DEF Limit
        <4>2. Surplus \ B \in BeyondBatch(Surplus) /\ Surplus = B \cup (Surplus \ B)
          BY <3>1, <3>4, <4>1, FirstBatch
        <4>3. Surplus \ B \in LeftOut(a, Surplus)
          BY <3>4, <4>2 DEF LeftOut
        <4> QED
          BY <3>1, <3>2, <3>4, <4>2, <4>3 DEF LeftTrims
      <3> QED
        BY <1>0, <1>1, <2>0, <3>3, <3>4, Names DEF Disc, Doing
    <2>5. Duty(a, r)
      BY <1>0, <2>0, <2>3, <2>4 DEF Duty, Planned, Counting, Vacating, Exact, Emptying
    <2> QED
      BY <1>0, <2>0, <2>1, <2>2, <2>3, <2>5, Quietly
  <1>2. CASE j.stage = "over" /\ Pc(a, "release")
    <2>0. j.pc = "trim" /\ OpName(a) \in {"repair-replication", "drain"}
      BY <1>0, <1>2 DEF Disc, Doing
    <2>1. PICK r : r = [j EXCEPT !.pc = "release"]
      OBVIOUS
    <2>2. job' = [job EXCEPT ![a] = r] /\ r.pc = "release" /\ r.stage = "over"
      BY <1>0, <1>2, <2>1 DEF Pc, Continue, Job
    <2>3. LeftCopies(a, {}) /\ LeftTrims(a, {})
      BY <1>0, <1>2, <2>0 DEF Duty, Planned
    <2>4. Duty(a, r)
      BY <1>0, <2>0, <2>2, <2>3 DEF Duty, Planned, Counting, Vacating, Exact, Emptying
    <2> QED
      BY <1>0, <2>0, <2>2, <2>4, Quietly
  <1>3. (a \in Admins) = TRUE
    OBVIOUS
  <1>4. j.stage # "sweep"
    BY <1>0, Names DEF Disc, Doing
  <1> QED
    BY <1>0, <1>1, <1>2, <1>3, <1>4, StageEndsDoes, Names DEF Stage

\* The listing of the shards keeps the course.
LEMMA ScanCourse ==
    ASSUME NEW a \in Admins, Run(a), Calm', RebuildScan(a)
    PROVE  Course(a)'
  <1> DEFINE j == job[a]
  <1>0. /\ Sane /\ a \in Workers /\ j \in Job /\ Disc(a, j) /\ j.pc = "scan" /\ OpName(a) # "drain"
        /\ UNCHANGED <<copies, entry, state, scene>> /\ (\A s \in Slot : Answering(s)) /\ Duty(a, j)
    BY RunFacts DEF RebuildScan, AtPc, Shared, Disc, Where, Run, Course
  <1>1. PICK skipped \in SUBSET {s \in Slot : ~ Answering(s) \/ state[s] = "Syncing"} :
          LET scanned == {s \in Slot : state[s] \in {"Healthy", "Degraded", "Syncing"}} \ skipped IN
          Continue(a, [j EXCEPT !.pc = "swap", !.listing = [k \in Objects |-> copies[k] \cap scanned]])
    BY DEF RebuildScan
  <1>2. skipped = {}
    BY <1>0 DEF Run, Course, Calm
  <1>3. {s \in Slot : state[s] \in {"Healthy", "Degraded", "Syncing"}} = Slot
    BY <1>0 DEF Run, Course, Standing
  <1>4. [k \in Objects |-> copies[k] \cap Slot] = copies
    BY <1>0 DEF Sane, AdminTyped, Placing
  <1>5. Continue(a, [j EXCEPT !.pc = "swap", !.listing = copies])
    <2>1. {s \in Slot : state[s] \in {"Healthy", "Degraded", "Syncing"}} \ skipped = Slot
      BY <1>2, <1>3
    <2> QED
      BY <1>1, <1>4, <2>1
  <1>6. PICK r : r = [j EXCEPT !.pc = "swap", !.listing = copies]
    OBVIOUS
  <1>7. job' = [job EXCEPT ![a] = r] /\ r.pc = "swap" /\ r.listing = copies
    BY <1>0, <1>5, <1>6 DEF Continue, Job
  <1>8. Duty(a, r)
    BY <1>0, <1>7 DEF Duty, Planned, Counting, Vacating, Exact
  <1> QED
    BY <1>0, <1>7, <1>8, Quietly

\* The beginning on the catalog keeps the course.
LEMMA BeginCourse ==
    ASSUME NEW a \in Admins, Run(a), Calm', BeginOnCatalog(a)
    PROVE  Course(a)'
  <1> DEFINE j == job[a]
  <1>0. /\ Sane /\ a \in Workers /\ a # "repair" /\ j \in Job /\ Disc(a, j) /\ j.pc = "begin" /\ OpName(a) # "drain"
        /\ UNCHANGED <<copies, entry, state, scene>> /\ Duty(a, j)
    BY RunFacts, BeginDoes, Names DEF Run, Course, Shared, Disc, Where
  <1>1. CASE OpName(a) = "repair-replication" /\ StartStage(a, "under")
    <2>1. PICK B \in Batches(Under, Limit(a)) : job' = [job EXCEPT ![a] = Started(a, "under", B)]
      BY <1>1, StageDoes
    <2>2. PICK r : r = Started(a, "under", B)
      OBVIOUS
    <2>3. r.pc = "copy" /\ r.stage = "under" /\ r.todo = B
      BY <1>0, <2>2, StartedIs
    <2>4. Under = Short /\ Over = Surplus
      <3>1. \A s \in Slot : state[s] = "Healthy"
        BY <1>0 DEF Run, Course, Standing
      <3>2. entry = scene.placed
        BY <1>0, <1>1 DEF Duty, Exact
      <3>3. \A k \in Objects : entry[k] # {} /\ entry[k] \subseteq Slot
        BY <1>0, <3>2, EntryIs DEF Sane, AdminTyped, Scene
      <3>4. \A k \in Objects : /\ {s \in entry[k] : state[s] \in {"Healthy", "Syncing"}} = entry[k]
                               /\ entry[k] \cap Usable = entry[k]
        BY <3>1, <3>3 DEF Usable
      <3> QED
        BY <3>2, <3>3, <3>4 DEF Under, Over, Short, Surplus
    <2>5. LeftCopies(a, B)
      <3>1. Limit(a) = AdminBatch /\ PlannedCopies \subseteq Under
        BY <1>1, Names DEF Limit, PlannedCopies
      <3>2. Short \ B \in BeyondBatch(Short) /\ Short = B \cup (Short \ B)
        BY <2>4, <3>1, FirstBatch
      <3>3. Short \ B \in LeftOut(a, Short)
        BY <1>1, <3>2 DEF LeftOut
      <3> QED
        BY <2>4, <3>1, <3>2, <3>3 DEF LeftCopies
    <2>6. Duty(a, r)
      BY <1>0, <2>3, <2>4, <2>5 DEF Duty, Planned, Counting, Vacating, Exact
    <2> QED
      BY <1>0, <2>1, <2>2, <2>3, <2>6, Quietly
  <1>2. CASE Pc(a, "release") /\ (OpName(a) = "cross-verify" \/ (OpName(a) = "redistribute" /\ (Under # {} \/ Balanced(Counts))))
    <2>1. PICK r : r = [j EXCEPT !.pc = "release"]
      OBVIOUS
    <2>2. job' = [job EXCEPT ![a] = r] /\ r.pc = "release"
      BY <1>0, <1>2, <2>1 DEF Pc, Continue, Job
    <2>3. OpName(a) = "redistribute" => Settled
      BY <1>2 DEF Settled
    <2>4. OpName(a) = "cross-verify" => entry = copies
      BY <1>0 DEF Duty, Exact
    <2>5. Duty(a, r)
      BY <1>0, <1>2, <2>2, <2>3, <2>4 DEF Duty, Planned, Counting, Vacating, Exact
    <2> QED
      BY <1>0, <2>2, <2>5, Quietly
  <1>3. CASE Continue(a, [j EXCEPT !.pc = "move", !.stage = "move", !.counts = Counts, !.moved = 0])
    <2>1. PICK r : r = [j EXCEPT !.pc = "move", !.stage = "move", !.counts = Counts, !.moved = 0]
      OBVIOUS
    <2>2. job' = [job EXCEPT ![a] = r] /\ r.pc = "move" /\ r.stage = "move" /\ r.counts = Counts
      BY <1>0, <1>3, <2>1 DEF Continue, Job
    <2>3. Duty(a, r)
      BY <1>0, <2>2 DEF Duty, Planned, Counting, Vacating, Exact
    <2> QED
      BY <1>0, <2>2, <2>3, Quietly
  <1> QED
    BY <1>0, <1>1, <1>2, <1>3, BeginDoes

\* The next move of redistribute_sweep keeps the course.
LEMMA MoveNextCourse ==
    ASSUME NEW a \in Admins, Run(a), Calm', MoveNext(a)
    PROVE  Course(a)'
  <1> DEFINE j == job[a]
  <1>0. /\ Sane /\ a \in Workers /\ j \in Job /\ Disc(a, j) /\ j.pc = "move" /\ j.stage = "move"
        /\ OpName(a) = "redistribute" /\ UNCHANGED <<copies, entry, state, scene>> /\ Duty(a, j)
    BY RunFacts, MoveNextDoes DEF Run, Course, Shared, Disc, Doing
  <1>1. j.counts = Counts /\ DOMAIN Counts = Healthy
    BY <1>0, CountsIs DEF Duty, Counting
  <1>2. CASE /\ Pc(a, "release")
             /\ \/ j.moved >= AdminBatch \/ Balanced(j.counts)
                \/ \E src \in Fullest(j.counts), dst \in Emptiest(j.counts) : Movable(j.counts, src, dst) = {}
    <2>1. PICK r : r = [j EXCEPT !.pc = "release"]
      OBVIOUS
    <2>2. job' = [job EXCEPT ![a] = r] /\ r.pc = "release" /\ r.moved = j.moved
      BY <1>0, <1>2, <2>1 DEF Pc, Continue, Job
    <2>3. r.moved >= AdminBatch \/ Settled
      BY <1>1, <1>2, <2>2 DEF Settled
    <2>4. Duty(a, r)
      BY <1>0, <2>2, <2>3 DEF Duty, Planned, Counting, Vacating, Exact
    <2> QED
      BY <1>0, <2>2, <2>4, Quietly
  <1>3. ASSUME NEW src \in Fullest(j.counts), NEW dst \in Emptiest(j.counts), NEW k \in Movable(j.counts, src, dst),
               Continue(a, [j EXCEPT !.pc = "read", !.key = k, !.from = src, !.to = dst])
        PROVE  Course(a)'
    <2>1. PICK r : r = [j EXCEPT !.pc = "read", !.key = k, !.from = src, !.to = dst]
      OBVIOUS
    <2>2. /\ job' = [job EXCEPT ![a] = r] /\ r.pc = "read" /\ r.stage = "move" /\ r.counts = Counts
          /\ r.key = k /\ r.from = src /\ r.to = dst
      BY <1>0, <1>1, <1>3, <2>1 DEF Continue, Job
    <2>3. src \in entry[k] /\ dst \in Healthy
      BY <1>1, <1>3 DEF Movable, Emptiest
    <2>4. Duty(a, r)
      BY <1>0, <2>2, <2>3 DEF Duty, Planned, Counting, Vacating, Exact
    <2> QED
      BY <1>0, <2>2, <2>4, Quietly
  <1> QED
    BY <1>0, <1>2, <1>3, MoveNextDoes

\* The end of an operation keeps the course.
LEMMA ReleaseCourse ==
    ASSUME NEW a \in Admins, Run(a), Calm', Release(a)
    PROVE  Course(a)'
  <1> DEFINE j == job[a]
  <1>0. /\ Sane /\ a \in Workers /\ j \in Job /\ j.pc = "release"
        /\ UNCHANGED <<copies, entry, state, scene>> /\ Duty(a, j)
    BY RunFacts DEF Run, Course, Release, AtPc
  <1>1. PICK r : r = [j EXCEPT !.pc = "done"]
    OBVIOUS
  <1>2. job' = [job EXCEPT ![a] = r] /\ r.pc = "done" /\ r.moved = j.moved
    BY <1>0, <1>1 DEF Release, Pc, Continue, Job
  <1>3. Duty(a, r)
    BY <1>0, <1>2 DEF Duty, Planned, Counting, Vacating, Exact, Emptying
  <1> QED
    BY <1>0, <1>2, <1>3, Quietly

\* A request for admin_op_lock keeps the course.
LEMMA AcquireCourse ==
    ASSUME NEW a \in Admins, Run(a), Calm', Acquire(a)
    PROVE  Course(a)'
  <1> DEFINE j == job[a]
  <1>0. Sane /\ a \in Workers /\ j.pc = "idle" /\ UNCHANGED <<copies, entry, state, scene>> /\ Duty(a, j)
    BY RunFacts, AcquireDoes DEF Run, Course
  <1>1. running = NoOp
    BY <1>0 DEF Run, Course
  <1>2. PICK r \in Job :
                       /\ Continue(a, r)
                       /\ r.pc = IF OpName(a) = "drain" THEN "hold" ELSE "scan"
                       /\ r.did = (OpName(a) = "drain" /\ OpShard(a) \in Usable)
    BY <1>0, <1>1, AcquireDoes
  <1>3. OpName(a) = "drain" => r.did
    <2>1. OpShard(a) \in Healthy
      BY <1>0, ShardOf DEF Run, Course, Standing, Healthy
    <2> QED
      BY <1>2, <2>1, RunFacts
  <1>4. Duty(a, r)
    BY <1>0, <1>2, <1>3 DEF Duty, Planned, Counting, Vacating, Exact, Emptying
  <1> QED
    BY <1>0, <1>2, <1>4, Quietly DEF Continue

\* The hold of drain_shard keeps the course.
LEMMA HoldCourse ==
    ASSUME NEW a \in Admins, Run(a), Calm', DrainHold(a)
    PROVE  Course(a)'
  <1> DEFINE j == job[a]
  <1>0. /\ Sane /\ a \in Workers /\ j \in Job /\ j.pc = "hold" /\ OpName(a) = "drain" /\ j.shard = OpShard(a)
        /\ OpShard(a) \in Slot /\ UNCHANGED <<copies, entry, scene>> /\ Duty(a, j)
        /\ state' = [state EXCEPT ![OpShard(a)] = "Detached"] /\ state \in [Slot -> States]
        /\ job \in [Workers -> Job]
    BY RunFacts, DrainJob DEF Run, Course, DrainHold, AtPc, Out, Sane, AdminTyped
  <1>1. PICK r : r = [j EXCEPT !.pc = "victim"]
    OBVIOUS
  <1>2. job' = [job EXCEPT ![a] = r] /\ job'[a] = r /\ r.pc = "victim" /\ r.did = j.did
    BY <1>0, <1>1 DEF DrainHold, Pc, Continue, Job
  <1>3. Standing(a)'
    <2>1. \A s \in Slot : state[s] = "Healthy"
      BY <1>0 DEF Run, Course, Standing
    <2>2. OpName(a)' = OpName(a) /\ OpShard(a)' = OpShard(a)
      BY <1>0 DEF OpName, OpShard
    <2> QED
      BY <1>0, <1>2, <2>1, <2>2 DEF Standing
  <1>4. OpName(a)' = "drain"
    BY <1>0 DEF OpName
  <1>5. Duty(a, job[a])'
    BY <1>0, <1>2, <1>4 DEF Duty, Planned, Counting, Vacating, Exact, Emptying
  <1> QED
    BY <1>2, <1>3, <1>5 DEF Course

\* The entries of an object are copies of it, when none is being forgotten.
LEMMA MineBacked ==
    ASSUME NEW a \in Admins, Run(a), job[a].pc \notin Resting, job[a].pc # "forget"
    PROVE  \A k \in Objects : entry[k] \subseteq copies[k]
  BY RunFacts, BackedNow DEF Run, Busy

\* The victim's listing keeps the course.
LEMMA DrainListCourse ==
    ASSUME NEW a \in Admins, Run(a), Calm', DrainList(a)
    PROVE  Course(a)'
  <1> DEFINE j == job[a]
  <1>0. /\ Sane /\ a \in Workers /\ j \in Job /\ j.pc = "victim" /\ OpName(a) = "drain" /\ j.shard = OpShard(a)
        /\ OpShard(a) \in Slot /\ UNCHANGED <<copies, entry, state, scene>> /\ Duty(a, j) /\ Answering(OpShard(a))
    BY RunFacts, DrainJob DEF Run, Course, DrainList, AtPc, Shared
  <1>1. PICK listed \in {{}, {k \in Objects : OpShard(a) \in copies[k]}} :
        /\ j.did => listed # {} \/ \A k \in Objects : OpShard(a) \notin copies[k]
        /\ Continue(a, [j EXCEPT !.pc = "drain", !.todo = listed])
    BY <1>0 DEF DrainList
  <1>2. PICK r : r = [j EXCEPT !.pc = "drain", !.todo = listed]
    OBVIOUS
  <1>3. job' = [job EXCEPT ![a] = r] /\ r.pc = "drain" /\ r.todo = listed
    BY <1>0, <1>1, <1>2 DEF Continue, Job
  <1>4. ASSUME NEW k \in Objects, OpShard(a) \in copies[k]
        PROVE  k \in listed
    <2>1. j.did
      BY <1>0 DEF Duty, Vacating
    <2> QED
      BY <1>1, <1>4, <2>1
  <1>5. Duty(a, r)
    BY <1>0, <1>3, <1>4 DEF Duty, Planned, Counting, Vacating, Exact, Emptying
  <1> QED
    BY <1>0, <1>3, <1>5, Quietly

\* The sweep that ends a drain keeps the course.
LEMMA DrainSweepCourse ==
    ASSUME NEW a \in Admins, Run(a), Calm', DrainSweep(a)
    PROVE  Course(a)'
  <1> DEFINE j == job[a]
  <1>0. /\ Sane /\ a \in Workers /\ j \in Job /\ j.pc = "erase" /\ j.safe = {} /\ OpName(a) = "drain"
        /\ j.shard = OpShard(a) /\ UNCHANGED <<copies, entry, state, scene>> /\ Duty(a, j) /\ Informed(j)
    BY RunFacts, DrainJob DEF Run, Course, DrainSweep, AtPc, Shared
  <1>1. job' = [job EXCEPT ![a] = Started(a, "under", Under)]
    <2>1. PICK B \in Batches(Under, Limit(a)) : job' = [job EXCEPT ![a] = Started(a, "under", B)]
      BY StageDoes DEF DrainSweep
    <2>2. Under \in SUBSET Objects /\ Limit(a) = Cardinality(Objects)
      BY <1>0, Names DEF Under, Limit
    <2>3. B = Under
      BY <2>2, WholeBatch
    <2> QED
      BY <2>1, <2>3
  <1>2. PICK r : r = Started(a, "under", Under)
    OBVIOUS
  <1>3. r.pc = "copy" /\ r.stage = "under" /\ r.todo = Under
    BY <1>0, <1>2, StartedIs
  <1>4. LeftCopies(a, Under)
    BY <1>0, DrainLeft DEF PlannedCopies
  <1>5. \A k \in Objects : entry[k] # {} /\ OpShard(a) \notin copies[k] /\ OpShard(a) \notin entry[k]
    BY <1>0 DEF Duty, Vacating, Informed
  <1>6. Duty(a, r)
    BY <1>0, <1>3, <1>4, <1>5 DEF Duty, Planned, Counting, Vacating, Exact, Emptying
  <1> QED
    BY <1>0, <1>1, <1>2, <1>3, <1>6, Quietly

\* Between its first step and its last sweep a drain has little to keep.
LEMMA Draining ==
    ASSUME NEW a \in Admins, Run(a), Calm', NEW r, job' = [job EXCEPT ![a] = r],
           UNCHANGED <<state, scene>>, OpName(a) = "drain", job[a].pc \in {"drain", "erase"},
           r.pc \in {"drain", "erase"},
           \A k \in Objects :
              /\ entry'[k] # {}
              /\ r.pc = "drain" /\ OpShard(a) \in copies'[k] => k \in r.todo \cup r.safe
              /\ r.pc = "erase" /\ OpShard(a) \in copies'[k] => k \in r.safe
    PROVE  Course(a)'
  <1>1. job'[a] = r
    BY RunFacts
  <1>2. OpName(a)' = OpName(a) /\ OpShard(a)' = OpShard(a)
    BY DEF OpName, OpShard
  <1>3. Vacating(a, job[a])'
    BY <1>1, <1>2 DEF Vacating, Emptying
  <1>4. Planned(a, job[a])' /\ Counting(a, job[a])' /\ Exact(a, job[a])'
    BY <1>1, <1>2 DEF Planned, Counting, Exact
  <1>5. Standing(a)'
    BY StandingKept
  <1> QED
    BY <1>1, <1>3, <1>4, <1>5 DEF Course, Duty

\* The victim's removal from the catalog keeps the course.
LEMMA PurgeCourse ==
    ASSUME NEW a \in Admins, Run(a), Calm', DrainPurge(a)
    PROVE  Course(a)'
  <1> DEFINE j == job[a]
  <1>0. /\ Sane /\ a \in Workers /\ j \in Job /\ j.pc = "drain" /\ j.todo = {} /\ OpName(a) = "drain"
        /\ j.shard = OpShard(a) /\ UNCHANGED <<copies, state, scene>> /\ Duty(a, j) /\ Informed(j)
        /\ entry' = [k \in Objects |-> entry[k] \ {OpShard(a)}]
    BY RunFacts, DrainJob DEF Run, Course, DrainPurge, AtPc
  <1>1. PICK r : r = [j EXCEPT !.pc = "erase"]
    OBVIOUS
  <1>2. job' = [job EXCEPT ![a] = r] /\ r.pc = "erase" /\ r.safe = j.safe
    BY <1>0, <1>1 DEF DrainPurge, Pc, Continue, Job
  <1>3. \A k \in Objects : entry[k] # {} /\ (OpShard(a) \in copies[k] => k \in j.safe)
    BY <1>0 DEF Duty, Vacating
  <1>4. \A k \in Objects : entry[k] \subseteq copies[k]
    BY <1>0, MineBacked DEF Resting
  <1>5. \A k \in j.safe : entry[k] \ {OpShard(a)} # {}
    BY <1>0 DEF Informed
  <1>6. \A k \in Objects : entry'[k] # {}
    BY <1>0, <1>3, <1>4, <1>5
  <1> QED
    BY <1>0, <1>2, <1>3, <1>6, Draining

\* The erasure of the victim keeps the course.
LEMMA EraseCourse ==
    ASSUME NEW a \in Admins, Run(a), Calm', DrainErase(a)
    PROVE  Course(a)'
  <1> DEFINE j == job[a]
  <1>0. /\ Sane /\ a \in Workers /\ j \in Job /\ j.pc = "erase" /\ OpName(a) = "drain"
        /\ j.shard = OpShard(a) /\ UNCHANGED <<entry, state, scene>> /\ Duty(a, j)
        /\ copies \in Placing /\ Answering(OpShard(a))
    BY RunFacts, DrainJob DEF Run, Course, DrainErase, AtPc, Sane, AdminTyped
  <1>1. PICK k \in j.safe : /\ copies' = [copies EXCEPT ![k] = @ \ {OpShard(a)}]
                            /\ Continue(a, [j EXCEPT !.safe = @ \ {k}])
    BY <1>0 DEF DrainErase
  <1>2. PICK r : r = [j EXCEPT !.safe = @ \ {k}]
    OBVIOUS
  <1>3. job' = [job EXCEPT ![a] = r] /\ r.pc = "erase" /\ r.safe = j.safe \ {k}
    BY <1>0, <1>1, <1>2 DEF Continue, Job
  <1>4. \A i \in Objects : entry[i] # {} /\ (OpShard(a) \in copies[i] => i \in j.safe)
    BY <1>0 DEF Duty, Vacating
  <1>5. \A i \in Objects : OpShard(a) \in copies'[i] => i \in j.safe \ {k}
    BY <1>0, <1>1, <1>4 DEF Placing
  <1> QED
    BY <1>0, <1>3, <1>4, <1>5, Draining

\* With the victim out of service, the survivors can take an object.
LEMMA SurvivorsTake ==
    ASSUME Slots > 1, NEW a \in Admins, Run(a), OpName(a) = "drain", job[a].pc = "drain", NEW T \in SurvivorTargets
    PROVE  /\ T \subseteq Healthy /\ OpShard(a) \notin T /\ T # {}
           /\ Cardinality(T) >= MinPlaced
  <1>0. Sane /\ Usable = Healthy /\ Healthy \subseteq Slot /\ OpShard(a) \in Slot
    BY RunFacts, ShardOf
  <1>1. Healthy = Slot \ {OpShard(a)}
    BY <1>0 DEF Run, Course, Standing, Healthy
  <1>2. Cardinality(Healthy) = Slots - 1
    BY <1>0, <1>1, SlotFacts, FS_RemoveElement
  <1>3. T \subseteq Healthy /\ Cardinality(T) = Min({Rf, Cardinality(Healthy)})
    BY <1>0 DEF SurvivorTargets
  <1>4. Rf \in Nat /\ Rf >= 1 /\ Rf <= Slots /\ Slots \in Nat /\ MinPlaced = IF Rf > 1 THEN Rf - 1 ELSE 1
    BY <1>0, RfIs, SlotFacts DEF MinPlaced
  <1>5. Min({Rf, Cardinality(Healthy)}) \in {Rf, Cardinality(Healthy)}
    BY <1>2, <1>4, MinTwo
  <1>6. Cardinality(T) = Rf \/ Cardinality(T) = Slots - 1
    BY <1>2, <1>3, <1>5
  <1>7. Cardinality(T) >= MinPlaced /\ Cardinality(T) # 0
    BY <1>4, <1>6
  <1>8. T # {}
    BY <1>7, FS_EmptySet
  <1> QED
    BY <1>1, <1>3, <1>7, <1>8

\* Drain_shard on an object keeps the course.
LEMMA DrainNextCourse ==
    ASSUME Slots > 1, NEW a \in Admins, Run(a), Calm', DrainNext(a)
    PROVE  Course(a)'
  <1> DEFINE j == job[a]
             v == OpShard(a)
  <1>0. /\ Sane /\ a \in Workers /\ j \in Job /\ j.pc = "drain" /\ OpName(a) = "drain" /\ j.shard = v /\ v \in Slot
        /\ scene' = scene /\ Duty(a, j) /\ copies \in Placing /\ entry \in Placing /\ Answering(v)
        /\ state \in [Slot -> States]
    <2>1. j.pc = "drain" /\ scene' = scene /\ Duty(a, j)
      BY DEF Run, Course, DrainNext, AtPc
    <2>2. Sane /\ a \in Workers /\ j \in Job /\ \A s \in Slot : Answering(s)
      BY RunFacts
    <2>3. OpName(a) = "drain" /\ j.shard = v /\ v \in Slot
      BY <2>1, <2>2, DrainJob
    <2>4. copies \in Placing /\ entry \in Placing /\ state \in [Slot -> States]
      BY <2>2 DEF Sane, AdminTyped
    <2> QED
      BY <2>1, <2>2, <2>3, <2>4
  <1>1. \A i \in Objects : entry[i] # {} /\ (v \in copies[i] => i \in j.todo \cup j.safe)
    BY <1>0 DEF Duty, Vacating
  <1>2. \A i \in Objects : entry[i] \subseteq copies[i]
    BY <1>0, MineBacked DEF Resting
  <1>3. PICK k \in j.todo :
             \/ /\ Continue(a, Drained(a, k, SafeAlready(k, v)))
                /\ UNCHANGED <<copies, entry, state>>
                /\ SafeAlready(k, v) \/ v \notin copies[k]
             \/ \E T \in SurvivorTargets, placed \in SUBSET Slot, ok \in BOOLEAN : Rescued(a, k, T, placed, ok)
    BY <1>0, DrainNextDoes
  <1>4. k \in Objects
    BY <1>0, <1>3 DEF Job
  <1>5. CASE /\ Continue(a, Drained(a, k, SafeAlready(k, v)))
             /\ UNCHANGED <<copies, entry, state>>
             /\ SafeAlready(k, v) \/ v \notin copies[k]
    <2>1. SafeAlready(k, v)
      BY <1>1, <1>2, <1>4, <1>5 DEF SafeAlready
    <2>2. Continue(a, Drained(a, k, TRUE))
      BY <1>5, <2>1 DEF Drained
    <2>3. PICK r : r = Drained(a, k, TRUE)
      OBVIOUS
    <2>4. r.pc = "drain" /\ r.todo = j.todo \ {k} /\ r.safe = j.safe \cup {k}
      BY <1>0, <1>4, <2>3, DrainedIs
    <2>5. \A i \in Objects : v \in copies[i] => i \in r.todo \cup r.safe
      BY <1>1, <2>4
    <2> QED
      BY <1>0, <1>1, <1>5, <2>2, <2>3, <2>4, <2>5, Draining DEF Continue
  <1>6. ASSUME NEW T \in SurvivorTargets, NEW placed \in SUBSET Slot, NEW ok \in BOOLEAN, Rescued(a, k, T, placed, ok)
        PROVE  Course(a)'
    <2>1. T \subseteq Healthy /\ v \notin T /\ T # {} /\ Cardinality(T) >= MinPlaced
      BY <1>0, SurvivorsTake
    <2>2. placed = T
      BY <1>6, <2>1, RunFacts DEF Rescued
    <2>3. ok
      BY <1>6, <2>1, <2>2 DEF Rescued
    <2>4. /\ copies' = [copies EXCEPT ![k] = @ \cup T] /\ entry' = [entry EXCEPT ![k] = T]
          /\ Continue(a, Drained(a, k, TRUE))
      BY <1>6, <2>2, <2>3 DEF Rescued, Drained
    <2>5. state' = [t \in Slot |-> state[t]]
      BY <1>6, <2>2 DEF Rescued
    <2>6. state' = state
      BY <1>0, <2>5
    <2>7. PICK r : r = Drained(a, k, TRUE)
      OBVIOUS
    <2>8. r.pc = "drain" /\ r.todo = j.todo \ {k} /\ r.safe = j.safe \cup {k}
      BY <1>0, <1>4, <2>7, DrainedIs
    <2>9. \A i \in Objects : entry'[i] # {} /\ (v \in copies'[i] => i \in r.todo \cup r.safe)
      BY <1>0, <1>1, <2>1, <2>4, <2>8 DEF Placing
    <2> QED
      BY <1>0, <2>4, <2>6, <2>7, <2>8, <2>9, Draining DEF Continue
  <1> QED
    BY <1>3, <1>5, <1>6

\* The new catalog keeps the course.
LEMMA SwapCourse ==
    ASSUME NEW a \in Admins, Run(a), Calm', RebuildSwap(a)
    PROVE  Course(a)'
  <1> DEFINE j == job[a]
  <1>0. /\ Sane /\ a \in Workers /\ j \in Job /\ Disc(a, j) /\ j.pc = "swap" /\ OpName(a) # "drain"
        /\ UNCHANGED <<copies, state, scene>> /\ Duty(a, j)
    BY RunFacts DEF Run, Course, RebuildSwap, AtPc, Disc, Where
  <1>1. entry' = copies
    BY <1>0 DEF RebuildSwap, Duty, Exact
  <1>2. PICK r : r = [j EXCEPT !.pc = "begin", !.listing = <<>>]
    OBVIOUS
  <1>3. job' = [job EXCEPT ![a] = r] /\ r.pc = "begin"
    BY <1>0, <1>2 DEF RebuildSwap, Continue, Job
  <1>4. job'[a] = r /\ OpName(a)' = OpName(a)
    BY <1>0, <1>3, RunFacts DEF OpName
  <1>5. Duty(a, job[a])'
    BY <1>0, <1>1, <1>3, <1>4 DEF Duty, Planned, Counting, Vacating, Exact
  <1>6. Standing(a)'
    BY <1>0, <1>3, StandingKept
  <1> QED
    BY <1>3, <1>4, <1>5, <1>6 DEF Course

\* A sweep's delete keeps the course.
LEMMA DeleteCourse ==
    ASSUME NEW a \in Admins, Run(a), Calm', RemoveDelete(a)
    PROVE  Course(a)'
  <1> DEFINE j == job[a]
  <1>0. /\ Sane /\ a \in Workers /\ j \in Job /\ Disc(a, j) /\ j.pc = "delete" /\ j.key \in Objects /\ j.from \in Slot
        /\ Answering(j.from) /\ UNCHANGED <<entry, state, scene>> /\ Duty(a, j) /\ copies \in Placing
        /\ j.stage \in {"over", "move"}
    BY RunFacts DEF Run, Course, RemoveDelete, AtPc, Disc, Doing, Job, Sane, AdminTyped
  <1>1. j.from \in copies[j.key]
    <2>1. j.from \in entry[j.key]
      BY <1>0 DEF Duty, Planned
    <2> QED
      BY <1>0, <2>1, MineBacked DEF Resting
  <1>2. PICK r : r = [j EXCEPT !.pc = "forget"]
    OBVIOUS
  <1>3. job' = [job EXCEPT ![a] = r] /\ copies' = [copies EXCEPT ![j.key] = @ \ {j.from}]
    BY <1>0, <1>1, <1>2 DEF RemoveDelete, Pc, Continue
  <1>4. /\ r.pc = "forget" /\ r.stage = j.stage /\ r.todo = j.todo /\ r.key = j.key /\ r.from = j.from
        /\ r.to = j.to /\ r.counts = j.counts
    BY <1>0, <1>2 DEF Job
  <1>5. job'[a] = r /\ OpName(a)' = OpName(a) /\ OpShard(a)' = OpShard(a)
    BY <1>0, <1>3, RunFacts DEF OpName, OpShard
  <1>6. /\ Healthy' = Healthy /\ Rf' = Rf /\ PlannedCopies' = PlannedCopies
        /\ PlannedTrims' = PlannedTrims /\ Counts' = Counts
    BY <1>0, ViewsKept
  <1>7. Planned(a, job[a])'
    BY <1>0, <1>4, <1>5, <1>6, LeftViews DEF Duty, Planned
  <1>8. Counting(a, job[a])'
    BY <1>0, <1>4, <1>5, <1>6 DEF Duty, Counting
  <1>9. Vacating(a, job[a])'
    BY <1>0, <1>3, <1>4, <1>5 DEF Duty, Vacating, Emptying, Placing
  <1>10. Exact(a, job[a])'
    BY <1>4, <1>5 DEF Exact
  <1>11. Standing(a)'
    BY <1>0, <1>3, <1>4, StandingKept
  <1> QED
    BY <1>4, <1>5, <1>7, <1>8, <1>9, <1>10, <1>11 DEF Course, Duty

\* The plan and the counts, when the entry of one object changes.
LEMMA PlansElsewhere ==
    ASSUME Sane, UNCHANGED <<state, scene>>, NEW k \in Objects, \A i \in Objects : i # k => entry'[i] = entry[i]
    PROVE  /\ Healthy' = Healthy /\ Rf' = Rf
           /\ PlannedCopies' \subseteq PlannedCopies \cup {k}
           /\ PlannedTrims' \subseteq PlannedTrims \cup {k}
           /\ \A i \in Objects : i # k => (i \in Over' <=> i \in Over)
  <1>1. Healthy' = Healthy /\ Usable' = Usable /\ Rf' = Rf
    BY DEF Healthy, Usable, Rf
  <1>2. \A i \in Objects : i # k => (i \in Under' <=> i \in Under) /\ (i \in Over' <=> i \in Over)
    BY <1>1 DEF Under, Over
  <1>3. \A i \in Objects : i # k => /\ CopySources(i)' = CopySources(i) /\ CopyTargets(i)' = CopyTargets(i)
                                    /\ Excess(i)' = Excess(i)
    BY <1>1 DEF CopySources, CopyTargets, Excess
  <1>4. (Under \subseteq Objects)' /\ (Over \subseteq Objects)'
    BY DEF Under, Over
  <1>5. PlannedCopies' \subseteq PlannedCopies \cup {k}
    BY <1>2, <1>3, <1>4 DEF PlannedCopies
  <1>6. PlannedTrims' \subseteq PlannedTrims \cup {k}
    BY <1>2, <1>3, <1>4 DEF PlannedTrims
  <1> QED
    BY <1>1, <1>2, <1>5, <1>6

\* The count of a shard follows the one entry that changes.
LEMMA CountsMove ==
    ASSUME Sane, Healthy' = Healthy, NEW k \in Objects, \A i \in Objects : i # k => entry'[i] = entry[i],
           NEW s \in Healthy
    PROVE  /\ Counts[s] \in Nat
           /\ (s \in entry'[k] <=> s \in entry[k]) => Counts'[s] = Counts[s]
           /\ s \in entry'[k] /\ s \notin entry[k] => Counts'[s] = Counts[s] + 1
           /\ s \notin entry'[k] /\ s \in entry[k] => Counts'[s] = Counts[s] - 1
  <1> DEFINE P == {i \in Objects : s \in entry[i]}
             Q == {i \in Objects : s \in entry'[i]}
  <1>1. Counts[s] = Cardinality(P)
    BY DEF Counts
  <1>2. Counts'[s] = Cardinality(Q)
    BY DEF Counts
  <1>3. IsFiniteSet(P) /\ IsFiniteSet(Q) /\ Cardinality(P) \in Nat /\ Cardinality(Q) \in Nat
    <2>1. P \subseteq Objects /\ Q \subseteq Objects
      OBVIOUS
    <2> QED
      BY <2>1, AdminAssumption, FS_Subset, FS_CardinalityType
  <1>4. (s \in entry'[k] <=> s \in entry[k]) => Q = P
    OBVIOUS
  <1>5. s \in entry'[k] /\ s \notin entry[k] => Q = P \cup {k} /\ k \notin P
    OBVIOUS
  <1>6. s \notin entry'[k] /\ s \in entry[k] => P = Q \cup {k} /\ k \notin Q
    OBVIOUS
  <1> HIDE DEF P, Q
  <1>7. k \notin P => Cardinality(P \cup {k}) = Cardinality(P) + 1
    BY <1>3, FS_AddElement
  <1>8. k \notin Q => Cardinality(Q \cup {k}) = Cardinality(Q) + 1
    BY <1>3, FS_AddElement
  <1>9. s \notin entry'[k] /\ s \in entry[k] => Cardinality(P) = Cardinality(Q) + 1
    BY <1>6, <1>8
  <1>10. s \notin entry'[k] /\ s \in entry[k] => Counts'[s] = Counts[s] - 1
    BY <1>1, <1>2, <1>3, <1>9
  <1> QED
    BY <1>1, <1>2, <1>3, <1>4, <1>5, <1>7, <1>10

\* A sweep's write keeps the course.
LEMMA WriteCourse ==
    ASSUME NEW a \in Admins, Run(a), Calm', ReplicateWrite(a)
    PROVE  Course(a)'
  <1> DEFINE j == job[a]
             k == job[a].key
             t == job[a].to
             D == DOMAIN job[a].counts
  <1>0. /\ Sane /\ a \in Workers /\ j \in Job /\ Disc(a, j) /\ Informed(j) /\ j.pc = "write" /\ k \in Objects
        /\ t \in Slot /\ Answering(t) /\ UNCHANGED <<state, scene>> /\ Duty(a, j)
    BY RunFacts DEF Run, Course, ReplicateWrite, AtPc, Disc, Doing, Job
  <1>1. copies \in Placing /\ entry \in Placing /\ j.stage \in {"under", "move"}
    BY <1>0, Names DEF Sane, AdminTyped, Disc, Doing
  <1>2. /\ j.from \in entry[k] /\ t \in Healthy
        /\ j.stage = "under" => k \in j.todo /\ k \in Under /\ t \notin entry[k]
    BY <1>0 DEF Duty, Planned
  <1>3. j.stage = "move" =>
           /\ t \notin entry[k] /\ j.counts = Counts /\ D = Healthy
           /\ Cardinality((entry[k] \ {j.from}) \cap D) + 1 >= Rf
    BY <1>0, CountsIs DEF Informed, Duty, Counting
  <1>4. /\ copies' = [copies EXCEPT ![k] = @ \cup {t}]
        /\ entry' = [entry EXCEPT ![k] = @ \cup {t}]
    BY <1>0 DEF ReplicateWrite
  <1>5. /\ copies'[k] = copies[k] \cup {t} /\ entry'[k] = entry[k] \cup {t}
        /\ \A i \in Objects : i # k => copies'[i] = copies[i] /\ entry'[i] = entry[i]
    BY <1>0, <1>1, <1>4 DEF Placing
  <1>6. j.stage = "move" => Cardinality((entry[k] \cup {t}) \cap D) >= Rf
    <2> SUFFICES ASSUME j.stage = "move"
                 PROVE  Cardinality((entry[k] \cup {t}) \cap D) >= Rf
      OBVIOUS
    <2> DEFINE A == (entry[k] \ {j.from}) \cap D
               B == (entry[k] \cup {t}) \cap D
    <2>1. A \in SUBSET Slot /\ B \in SUBSET Slot /\ t \notin A /\ A \cup {t} \subseteq B /\ A \cup {t} \in SUBSET Slot
      BY <1>0, <1>2, <1>3, EntryIs
    <2>2. Cardinality(A) + 1 >= Rf
      BY <1>3
    <2> HIDE DEF A, B
    <2>3. /\ Cardinality(A) \in Nat /\ Cardinality(B) \in Nat /\ Rf \in Nat
          /\ Cardinality(A \cup {t}) = Cardinality(A) + 1 /\ Cardinality(A \cup {t}) <= Cardinality(B)
      BY <1>0, <2>1, SlotFacts, RfIs, FS_AddElement
    <2>4. Cardinality(B) >= Rf
      BY <2>2, <2>3
    <2> QED
      BY <2>4 DEF B
  <1>7. PICK r : r = [j EXCEPT !.did = TRUE, !.pc = IF j.stage = "move" THEN "delete" ELSE "copy"]
    OBVIOUS
  <1>8. job' = [job EXCEPT ![a] = r]
    BY <1>0, <1>1, <1>6, <1>7 DEF ReplicateWrite, Continue, Stage
  <1>9. /\ r.pc = IF j.stage = "move" THEN "delete" ELSE "copy"
        /\ r.stage = j.stage /\ r.todo = j.todo /\ r.key = k /\ r.from = j.from
        /\ r.to = t /\ r.counts = j.counts
    BY <1>0, <1>7 DEF Job
  <1>10. job'[a] = r /\ OpName(a)' = OpName(a) /\ OpShard(a)' = OpShard(a)
    BY <1>0, <1>8, RunFacts DEF OpName, OpShard
  <1>11. /\ Healthy' = Healthy /\ PlannedCopies' \subseteq PlannedCopies \cup {k}
         /\ \A i \in Objects : i # k => (i \in Over' <=> i \in Over)
    BY <1>0, <1>5, PlansElsewhere
  <1>12. Planned(a, job[a])'
    <2>1. CASE j.stage = "under"
      <3>1. PICK T : T = j.todo
        OBVIOUS
      <3>2. LeftCopies(a, T) /\ k \in T
        BY <1>0, <1>2, <2>1, <3>1 DEF Duty, Planned
      <3>3. (LeftCopies(a, T))'
        BY <1>0, <1>11, <3>2, LeftKept
      <3>4. OpName(a) = "repair-replication" => Over' = Surplus'
        <4> SUFFICES ASSUME OpName(a) = "repair-replication"
                     PROVE  Over' = Surplus'
          OBVIOUS
        <4>1. Over = Surplus /\ Surplus' = Surplus
          BY <1>0, <2>1 DEF Duty, Planned, Surplus, Rf
        <4>2. \A s \in Slot : state[s] = "Healthy"
          BY DEF Run, Course, Standing
        <4>3. entry[k] \in SUBSET Slot /\ entry[k] \cup {t} \in SUBSET Slot
          BY <1>0, EntryIs
        <4>4. {s \in entry[k] : state[s] \in {"Healthy", "Syncing"}} = entry[k]
          BY <4>2, <4>3
        <4>5. Cardinality(entry[k]) < Rf
          BY <1>2, <2>1, <4>4 DEF Under
        <4>6. /\ Cardinality(entry[k]) \in Nat /\ Rf \in Nat
              /\ Cardinality(entry[k] \cup {t}) = Cardinality(entry[k]) + 1
          BY <1>0, <1>2, <2>1, <4>3, SlotFacts, RfIs, FS_AddElement
        <4>7. ~ (Cardinality(entry[k] \cup {t}) > Rf) /\ ~ (Cardinality(entry[k]) > Rf)
          BY <4>5, <4>6
        <4>8. Usable = Slot /\ Usable' = Usable /\ Rf' = Rf
          BY <1>0, <4>2 DEF Usable, Rf
        <4>9. (entry[k] \cup {t}) \cap Usable = entry[k] \cup {t} /\ entry[k] \cap Usable = entry[k]
          BY <4>3, <4>8
        <4>10. k \notin Over /\ k \notin Over'
          BY <1>5, <4>7, <4>8, <4>9 DEF Over
        <4>11. Over \subseteq Objects /\ Over' \subseteq Objects
          BY DEF Over
        <4> QED
          BY <1>11, <4>1, <4>10, <4>11
      <3> QED
        BY <1>9, <1>10, <2>1, <3>1, <3>3, <3>4 DEF Planned
    <2>2. CASE j.stage = "move"
      <3>1. r.from \in entry'[r.key]
        BY <1>2, <1>5, <1>9
      <3> QED
        BY <1>9, <1>10, <2>2, <3>1 DEF Planned
    <2> QED
      BY <1>1, <2>1, <2>2
  <1>13. Counting(a, job[a])'
    <2>1. CASE j.stage = "under"
      BY <1>9, <1>10, <2>1 DEF Counting
    <2>2. CASE j.stage = "move"
      <3>1. r.to # r.from /\ DOMAIN r.counts = Healthy' /\ r.counts = Counts
        BY <1>2, <1>3, <1>9, <1>11, <2>2
      <3>2. ASSUME NEW s \in Healthy
            PROVE  Counts'[s] = IF s = t THEN Counts[s] + 1 ELSE Counts[s]
        BY <1>0, <1>3, <1>5, <1>11, <2>2, CountsMove
      <3> QED
        BY <1>9, <1>10, <1>11, <2>2, <3>1, <3>2 DEF Counting
    <2> QED
      BY <1>1, <2>1, <2>2
  <1>14. Vacating(a, job[a])'
    <2> SUFFICES ASSUME OpName(a) = "drain"
                 PROVE  Vacating(a, job[a])'
      BY <1>10 DEF Vacating
    <2>1. OpShard(a) \notin Healthy
      BY <1>0 DEF Run, Course, Standing, Healthy
    <2>2. \A i \in Objects : entry[i] # {} /\ OpShard(a) \notin copies[i] \cup entry[i]
      BY <1>0 DEF Duty, Vacating, Emptying
    <2>3. \A i \in Objects : entry'[i] # {} /\ OpShard(a) \notin copies'[i] \cup entry'[i]
      BY <1>2, <1>5, <2>1, <2>2
    <2> QED
      BY <1>9, <1>10, <2>3 DEF Vacating, Emptying
  <1>15. Exact(a, job[a])'
    BY <1>9, <1>10 DEF Exact
  <1>16. Standing(a)'
    BY <1>0, <1>8, <1>9, StandingKept
  <1> QED
    BY <1>9, <1>10, <1>12, <1>13, <1>14, <1>15, <1>16 DEF Course, Duty

\* A sweep's removal of an entry keeps the course.
LEMMA ForgetCourse ==
    ASSUME NEW a \in Admins, Run(a), Calm', RemoveForget(a)
    PROVE  Course(a)'
  <1> DEFINE j == job[a]
             k == job[a].key
             f == job[a].from
  <1>0. /\ Sane /\ a \in Workers /\ j \in Job /\ Disc(a, j) /\ j.pc = "forget" /\ k \in Objects
        /\ UNCHANGED <<copies, state, scene>> /\ Duty(a, j)
        /\ entry'[k] = entry[k] \ {f} /\ \A i \in Objects : i # k => entry'[i] = entry[i]
    BY RunFacts, ForgetDoes DEF Run, Course
  <1>1. PICK r \in Job : /\ job' = [job EXCEPT ![a] = r]
                         /\ r.stage = j.stage /\ r.todo = j.todo
                         /\ \/ j.stage = "move" /\ r.pc = "move" /\ r.counts = Moved(j.counts, f, j.to)
                            \/ j.stage = "over" /\ r.pc = "trim"
    BY <1>0, ForgetDoes
  <1>2. job'[a] = r /\ OpName(a)' = OpName(a) /\ OpShard(a)' = OpShard(a)
    BY <1>0, <1>1, RunFacts DEF OpName, OpShard
  <1>3. /\ Healthy' = Healthy /\ Rf' = Rf /\ PlannedCopies' \subseteq PlannedCopies \cup {k}
        /\ PlannedTrims' \subseteq PlannedTrims \cup {k}
    BY <1>0, PlansElsewhere
  <1>4. f \in entry[k] /\ f \in Slot /\ j.to \in Slot
    BY <1>0 DEF Duty, Planned, Job
  <1>5. ASSUME j.stage = "over"
        PROVE  (LeftCopies(a, {}))' /\ (LeftTrims(a, r.todo))' /\ entry'[k] # {}
    <2>1. LeftCopies(a, {}) /\ LeftTrims(a, r.todo) /\ k \in r.todo
          /\ Cardinality((entry[k] \ {f}) \cap Healthy) >= Rf
      BY <1>0, <1>1, <1>5 DEF Duty, Planned
    <2> DEFINE A == (entry[k] \ {f}) \cap Healthy
               B == {s \in entry'[k] : state'[s] \in {"Healthy", "Syncing"}}
    <2>2. A \subseteq B /\ A \in SUBSET Slot /\ B \in SUBSET Slot
      BY <1>0, EntryIs DEF Healthy
    <2>3. Cardinality(A) <= Cardinality(B) /\ Cardinality(A) \in Nat /\ Cardinality(B) \in Nat /\ Rf \in Nat /\ Rf >= 1
      BY <1>0, <2>2, SlotFacts, RfIs
    <2>4. ~ (Cardinality(B) < Rf) /\ Cardinality(A) # 0
      BY <2>1, <2>3
    <2>5. k \notin PlannedCopies'
      BY <1>3, <2>4 DEF PlannedCopies, Under
    <2>6. A # {}
      BY <2>4, FS_EmptySet
    <2>7. PlannedCopies' \subseteq PlannedCopies \cup {} /\ PlannedTrims' \subseteq PlannedTrims \cup r.todo
      BY <1>3, <2>1, <2>5
    <2>8. (LeftCopies(a, {}))' /\ (LeftTrims(a, r.todo))'
      BY <1>0, <2>1, <2>7, LeftKept
    <2> QED
      BY <1>0, <2>6, <2>8
  <1>6. ASSUME j.stage = "move"
        PROVE  Moved(j.counts, f, j.to) = Counts'
    <2>1. j.to # f /\ DOMAIN j.counts = Healthy
      BY <1>0, <1>6 DEF Duty, Counting
    <2>2. \A s \in Healthy : Counts[s] = IF s = j.to THEN j.counts[s] + 1 ELSE j.counts[s]
      BY <1>0, <1>6 DEF Duty, Counting
    <2>3. ASSUME NEW s \in Healthy
          PROVE  Moved(j.counts, f, j.to)[s] = Counts'[s]
      <3>1. Counts'[s] = IF s = f THEN Counts[s] - 1 ELSE Counts[s]
        BY <1>0, <1>3, <1>4, CountsMove
      <3>2. j.counts[s] \in Int
        BY <1>0, <2>1 DEF Job, Counted
      <3>3. Moved(j.counts, f, j.to)[s] = IF s = f THEN j.counts[s] - 1 ELSE IF s = j.to THEN j.counts[s] + 1 ELSE j.counts[s]
        BY <2>1 DEF Moved
      <3> QED
        BY <2>1, <2>2, <3>1, <3>2, <3>3
    <2>4. Moved(j.counts, f, j.to) = [s \in Healthy |-> Moved(j.counts, f, j.to)[s]]
      BY <2>1 DEF Moved
    <2>5. Counts' = [s \in Healthy |-> Counts'[s]]
      BY <1>3 DEF Counts
    <2> QED
      BY <2>3, <2>4, <2>5
  <1>7. Planned(a, job[a])'
    BY <1>1, <1>2, <1>5 DEF Planned
  <1>8. Counting(a, job[a])'
    BY <1>1, <1>2, <1>6 DEF Counting
  <1>9. Vacating(a, job[a])'
    <2> SUFFICES ASSUME OpName(a) = "drain"
                 PROVE  Vacating(a, job[a])'
      BY <1>2 DEF Vacating
    <2>1. j.stage = "over"
      BY <1>0, <1>1 DEF Disc, Doing
    <2>2. \A i \in Objects : entry[i] # {} /\ OpShard(a) \notin copies[i] \cup entry[i]
      BY <1>0 DEF Duty, Vacating, Emptying
    <2>3. \A i \in Objects : entry'[i] # {} /\ OpShard(a) \notin copies'[i] \cup entry'[i]
      BY <1>0, <1>5, <2>1, <2>2
    <2> QED
      BY <1>1, <1>2, <2>1, <2>3 DEF Vacating, Emptying
  <1>10. Exact(a, job[a])'
    BY <1>1, <1>2 DEF Exact
  <1>11. Standing(a)'
    BY <1>0, <1>1, StandingKept
  <1> QED
    BY <1>1, <1>2, <1>7, <1>8, <1>9, <1>10, <1>11 DEF Course, Duty

\* Every step keeps the course.
LEMMA NextCourse ==
    ASSUME Slots > 1, NEW a \in Admins, Run(a), [AdminNext]_adminVars
    PROVE  Run(a)'
  <1>1. Sane /\ SerialInv /\ Calm /\ "attach" \notin OpsAsked
    BY RunFacts DEF Run, Course
  <1>2. SerialInv' /\ Calm'
    BY <1>1, NextSerial, NextCalm
  <1>3. Mine(a)'
    BY <1>1, SceneKept DEF Run, Mine
  <1> SUFFICES Course(a)'
    BY <1>2, <1>3 DEF Run
  <1>4. CASE Acquire(a)
    BY <1>2, <1>4, AcquireCourse
  <1>5. CASE SweepStep(a)
    <2>1. ~ SyncObjects(a) /\ ~ AttachShard(a)
      BY RunFacts DEF SyncObjects, AttachShard, AtPc
    <2> QED
      BY <1>2, <1>5, <2>1, ReadCourse, WriteCourse, DeleteCourse, ForgetCourse, CopyCourse, TrimCourse,
         StageEndsCourse, ScanCourse, SwapCourse, BeginCourse DEF SweepStep
  <1>6. CASE OperationStep(a)
    BY <1>2, <1>5, <1>6, MoveNextCourse, ReleaseCourse, HoldCourse, DrainListCourse, DrainNextCourse,
       PurgeCourse, EraseCourse, DrainSweepCourse DEF OperationStep
  <1>7. CASE UNCHANGED adminVars
    <2>1. UNCHANGED <<copies, entry, state, scene, job, running>>
      BY <1>7 DEF adminVars
    <2>2. OpName(a)' = OpName(a) /\ OpShard(a)' = OpShard(a)
      BY <2>1 DEF OpName, OpShard
    <2>3. Standing(a)'
      BY <2>1, <2>2 DEF Run, Course, Standing
    <2>4. PICK r : r = job[a]
      OBVIOUS
    <2>5. (Planned(a, r))' /\ (Counting(a, r))'
      BY <2>1, <2>2, <2>4, ViewsKept, LeftViews DEF Run, Course, Duty, Planned, Counting
    <2>6. Planned(a, job[a])' /\ Counting(a, job[a])'
      BY <2>1, <2>4, <2>5
    <2>7. Vacating(a, job[a])' /\ Exact(a, job[a])'
      BY <2>1, <2>2 DEF Run, Course, Duty, Vacating, Exact
    <2> QED
      BY <1>2, <2>1, <2>3, <2>6, <2>7 DEF Run, Course, Duty
  <1> QED
    BY <1>4, <1>6, <1>7, OnlyMine

\* It holds initially.
LEMMA InitCourse ==
    ASSUME AdminInit, scene.faults = 0, NEW a \in Admins, Mine(a)
    PROVE  Run(a)
  <1>1. Sane /\ scene \in Scene /\ Alone
    BY InitSane DEF Sane, AdminTyped, Mine
  <1>2. SerialInv
    BY <1>1, InitSerial, AloneIsSerial DEF FaultsCovered
  <1>3. job[a] = NoJob /\ job[a].pc = "idle" /\ job[Recovery].pc = "idle"
    BY NoJobIs, Names DEF AdminInit
  <1>4. Calm
    BY <1>3 DEF AdminInit, Calm, Returning
  <1>5. Standing(a) /\ running = NoOp
    BY <1>3 DEF AdminInit, Standing
  <1>6. entry = scene.placed /\ copies = scene.placed /\ \A k \in Objects : entry[k] # {}
    BY <1>1 DEF AdminInit, Scene
  <1>7. Duty(a, job[a])
    BY <1>3, <1>6 DEF Duty, Planned, Counting, Vacating, Exact, Emptying
  <1> QED
    BY <1>2, <1>4, <1>5, <1>7 DEF Run, Course

\* A drain has left every object with its copies.
LEMMA DrainDelivers ==
    ASSUME NEW a \in Admins, Run(a), OpName(a) = "drain", job[a].pc = "done", NEW k \in Objects
    PROVE  /\ OpShard(a) \notin copies[k] \cup entry[k]
           /\ Cardinality(copies[k]) >= Min({Rf, Cardinality(Healthy)})
  <1>0. Sane /\ OpShard(a) \in Slot /\ Healthy \subseteq Slot
    BY RunFacts, ShardOf
  <1>1. entry[k] # {} /\ OpShard(a) \notin copies[k] \cup entry[k] /\ PlannedCopies = {}
    BY DrainLeft DEF Run, Course, Duty, Vacating, Planned, Emptying
  <1>2. Healthy = Slot \ {OpShard(a)}
    BY <1>0 DEF Run, Course, Standing, Healthy
  <1>3. entry[k] \subseteq Healthy
    BY <1>0, <1>1, <1>2, EntryIs
  <1>4. entry[k] \subseteq copies[k]
    <2>1. ASSUME NEW w \in Workers, job[w].pc = "forget"
          PROVE  FALSE
      <3>1. Busy(w) /\ w # a
        BY <2>1 DEF Busy, Resting
      <3>2. w \notin {Recovery, "repair"}
        BY <2>1, RunFacts
      <3>3. w \in Admins /\ OpName(w) = "nothing"
        BY <3>1, <3>2, RunFacts, Names
      <3> QED
        BY <3>1, <3>3, NoAttach DEF Run, Exclusive
    <2> QED
      BY <2>1 DEF Run, SerialInv, Backed
  <1>5. Rf \in Nat /\ Cardinality(Healthy) \in Nat /\ Cardinality(entry[k]) \in Nat /\ Cardinality(copies[k]) \in Nat
        /\ Cardinality(entry[k]) <= Cardinality(copies[k])
    BY <1>0, <1>4, RfIs, SlotFacts, EntryIs
  <1>6. /\ Min({Rf, Cardinality(Healthy)}) <= Rf /\ Min({Rf, Cardinality(Healthy)}) <= Cardinality(Healthy)
        /\ Min({Rf, Cardinality(Healthy)}) \in Nat
    BY <1>5, MinTwo
  <1>7. CASE k \in Under
    <2>1. CopySources(k) # {}
      BY <1>1, <1>3 DEF CopySources
    <2>2. Healthy \subseteq entry[k]
      BY <1>1, <1>7, <2>1 DEF PlannedCopies, CopyTargets
    <2>3. entry[k] = Healthy
      BY <1>3, <2>2
    <2> QED
      BY <1>1, <1>5, <1>6, <2>3
  <1>8. CASE k \notin Under
    <2>1. {s \in entry[k] : state[s] \in {"Healthy", "Syncing"}} = entry[k]
      BY <1>3 DEF Healthy
    <2>2. ~ (Cardinality(entry[k]) < Rf)
      BY <1>1, <1>8, <2>1 DEF Under
    <2> QED
      BY <1>1, <1>5, <1>6, <2>2
  <1> QED
    BY <1>7, <1>8

\* What an operation of the admin API that runs alone, on devices that answer,
\* has achieved when it ends, for any number of shards but one, any placement
\* of the objects, any factor and any batch: of the plan of repair-replication
\* nothing is left but objects that its one batch had no room for (500 in the
\* code, repair.rs:1029 and 1089), redistribute has made the counts even, has
\* nothing left to move or has moved a batch (repair.rs:1283), a drained shard
\* is empty and its objects have their copies elsewhere, cross-verify has made
\* the catalog what the shards hold.
THEOREM OperationsAlwaysDeliver ==
    Slots > 1 /\ AdminInit /\ [][AdminNext]_adminVars => []OperationsDeliver
  <1> DEFINE I == Slots > 1 /\ Sane /\ \A a \in Admins : scene.faults = 0 /\ Mine(a) => Run(a)
  <1>1. Slots > 1 /\ AdminInit => I
    BY InitSane, InitCourse
  <1>2. I /\ [AdminNext]_adminVars => I'
    <2> SUFFICES ASSUME I, [AdminNext]_adminVars
                 PROVE  I'
      OBVIOUS
    <2>1. Sane' /\ scene'.faults = scene.faults /\ \A a \in Admins : Mine(a)' => Mine(a)
      BY NextSane, SceneKept DEF Mine
    <2> QED
      BY <2>1, NextCourse
  <1>3. I => OperationsDeliver
    <2> SUFFICES ASSUME I, NEW a \in Admins, Alone, scene.faults = 0, job[a].pc = "done"
                 PROVE  CASE OpName(a) = "repair-replication" ->
                                /\ \E beyond \in BeyondBatch(Short) : PlannedCopies \subseteq beyond
                                /\ \E beyond \in BeyondBatch(Surplus) : PlannedTrims \subseteq beyond
                          [] OpName(a) = "redistribute" ->
                                \/ Under # {} \/ Balanced(Counts) \/ job[a].moved >= AdminBatch
                                \/ \E src \in Fullest(Counts), dst \in Emptiest(Counts) :
                                        Movable(Counts, src, dst) = {}
                          [] OpName(a) = "drain" ->
                                \A k \in Objects :
                                    /\ OpShard(a) \notin copies[k] \cup entry[k]
                                    /\ Cardinality(copies[k]) >= Min({Rf, Cardinality(Healthy)})
                          [] OpName(a) = "cross-verify" -> entry = copies
                          [] OTHER -> TRUE
      BY DEF OperationsDeliver, AtPc
    <2>1. CASE OpName(a) = "drain"
      <3>1. Run(a)
        BY <2>1 DEF Mine, Exclusive
      <3>2. \A k \in Objects : /\ OpShard(a) \notin copies[k] \cup entry[k]
                               /\ Cardinality(copies[k]) >= Min({Rf, Cardinality(Healthy)})
        BY <2>1, <3>1, DrainDelivers
      <3> QED
        BY <2>1, <3>2
    <2>2. CASE OpName(a) \in {"repair-replication", "redistribute", "cross-verify"}
      <3>1. Run(a)
        BY <2>2 DEF Mine, Exclusive
      <3>2. /\ OpName(a) = "repair-replication" => LeftCopies(a, {}) /\ LeftTrims(a, {})
            /\ OpName(a) = "redistribute" => job[a].moved >= AdminBatch \/ Settled
            /\ OpName(a) = "cross-verify" => entry = copies
        BY <3>1 DEF Run, Course, Duty, Planned, Counting, Exact
      <3>3. OpName(a) = "repair-replication" =>
                /\ \E beyond \in BeyondBatch(Short) : PlannedCopies \subseteq beyond
                /\ \E beyond \in BeyondBatch(Surplus) : PlannedTrims \subseteq beyond
        BY <3>2 DEF LeftCopies, LeftTrims, LeftOut
      <3> QED
        BY <2>2, <3>2, <3>3 DEF Settled
    <2>3. CASE OpName(a) \notin {"repair-replication", "redistribute", "cross-verify", "drain"}
      BY <2>3
    <2> QED
      BY <2>1, <2>2, <2>3
  <1> QED
    BY <1>1, <1>2, <1>3, PTL
=============================================================================
