--------------------------- MODULE ShardedProofs ---------------------------
EXTENDS ShardedStore, InductionLemmas, FiniteSetTheorems

(***************************************************************************)
(* Proofs about the replicated object of shardedobjstr (lib.rs, repair.rs):*)
(* what reads return and what survives when shards fail, come back stale   *)
(* and are synchronised, for any number of shards.                         *)
(*                                                                         *)
(* The argument follows the times that put_object, the delete markers and  *)
(* sync_and_reattach compare. From the last acknowledged put on there is a *)
(* time L such that every copy as late as L is current and every marker is *)
(* earlier (Since); the entry in the catalog leads to such a copy, because *)
(* every shard in service is in it (OnMirrors) or because two shards are   *)
(* (OnParts), and a sync reads only these. For deletes the times are not   *)
(* enough: the shards in service have to agree (Mirrors).                  *)
(***************************************************************************)

\* Types: the states of a shard, the steps of a sync, copies, the shards and
\* the catalog.
Healths == {"Healthy", "Degraded", "Offline", "Detached", "Syncing"}
Steps == {"idle", "mirror", "copy", "replay", "refresh", "markers", "attach", "scan"}
Copy == [val : Nat, mtime : Nat]
Stores == [Keys -> [Shards -> Copy]]
Catalogs == [Keys -> [shards : SUBSET Shards, updated : Nat]]

\* The object's and its marker's copy on a shard, and the object's catalog
\* entry.
Obj(s) == store["object"][s]
Mark(s) == store["marker"][s]
Entry == cat["object"]
\* The shards a client writes to.
Writable(h) == {s \in Shards : h[s] \in {"Healthy", "Degraded"}}

\* One copy on every shard: any number of shards away, unnoticed faults or
\* catalog rebuilds, but not both.
MirrorSetting(x) == x.rf = N /\ ~ (x.errors /\ x.rebuild)
\* Fewer copies than shards, but two: one shard away at a time.
PartSetting(x) == x.rf \in 2..(N - 1) /\ x.out <= 1 /\ ~ x.errors /\ ~ x.rebuild
\* What the theorem on reads covers. Clients do not run while a shard syncs:
\* put and delete do not know of sync_and_reattach, and in between them a read
\* can return anything that was ever written.
Supported(x) == ~ x.during /\ (MirrorSetting(x) \/ PartSetting(x))

\* The types.
Typed ==
    /\ store \in Stores
    /\ cat \in Catalogs
    /\ health \in [Shards -> Healths]
    /\ held \subseteq Shards /\ down \subseteq Shards
    /\ sync \in [shard : Shards, step : Steps]
    /\ clock \in Nat \ {0} /\ puts \in Nat /\ expect \subseteq Nat /\ set \in Setting

\* A copy was written before now, and a marker does not name a later time.
Dated ==
    /\ \A k \in Keys, s \in Shards :
          store[k][s] = Absent \/ (store[k][s].val > 0 /\ store[k][s].mtime \in 1..(clock - 1))
    /\ \A s \in Shards : Mark(s).val < clock

\* A sync is of the shard that is Syncing, and a held shard is out of
\* service.
Phases ==
    /\ sync.step = "idle" <=> sync = NoSync
    /\ sync # NoSync => health[target] = "Syncing"
    /\ \A s \in Shards : health[s] = "Syncing" => sync # NoSync /\ s = target
    /\ set.rf = N => sync.step \in {"idle", "mirror", "attach", "scan"}
    /\ set.rf # N => sync.step # "mirror"
    /\ \A s \in held : health[s] \in Unavailable \cup {"Syncing"}
    /\ sync.step = "scan" => target \notin held

\* If faults are noticed, no shard is half in service.
Quiet ==
    ~ set.errors => /\ \A s \in Shards : health[s] # "Degraded"
                    /\ sync # NoSync => target \notin down

\* With fewer copies than shards one shard is away at most.
Lone == set.rf # N => \A s, t \in Away : s = t

\* What the proofs about the object rest on.
Base == Typed /\ Dated /\ Phases /\ Quiet /\ Lone

\* A set of two elements or more.
Two(S) == \E a, b \in S : a # b

----------------------------------------------------------------------------

\* The shards are N, and counting them and a part of them is defined.
LEMMA ShardsFinite ==
    /\ IsFiniteSet(Shards) /\ Cardinality(Shards) = N
    /\ \A S \in SUBSET Shards : IsFiniteSet(S) /\ Cardinality(S) \in Nat /\ Cardinality(S) <= N
    /\ N \in Nat /\ N >= 1 /\ 0 \in Shards
  <1>1. N \in Nat /\ N >= 1
    BY ShardedAssumption
  <1>2. IsFiniteSet(Shards) /\ Cardinality(Shards) = N
    BY <1>1, FS_Interval DEF Shards
  <1>3. \A S \in SUBSET Shards : IsFiniteSet(S) /\ Cardinality(S) \in Nat /\ Cardinality(S) <= N
    BY <1>2, FS_Subset, FS_CardinalityType
  <1> QED
    BY <1>1, <1>2, <1>3 DEF Shards

\* What a write to a set of shards changes.
LEMMA WriteToIs ==
    ASSUME NEW st \in Stores, NEW k \in Keys, NEW S, NEW c \in Copy
    PROVE  /\ WriteTo(st, k, S, c) \in Stores
           /\ \A s \in Shards : WriteTo(st, k, S, c)[k][s] = IF s \in S THEN c ELSE st[k][s]
           /\ \A j \in Keys : j # k => WriteTo(st, k, S, c)[j] = st[j]
  BY DEF WriteTo, Stores

\* The copy that is not there.
LEMMA AbsentIs == Absent \in Copy /\ Absent.val = 0 /\ Absent.mtime = 0
  BY DEF Absent, Copy

\* The entry that is not there.
LEMMA NoEntryIs == NoEntry.shards = {} /\ NoEntry.updated = 0
  BY DEF NoEntry

\* A delete reaches the resolved shards that answer.
LEMMA DeletedStoreIs ==
    ASSUME NEW st \in Stores, NEW c \in Catalogs, NEW h \in [Shards -> Healths], NEW k \in Keys
    PROVE  /\ DeletedStore(st, c, h, k) \in Stores
           /\ \A j \in Keys : j # k => DeletedStore(st, c, h, k)[j] = st[j]
           /\ \A s \in Shards : DeletedStore(st, c, h, k)[k][s] =
                 IF s \in Resolve(k, c, h) /\ Answers(s) THEN Absent ELSE st[k][s]
  <1> DEFINE S == {s \in Resolve(k, c, h) : Answers(s)}
  <1>1. DeletedStore(st, c, h, k) = WriteTo(st, k, S, Absent)
    BY DEF DeletedStore
  <1>2. \A s : s \in S <=> s \in Resolve(k, c, h) /\ Answers(s)
    OBVIOUS
  <1> HIDE DEF S
  <1> QED
    BY <1>1, <1>2, WriteToIs, AbsentIs

\* Adding a shard to an entry leaves the other keys and its date alone.
LEMMA AddReplicaIs ==
    ASSUME NEW c \in Catalogs, NEW k \in Keys, NEW s \in Shards, NEW now \in Nat
    PROVE  /\ AddReplica(c, k, s, now) \in Catalogs
           /\ \A j \in Keys : j # k => AddReplica(c, k, s, now)[j] = c[j]
           /\ AddReplica(c, k, s, now)[k].shards = c[k].shards \cup {s}
           /\ c[k].shards # {} => AddReplica(c, k, s, now)[k].updated = c[k].updated
  BY DEF AddReplica, Catalogs

\* Removing shards from an entry keeps its date while a shard is left.
LEMMA RemoveShardsIs ==
    ASSUME NEW c \in Catalogs, NEW k \in Keys, NEW S
    PROVE  /\ RemoveShards(c, k, S) \in Catalogs
           /\ \A j \in Keys : j # k => RemoveShards(c, k, S)[j] = c[j]
           /\ RemoveShards(c, k, S)[k].shards = c[k].shards \ S
           /\ ~ (c[k].shards \subseteq S) => RemoveShards(c, k, S)[k].updated = c[k].updated
  BY DEF RemoveShards, Catalogs, NoEntry

\* A delete that every resolved shard answers removes the entry.
LEMMA DeletedCatalogIs ==
    ASSUME NEW c \in Catalogs, NEW h \in [Shards -> Healths], NEW k \in Keys
    PROVE  /\ DeletedCatalog(c, h, k) \in Catalogs
           /\ \A j \in Keys : j # k => DeletedCatalog(c, h, k)[j] = c[j]
           /\ DeletedCatalog(c, h, k)[k].shards \subseteq c[k].shards
           /\ (\A s \in Resolve(k, c, h) : Answers(s)) => DeletedCatalog(c, h, k)[k].shards = {}
  <1> DEFINE contacted == Resolve(k, c, h)
             deleted == {s \in contacted : Answers(s)}
  <1>1. CASE deleted = contacted
    <2>1. DeletedCatalog(c, h, k) = [c EXCEPT ![k] = NoEntry]
      BY <1>1 DEF DeletedCatalog
    <2> HIDE DEF contacted, deleted
    <2> QED
      BY <2>1 DEF Catalogs, NoEntry
  <1>2. CASE deleted # contacted
    <2>1. DeletedCatalog(c, h, k) = RemoveShards(c, k, deleted)
      BY <1>2 DEF DeletedCatalog
    <2>2. ~ \A s \in Resolve(k, c, h) : Answers(s)
      BY <1>2
    <2> HIDE DEF contacted, deleted
    <2> QED
      BY <2>1, <2>2, RemoveShardsIs
  <1> QED
    BY <1>1, <1>2

\* A read found without an entry makes one, and changes no entry.
LEMMA RediscoveredIs ==
    ASSUME NEW c \in Catalogs, NEW k \in Keys, NEW s \in Shards, NEW now \in Nat
    PROVE  /\ Rediscovered(c, k, s, now) \in Catalogs
           /\ \A j \in Keys : j # k => Rediscovered(c, k, s, now)[j] = c[j]
           /\ c[k].shards # {} => Rediscovered(c, k, s, now)[k] = c[k]
  BY AddReplicaIs DEF Rediscovered

\* What an attempt r to write to the shards T yields.
Attempted(T, h, r) ==
    /\ r.placed \subseteq Shards
    /\ r.health \in [Shards -> Healths]
    /\ \A s \in r.placed : Answers(s)
    /\ \A s \in Shards :
          \/ r.health[s] = h[s] /\ (s \in T => s \in r.placed \/ h[s] # "Healthy")
          \/ h[s] = "Healthy" /\ r.health[s] = "Degraded" /\ s \notin r.placed
          \/ s \in T /\ r.health[s] = "Offline" /\ s \notin r.placed
    /\ (\A s \in T : Answers(s)) /\ T # {} => r = [placed |-> T, health |-> h]
    /\ r.placed = {} => \A s \in T : r.health[s] = "Offline"

\* So does every attempt to write, whichever shards answer.
LEMMA AttemptIs ==
    ASSUME NEW k, NEW T \in SUBSET Shards, NEW h \in [Shards -> Healths]
    PROVE  Attempted(T, h, Attempt(k, T, h))
  <1> DEFINE first == {s \in T : Answers(s)}
             offline == [s \in Shards |-> IF s \in T THEN "Offline" ELSE h[s]]
             hurt == [s \in Shards |-> IF s \in T \ first /\ h[s] = "Healthy" THEN "Degraded" ELSE h[s]]
  <1>1. CASE first # {}
    <2>1. Attempt(k, T, h) = [placed |-> first, health |-> hurt]
      BY <1>1 DEF Attempt
    <2>2. hurt \in [Shards -> Healths]
      BY DEF Healths
    <2>3. (\A s \in T : Answers(s)) => first = T
      OBVIOUS
    <2>4. first = T => hurt = h
      OBVIOUS
    <2>5. \A s \in Shards : hurt[s] = IF s \in T \ first /\ h[s] = "Healthy" THEN "Degraded" ELSE h[s]
      OBVIOUS
    <2>6. \A s : s \in first <=> s \in T /\ Answers(s)
      OBVIOUS
    <2> HIDE DEF first, hurt
    <2> QED
      BY <1>1, <2>1, <2>2, <2>3, <2>4, <2>5, <2>6 DEF Attempted
  <1>2. CASE first = {}
    <2> DEFINE P == {s \in SelectTargets(k, offline) \ T : Answers(s)}
    <2>1. Attempt(k, T, h) = [placed |-> P, health |-> offline]
      BY <1>2 DEF Attempt
    <2>2. offline \in [Shards -> Healths]
      BY DEF Healths
    <2>3. P \subseteq Shards /\ \A s \in P : Answers(s) /\ s \notin T
      BY DEF SelectTargets
    <2>4. \A s \in Shards : offline[s] = IF s \in T THEN "Offline" ELSE h[s]
      OBVIOUS
    <2>5. ~ ((\A s \in T : Answers(s)) /\ T # {})
      BY <1>2
    <2> HIDE DEF P, offline, first
    <2> QED
      BY <2>1, <2>2, <2>3, <2>4, <2>5 DEF Attempted
  <1> QED
    BY <1>1, <1>2

\* A set of shards has a least one.
LEMMA MinIs ==
    ASSUME NEW S \in SUBSET Shards, S # {}
    PROVE  Min(S) \in S
  <1>1. S \subseteq Nat
    BY DEF Shards
  <1>2. \E x \in S : \A y \in S : x =< y
    BY <1>1, LeastNat
  <1> QED
    BY <1>2, Zenon DEF Min

\* The distance from the home of a key tells shards apart.
LEMMA DistanceIs ==
    ASSUME NEW k \in Keys
    PROVE  /\ \A s \in Shards : Distance(k, s) \in Nat
           /\ \A s, t \in Shards : Distance(k, s) = Distance(k, t) => s = t
  <1>1. Home[k] \in Shards
    BY ShardedAssumption
  <1> QED
    BY <1>1, ShardsFinite, SMTT(30) DEF Distance, Shards

\* The writable shard that is nearest to the home of a key.
LEMMA Nearest ==
    ASSUME NEW k \in Keys, NEW W \in SUBSET Shards, W # {}
    PROVE  \E a \in W : \A r \in W : Distance(k, a) <= Distance(k, r)
  <1> DEFINE D == {Distance(k, s) : s \in W}
  <1>1. D \subseteq Nat /\ D # {}
    BY DistanceIs
  <1>2. PICK d \in D : \A m \in D : d <= m
    BY <1>1, LeastNat
  <1>3. PICK a \in W : d = Distance(k, a)
    BY <1>2
  <1>4. \A r \in W : Distance(k, r) \in D
    OBVIOUS
  <1> QED
    BY <1>2, <1>3, <1>4

\* With one copy per shard a put is for every shard in service.
LEMMA TargetsAll ==
    ASSUME set \in Setting, set.rf = N, NEW k \in Keys, NEW h \in [Shards -> Healths]
    PROVE  SelectTargets(k, h) = Writable(h)
  <1> DEFINE Before(s) == {r \in Writable(h) : Distance(k, r) < Distance(k, s)}
  <1>1. ASSUME NEW s \in Writable(h)
        PROVE  Cardinality(Before(s)) < N
    <2>1. s \in Shards /\ Distance(k, s) \in Nat
      BY DistanceIs DEF Writable
    <2>2. Before(s) \subseteq Shards \ {s}
      BY <2>1 DEF Writable
    <2>3. IsFiniteSet(Shards \ {s}) /\ Cardinality(Shards \ {s}) = N - 1
      BY <2>1, ShardsFinite, FS_RemoveElement
    <2>4. Cardinality(Before(s)) <= N - 1 /\ Cardinality(Before(s)) \in Nat
      BY <2>2, <2>3, FS_Subset, FS_CardinalityType
    <2> QED
      BY <2>4, ShardsFinite
  <1> QED
    BY <1>1 DEF SelectTargets, Writable

\* With two copies or more a put is for two shards, if two are in service.
LEMMA TargetsTwo ==
    ASSUME set \in Setting, set.rf >= 2, NEW k \in Keys, NEW h \in [Shards -> Healths],
           Two(Writable(h))
    PROVE  Two(SelectTargets(k, h))
  <1> DEFINE W == Writable(h)
             Before(s) == {r \in W : Distance(k, r) < Distance(k, s)}
  <1>0. W \subseteq Shards /\ W # {}
    BY DEF Writable, Two
  <1>1. PICK a \in W : \A r \in W : Distance(k, a) <= Distance(k, r)
    BY <1>0, Nearest
  <1>2. W \ {a} # {} /\ W \ {a} \subseteq Shards
    BY <1>0 DEF Two
  <1>3. PICK b \in W \ {a} : \A r \in W \ {a} : Distance(k, b) <= Distance(k, r)
    BY <1>2, Nearest
  <1>4. \A s \in W : Distance(k, s) \in Nat
    BY <1>0, DistanceIs
  <1> HIDE DEF W
  <1>5. Before(a) = {}
    BY <1>1, <1>4
  <1>6. Before(b) \subseteq {a}
    BY <1>3, <1>4
  <1>7. Cardinality(Before(a)) = 0
    BY <1>5, FS_EmptySet, Zenon
  <1>8. Cardinality(Before(b)) \in Nat /\ Cardinality(Before(b)) <= 1
    <2> HIDE DEF Before
    <2>1. IsFiniteSet({a}) /\ Cardinality({a}) = 1
      BY FS_Singleton
    <2> QED
      BY <1>6, <2>1, FS_Subset, FS_CardinalityType
  <1>9. set.rf \in Nat
    BY ShardsFinite DEF Setting
  <1>10. \A s \in W : Cardinality(Before(s)) < set.rf => s \in SelectTargets(k, h)
    BY DEF W, SelectTargets, Writable
  <1>11. Cardinality(Before(a)) < set.rf /\ Cardinality(Before(b)) < set.rf
    BY <1>7, <1>8, <1>9
  <1>12. a \in SelectTargets(k, h) /\ b \in SelectTargets(k, h) /\ a # b
    BY <1>10, <1>11, <1>3
  <1> QED
    BY <1>12 DEF Two
----------------------------------------------------------------------------
\* What a client's step does to the health of the shards.
Hurt(h) ==
    \A s \in Shards : h[s] = health[s]
                     \/ (health[s] \in {"Healthy", "Degraded"} /\ h[s] \in {"Degraded", "Offline"})

\* What clients see: no shard syncs, and unless faults go unnoticed every
\* available shard answers.
LEMMA ClientsSee ==
    ASSUME Base, Supported(set), ClientsRun
    PROVE  /\ sync = NoSync
           /\ \A s \in Shards : health[s] # "Syncing"
           /\ Available(health) = Writable(health)
           /\ ~ set.errors => \A s \in Writable(health) : Answers(s)
  <1>1. sync = NoSync
    BY DEF ClientsRun, Supported
  <1>2. \A s \in Shards : health[s] # "Syncing"
    BY <1>1 DEF Base, Phases
  <1>3. health \in [Shards -> Healths]
    BY DEF Base, Typed
  <1>4. Available(health) = Writable(health)
    BY <1>2, <1>3 DEF Available, Writable, Healths, Unavailable
  <1>5. ASSUME ~ set.errors, NEW s \in Writable(health)
        PROVE  Answers(s)
    BY <1>5 DEF ClientsRun, Noticed, Base, Phases, Writable, Answers, Unavailable
  <1> QED
    BY <1>1, <1>2, <1>4, <1>5

\* Where the shards of a put end up: a shard that stays Healthy has it.
LEMMA PutOnce ==
    ASSUME Base, Supported(set), ClientsRun, SelectTargets("object", health) # {}
    PROVE  /\ PutAttempt.placed \in SUBSET Shards
           /\ PutAttempt.health \in [Shards -> Healths]
           /\ Hurt(PutAttempt.health)
           /\ set.rf = N => \A s \in Shards :
                                PutAttempt.health[s] = "Healthy" => s \in PutAttempt.placed
           /\ \A s \in PutAttempt.placed : health[s] \in {"Healthy", "Degraded"}
           /\ ~ set.errors => /\ PutAttempt.health = health
                              /\ PutAttempt.placed = SelectTargets("object", health)
  <1> DEFINE T == SelectTargets("object", health)
             one == Attempt("object", T, health)
             retry == SelectTargets("object", one.health)
  <1>0. /\ set \in Setting /\ health \in [Shards -> Healths] /\ "object" \in Keys
        /\ T \subseteq Writable(health) /\ Writable(health) \subseteq Shards
    BY DEF Base, Typed, Keys, Writable, SelectTargets
  <1>1. Attempted(T, health, one)
    <2> HIDE DEF T
    <2>1. T \in SUBSET Shards /\ health \in [Shards -> Healths]
      BY <1>0
    <2> QED
      BY <2>1, AttemptIs, Zenon
  <1>2. PutAttempt = IF one.placed # {} \/ retry \in {{}, T} THEN one
                     ELSE Attempt("object", retry, one.health)
    BY DEF PutAttempt
  <1>3. set.rf = N => T = Writable(health)
    BY <1>0, TargetsAll
  <1>4. set.rf = N => retry = Writable(one.health)
    BY <1>0, <1>1, TargetsAll DEF Attempted
  <1>5. ~ set.errors => \A s \in T : Answers(s)
    BY <1>0, ClientsSee
  <1>6. set.rf # N => ~ set.errors
    BY DEF Supported, MirrorSetting, PartSetting
  <1>7. one.placed \subseteq Writable(health)
    <2>1. CASE {s \in T : Answers(s)} # {}
      BY <2>1, <1>0 DEF Attempt
    <2>2. CASE {s \in T : Answers(s)} = {}
      <3> DEFINE offline == [s \in Shards |-> IF s \in T THEN "Offline" ELSE health[s]]
      <3>1. one.placed \subseteq SelectTargets("object", offline) \ T
        BY <2>2 DEF Attempt
      <3>2. SelectTargets("object", offline) \subseteq Writable(offline)
        BY DEF SelectTargets, Writable
      <3>3. Writable(offline) \subseteq Writable(health)
        BY DEF Writable
      <3> QED
        BY <3>1, <3>2, <3>3
    <2> QED
      BY <2>1, <2>2
  <1>8. T # {}
    OBVIOUS
  <1>9. PutAttempt = one
    <2>1. CASE set.rf = N
      <3>1. CASE one.placed = {}
        <4> HIDE DEF T, one, retry
        <4>1. \A s \in Shards : one.health[s] \notin {"Healthy", "Degraded"}
          BY <2>1, <3>1, <1>0, <1>1, <1>3 DEF Writable, Attempted
        <4>2. retry = {}
          BY <2>1, <1>4, <4>1 DEF Writable
        <4> QED
          BY <4>2, <1>2
      <3> QED
        BY <1>2, <3>1
    <2>2. CASE set.rf # N
      <3> HIDE DEF T, one, retry
      <3> QED
        BY <2>2, <1>1, <1>2, <1>5, <1>6, <1>8 DEF Attempted
    <2> QED
      BY <2>1, <2>2
  <1>10. /\ PutAttempt.health = one.health
         /\ PutAttempt.placed = one.placed
    BY <1>9
  <1> HIDE DEF T, one, retry
  <1>11. Hurt(one.health)
    <2> SUFFICES ASSUME NEW s \in Shards
                 PROVE  one.health[s] = health[s]
                        \/ (health[s] \in {"Healthy", "Degraded"} /\ one.health[s] \in {"Degraded", "Offline"})
      BY DEF Hurt
    <2>1. s \in T => health[s] \in {"Healthy", "Degraded"}
      BY <1>0 DEF Writable
    <2> QED
      BY <1>1, <2>1 DEF Attempted
  <1>12. ~ set.errors => one = [placed |-> T, health |-> health]
    BY <1>1, <1>5, <1>8 DEF Attempted
  <1>13. ~ set.errors => PutAttempt.health = health /\ PutAttempt.placed = SelectTargets("object", health)
    BY <1>10, <1>12 DEF T
  <1>14. set.rf = N => \A s \in Shards : one.health[s] = "Healthy" => s \in one.placed
    BY <1>0, <1>1, <1>3 DEF Writable, Attempted
  <1>15. \A s \in one.placed : health[s] \in {"Healthy", "Degraded"}
    BY <1>7 DEF Writable
  <1> QED
    BY <1>1, <1>10, <1>11, <1>13, <1>14, <1>15 DEF Attempted

\* With fewer copies than shards an object is put on two shards.
LEMMA PutTwo ==
    ASSUME Base, Supported(set), ClientsRun, SelectTargets("object", health) # {}, set.rf # N
    PROVE  Two(PutAttempt.placed)
  <1>1. /\ ~ set.errors /\ set.rf >= 2 /\ set.rf < N /\ set.rf \in Nat
        /\ health \in [Shards -> Healths] /\ set \in Setting /\ "object" \in Keys
    BY ShardsFinite DEF Supported, MirrorSetting, PartSetting, Base, Typed, Keys, Setting
  <1>2. \A s \in Shards : s \notin Away => s \in Writable(health)
    BY <1>1 DEF Away, Writable, Unavailable, Healths
  <1>3. 0 \in Shards /\ 1 \in Shards /\ 2 \in Shards
    BY <1>1, ShardsFinite DEF Shards
  <1>4. \A s, t \in Away : s = t
    BY DEF Base, Lone
  <1>5. Two(Writable(health))
    <2>1. CASE 0 \in Away
      BY <2>1, <1>2, <1>3, <1>4 DEF Two
    <2>2. CASE 1 \in Away
      BY <2>2, <1>2, <1>3, <1>4 DEF Two
    <2>3. CASE 0 \notin Away /\ 1 \notin Away
      BY <2>3, <1>2, <1>3 DEF Two
    <2> QED
      BY <2>1, <2>2, <2>3
  <1>6. Two(SelectTargets("object", health))
    BY <1>1, <1>5, TargetsTwo
  <1> QED
    BY <1>1, <1>6, PutOnce

\* What writing a marker does to the states of the shards.
LEMMA DeleteOnce ==
    ASSUME Base, Supported(set), ClientsRun, Available(health) # {}
    PROVE  LET r == Attempt("marker", Available(health), health) IN
           /\ r.placed \in SUBSET Shards
           /\ r.health \in [Shards -> Healths]
           /\ Hurt(r.health)
           /\ ~ set.errors => r.health = health
  <1> DEFINE T == Available(health)
             one == Attempt("marker", T, health)
  <1>0. health \in [Shards -> Healths] /\ T = Writable(health) /\ T \subseteq Shards /\ T # {}
    BY ClientsSee DEF Base, Typed, Available
  <1>1. Attempted(T, health, one)
    <2> HIDE DEF T
    <2>1. T \in SUBSET Shards /\ health \in [Shards -> Healths]
      BY <1>0
    <2> QED
      BY <2>1, AttemptIs, Zenon
  <1>2. ~ set.errors => \A s \in T : Answers(s)
    BY <1>0, ClientsSee
  <1> HIDE DEF T, one
  <1>3. Hurt(one.health)
    <2> SUFFICES ASSUME NEW s \in Shards
                 PROVE  one.health[s] = health[s]
                        \/ (health[s] \in {"Healthy", "Degraded"} /\ one.health[s] \in {"Degraded", "Offline"})
      BY DEF Hurt
    <2>1. s \in T => health[s] \in {"Healthy", "Degraded"}
      BY <1>0 DEF Writable
    <2> QED
      BY <1>1, <2>1 DEF Attempted
  <1>4. ~ set.errors => one.health = health
    BY <1>0, <1>1, <1>2 DEF Attempted
  <1> QED
    BY <1>1, <1>3, <1>4 DEF T, one, Attempted
----------------------------------------------------------------------------
\* Only the number of outages left changes in a setting.
SameSetting ==
    /\ set' \in Setting /\ set'.rf = set.rf /\ set'.out = set.out /\ set'.errors = set.errors
    /\ set'.during = set.during /\ set'.rebuild = set.rebuild

\* No step changes the setting, but for the outages left.
LEMMA SettingStays ==
    ASSUME set \in Setting, [Next]_vars
    PROVE  SameSetting
  <1>1. CASE set' = set
    BY <1>1 DEF SameSetting
  <1>2. CASE set.outages > 0 /\ set' = [set EXCEPT !.outages = @ - 1]
    <2>1. set.outages - 1 \in Nat
      BY <1>2 DEF Setting
    <2> QED
      BY <1>2, <2>1 DEF SameSetting, Setting
  <1>3. \/ set' = set
        \/ set.outages > 0 /\ set' = [set EXCEPT !.outages = @ - 1]
    BY DEF Next, vars, Put, PutFails, Delete, DeleteFails, Get, Fail, Return, Detach, HoldOffline,
           ReleaseHold, RebuildCatalog, Replicate, Trim, VacuumMarker, VacuumObject, SyncStep,
           SyncBegin, SyncCopy, SyncReplay, SyncRefresh, SyncMarkers, SyncMirror, Attach, Scan, Outage
  <1> QED
    BY <1>1, <1>2, <1>3

\* The two keys.
LEMMA KeysAre == "object" \in Keys /\ "marker" \in Keys /\ \A k \in Keys : k = "object" \/ k = "marker"
  BY DEF Keys

\* The shard that syncs is a shard.
LEMMA TargetTyped ==
    ASSUME Typed
    PROVE  target \in Shards
  BY DEF Typed, target

\* A store of which one copy changes.
WithCopy(k, s, c) == [store EXCEPT ![k][s] = c]

\* What the change of one copy changes.
LEMMA OneCopyIs ==
    ASSUME NEW k \in Keys, NEW s \in Shards, NEW c \in Copy, store \in Stores
    PROVE  /\ WithCopy(k, s, c) \in Stores
           /\ \A j \in Keys : j # k => WithCopy(k, s, c)[j] = store[j]
           /\ \A r \in Shards : WithCopy(k, s, c)[k][r] = IF r = s THEN c ELSE store[k][r]
  BY DEF Stores, WithCopy

----------------------------------------------------------------------------
(* What each operation does to the stores and to the catalog.              *)

\* What a put changes.
LEMMA PutDoes ==
    ASSUME Base, Supported(set), Put
    PROVE  LET P == PutAttempt.placed IN
           /\ store' \in Stores /\ cat' \in Catalogs
           /\ \A s \in Shards : Obj(s)' = IF s \in P THEN [val |-> puts + 1, mtime |-> clock] ELSE Obj(s)
           /\ \A s \in Shards : Mark(s)' \in {Mark(s), Absent}
           /\ Entry' = [shards |-> P, updated |-> clock + 1]
           /\ health' = PutAttempt.health /\ sync = NoSync /\ ClientsRun
           /\ P # {} /\ SelectTargets("object", health) # {}
  <1> DEFINE P == PutAttempt.placed
             h == PutAttempt.health
             copy == [val |-> puts + 1, mtime |-> clock]
             written == WriteTo(store, "object", P, copy)
             entered == [cat EXCEPT !["object"] = [shards |-> P, updated |-> clock + 1]]
  <1>1. /\ ClientsRun /\ SelectTargets("object", health) # {}
        /\ Cardinality(P) >= MinWrites
        /\ store' = DeletedStore(written, entered, h, "marker")
        /\ cat' = DeletedCatalog(entered, h, "marker")
        /\ health' = h
    BY DEF Put
  <1>2. P \in SUBSET Shards /\ h \in [Shards -> Healths]
    BY <1>1, PutOnce
  <1>3. /\ store \in Stores /\ cat \in Catalogs /\ clock \in Nat /\ puts \in Nat /\ set \in Setting
        /\ copy \in Copy /\ clock + 1 \in Nat
    BY DEF Base, Typed, Copy
  <1> HIDE DEF P, h, copy
  <1>4. /\ written \in Stores
        /\ \A s \in Shards : written["object"][s] = IF s \in P THEN copy ELSE store["object"][s]
        /\ written["marker"] = store["marker"]
    BY <1>3, KeysAre, WriteToIs
  <1>5. /\ entered \in Catalogs
        /\ entered["object"] = [shards |-> P, updated |-> clock + 1]
    BY <1>2, <1>3, KeysAre DEF Catalogs
  <1> HIDE DEF written, entered
  <1>6. /\ store' \in Stores
        /\ store'["object"] = written["object"]
        /\ \A s \in Shards : store'["marker"][s] \in {written["marker"][s], Absent}
    BY <1>1, <1>2, <1>4, <1>5, KeysAre, DeletedStoreIs
  <1>7. cat' \in Catalogs /\ cat'["object"] = entered["object"]
    BY <1>1, <1>2, <1>5, KeysAre, DeletedCatalogIs
  <1>8. P # {}
    <2>1. MinWrites >= 1 /\ MinWrites \in Nat
      BY <1>3, ShardsFinite DEF MinWrites, Setting
    <2>2. P = {} => Cardinality(P) = 0
      BY FS_EmptySet, Zenon
    <2> QED
      BY <1>1, <2>1, <2>2
  <1>9. sync = NoSync
    BY <1>1, ClientsSee
  <1> QED
    BY <1>1, <1>4, <1>5, <1>6, <1>7, <1>8, <1>9 DEF P, h, copy, Obj, Mark, Entry

\* What a put that failed changes.
LEMMA PutFailsDoes ==
    ASSUME Base, Supported(set), PutFails
    PROVE  LET P == PutAttempt.placed IN
           /\ store' \in Stores /\ cat' = cat
           /\ Entry.shards # {} =>
                \A s \in Shards : Obj(s)' = IF s \in P THEN [val |-> puts + 1, mtime |-> clock] ELSE Obj(s)
           /\ Entry.shards = {} =>
                \A s \in Shards : Obj(s)' = IF s \in P THEN Absent ELSE Obj(s)
           /\ \A s \in Shards : Mark(s)' = Mark(s)
           /\ health' = PutAttempt.health /\ sync = NoSync /\ ClientsRun
           /\ SelectTargets("object", health) # {}
  <1> DEFINE P == PutAttempt.placed
             copy == [val |-> puts + 1, mtime |-> clock]
             written == WriteTo(store, "object", P, copy)
  <1>1. /\ ClientsRun /\ SelectTargets("object", health) # {}
        /\ store' = CleanUp(written, cat, "object", P)
        /\ health' = PutAttempt.health /\ cat' = cat
    BY DEF PutFails
  <1>2. P \in SUBSET Shards
    BY <1>1, PutOnce
  <1>3. store \in Stores /\ clock \in Nat /\ puts \in Nat /\ copy \in Copy
    BY DEF Base, Typed, Copy
  <1>9. sync = NoSync
    BY <1>1, ClientsSee
  <1> HIDE DEF P, copy
  <1>4. /\ written \in Stores
        /\ \A s \in Shards : written["object"][s] = IF s \in P THEN copy ELSE store["object"][s]
        /\ written["marker"] = store["marker"]
    BY <1>3, KeysAre, WriteToIs
  <1> HIDE DEF written
  <1>5. CASE Entry.shards # {}
    <2>1. store' = written
      BY <1>1, <1>5 DEF CleanUp, Entry
    <2> QED
      BY <1>1, <1>4, <1>5, <1>9, <2>1 DEF P, copy, Obj, Mark
  <1>6. CASE Entry.shards = {}
    <2>1. store' = WriteTo(written, "object", P, Absent)
      BY <1>1, <1>6 DEF CleanUp, Entry
    <2>2. /\ store' \in Stores
          /\ \A s \in Shards : store'["object"][s] = IF s \in P THEN Absent ELSE written["object"][s]
          /\ store'["marker"] = written["marker"]
      BY <2>1, <1>4, KeysAre, WriteToIs, AbsentIs
    <2> QED
      BY <1>1, <1>4, <1>6, <1>9, <2>2 DEF P, Obj, Mark
  <1> QED
    BY <1>5, <1>6

\* What a delete changes.
LEMMA DeleteDoes ==
    ASSUME Base, Supported(set), Delete
    PROVE  LET r == Attempt("marker", Available(health), health)
               c == [cat EXCEPT !["marker"] = [shards |-> r.placed, updated |-> clock + 1]]
           IN
           /\ store' \in Stores /\ cat' \in Catalogs
           /\ \A s \in Shards :
                 Obj(s)' = IF s \in Resolve("object", c, r.health) /\ Answers(s) THEN Absent ELSE Obj(s)
           /\ \A s \in Shards : Mark(s)' \in {Mark(s), [val |-> clock, mtime |-> clock]}
           /\ (\A s \in Resolve("object", c, r.health) : Answers(s)) => Entry'.shards = {}
           /\ c["object"] = cat["object"]
           /\ health' = r.health /\ sync = NoSync /\ ClientsRun /\ Available(health) # {}
  <1> DEFINE r == Attempt("marker", Available(health), health)
             copy == [val |-> clock, mtime |-> clock]
             written == WriteTo(store, "marker", r.placed, copy)
             c == [cat EXCEPT !["marker"] = [shards |-> r.placed, updated |-> clock + 1]]
  <1>1. /\ ClientsRun /\ Available(health) # {}
        /\ store' = DeletedStore(written, c, r.health, "object")
        /\ cat' = DeletedCatalog(c, r.health, "object")
        /\ health' = r.health
    BY DEF Delete
  <1>2. r.placed \in SUBSET Shards /\ r.health \in [Shards -> Healths]
    BY <1>1, DeleteOnce
  <1>3. /\ store \in Stores /\ cat \in Catalogs /\ clock \in Nat /\ copy \in Copy /\ clock + 1 \in Nat
    BY DEF Base, Typed, Copy
  <1>9. sync = NoSync
    BY <1>1, ClientsSee
  <1> HIDE DEF r, copy
  <1>4. /\ written \in Stores
        /\ \A s \in Shards : written["marker"][s] = IF s \in r.placed THEN copy ELSE store["marker"][s]
        /\ written["object"] = store["object"]
    BY <1>3, KeysAre, WriteToIs
  <1>5. c \in Catalogs /\ c["object"] = cat["object"]
    BY <1>2, <1>3, KeysAre DEF Catalogs
  <1> HIDE DEF written, c
  <1>6. /\ store' \in Stores
        /\ store'["marker"] = written["marker"]
        /\ \A s \in Shards : store'["object"][s] =
              IF s \in Resolve("object", c, r.health) /\ Answers(s) THEN Absent ELSE written["object"][s]
    BY <1>1, <1>2, <1>4, <1>5, KeysAre, DeletedStoreIs
  <1>7. /\ cat' \in Catalogs
        /\ (\A s \in Resolve("object", c, r.health) : Answers(s)) => cat'["object"].shards = {}
    BY <1>1, <1>2, <1>5, KeysAre, DeletedCatalogIs
  <1>8. /\ \A s \in Shards :
             Obj(s)' = IF s \in Resolve("object", c, r.health) /\ Answers(s) THEN Absent ELSE Obj(s)
        /\ \A s \in Shards : Mark(s)' \in {Mark(s), copy}
    BY <1>4, <1>6 DEF Obj, Mark
  <1>10. (\A s \in Resolve("object", c, r.health) : Answers(s)) => Entry'.shards = {}
    BY <1>7 DEF Entry
  <1> QED
    BY <1>1, <1>5, <1>6, <1>7, <1>8, <1>9, <1>10 DEF r, c, copy

\* What a delete that failed changes.
LEMMA DeleteFailsDoes ==
    ASSUME Base, Supported(set), DeleteFails
    PROVE  /\ store' \in Stores /\ cat' = cat
           /\ \A s \in Shards : Obj(s)' = Obj(s)
           /\ \A s \in Shards : Mark(s)' \in {Mark(s), Absent, [val |-> clock, mtime |-> clock]}
           /\ health' = Attempt("marker", Available(health), health).health
           /\ sync = NoSync /\ ClientsRun /\ Available(health) # {}
           /\ \/ expect' = expect /\ store' = store
              \/ 0 \in expect' /\ expect \subseteq expect'
  <1> DEFINE r == Attempt("marker", Available(health), health)
             copy == [val |-> clock, mtime |-> clock]
             written == WriteTo(store, "marker", r.placed, copy)
  <1>1. /\ ClientsRun /\ Available(health) # {} /\ cat' = cat
        /\ store' = (IF DeleteRequiresMinWrites THEN CleanUp(written, cat, "marker", r.placed)
                     ELSE written)
        /\ health' = r.health
        /\ expect' = (IF store' = store THEN expect ELSE expect \cup {0})
    BY DEF DeleteFails
  <1>2. r.placed \in SUBSET Shards
    BY <1>1, DeleteOnce
  <1>3. store \in Stores /\ clock \in Nat /\ copy \in Copy
    BY DEF Base, Typed, Copy
  <1>9. sync = NoSync
    BY <1>1, ClientsSee
  <1> HIDE DEF r, copy
  <1>4. /\ written \in Stores
        /\ \A s \in Shards : written["marker"][s] = IF s \in r.placed THEN copy ELSE store["marker"][s]
        /\ written["object"] = store["object"]
    BY <1>3, KeysAre, WriteToIs
  <1> HIDE DEF written
  <1>5. /\ WriteTo(written, "marker", r.placed, Absent) \in Stores
        /\ \A s \in Shards : WriteTo(written, "marker", r.placed, Absent)["marker"][s] =
              IF s \in r.placed THEN Absent ELSE written["marker"][s]
        /\ WriteTo(written, "marker", r.placed, Absent)["object"] = written["object"]
    BY <1>4, KeysAre, WriteToIs, AbsentIs
  <1>6. store' \in {written, WriteTo(written, "marker", r.placed, Absent)}
    BY <1>1 DEF CleanUp
  <1>7. /\ store' \in Stores
        /\ \A s \in Shards : Obj(s)' = Obj(s)
        /\ \A s \in Shards : Mark(s)' \in {Mark(s), Absent, copy}
    BY <1>4, <1>5, <1>6 DEF Obj, Mark
  <1> QED
    BY <1>1, <1>7, <1>9 DEF r, copy

----------------------------------------------------------------------------

\* What a read changes.
LEMMA GetDoes ==
    ASSUME Base, Supported(set), NEW s \in Shards, Get(s)
    PROVE  cat' \in Catalogs
  BY AddReplicaIs, KeysAre DEF Base, Typed, Get

\* What rebuild_catalog changes.
LEMMA RebuildDoes ==
    ASSUME Base, Supported(set), RebuildCatalog
    PROVE  /\ cat' \in Catalogs
           /\ \A s \in Shards : s \in Entry'.shards <=> (health[s] = "Healthy" /\ Present(store, "object", s))
           /\ set.rf = N /\ ~ set.errors /\ sync = NoSync
  <1>1. set.rebuild /\ Noticed /\ sync = NoSync
    BY DEF RebuildCatalog
  <1>2. set.rf = N /\ ~ set.errors
    BY <1>1 DEF Supported, MirrorSetting, PartSetting
  <1>3. health \in [Shards -> Healths] /\ store \in Stores /\ down \subseteq Shards
    BY DEF Base, Typed
  <1>4. \A s \in Shards : health[s] \notin {"Degraded", "Syncing"}
    BY <1>1, <1>2 DEF Base, Quiet, Phases
  <1>5. \A s \in Shards : s \in Available(health) <=> health[s] = "Healthy"
    BY <1>3, <1>4 DEF Available, Unavailable, Healths
  <1>6. \A s \in down : health[s] # "Healthy"
    BY <1>1, <1>2 DEF Noticed, Unavailable
  <1>7. PICK silent \in SUBSET down :
          cat' = [k \in Keys |->
                   IF {s \in Available(health) \ silent : Present(store, k, s)} = {} THEN NoEntry
                   ELSE [shards |-> {s \in Available(health) \ silent : Present(store, k, s)},
                         updated |-> store[k][Min({s \in Available(health) \ silent : Present(store, k, s)})].mtime]]
    BY Zenon DEF RebuildCatalog
  <1> DEFINE L(k) == {s \in Available(health) \ silent : Present(store, k, s)}
  <1>8. \A k \in Keys : L(k) \in SUBSET Shards
    BY DEF Available
  <1>9. \A k \in Keys, s \in Shards : s \in L(k) <=> (health[s] = "Healthy" /\ Present(store, k, s))
    BY <1>5, <1>6
  <1>10. \A k \in Keys : cat'[k] = IF L(k) = {} THEN NoEntry
                                  ELSE [shards |-> L(k), updated |-> store[k][Min(L(k))].mtime]
    BY <1>7
  <1>11. DOMAIN cat' = Keys /\ cat' = [k \in Keys |-> cat'[k]]
    BY <1>7
  <1> HIDE DEF L
  <1>12. \A k \in Keys : L(k) # {} => store[k][Min(L(k))].mtime \in Nat
    BY <1>3, <1>8, MinIs DEF Stores, Copy
  <1>13. \A k \in Keys : cat'[k] \in [shards : SUBSET Shards, updated : Nat] /\ cat'[k].shards = L(k)
    <2> SUFFICES ASSUME NEW k \in Keys
                 PROVE  cat'[k] \in [shards : SUBSET Shards, updated : Nat] /\ cat'[k].shards = L(k)
      OBVIOUS
    <2>1. PICK S \in SUBSET Shards : S = L(k)
      BY <1>8
    <2>2. PICK m : m = store[k][Min(L(k))].mtime
      OBVIOUS
    <2>3. cat'[k] = IF S = {} THEN NoEntry ELSE [shards |-> S, updated |-> m]
      BY <2>1, <2>2, <1>10
    <2>4. S # {} => m \in Nat
      BY <2>1, <2>2, <1>12
    <2>5. cat'[k] \in [shards : SUBSET Shards, updated : Nat] /\ cat'[k].shards = S
      BY <2>3, <2>4 DEF NoEntry
    <2> QED
      BY <2>1, <2>5
  <1>14. cat' \in Catalogs
    BY <1>11, <1>13 DEF Catalogs
  <1> QED
    BY <1>1, <1>2, <1>9, <1>13, <1>14, KeysAre DEF Entry

\* What a copy of repair_replication changes.
LEMMA ReplicateDoes ==
    ASSUME Base, NEW k \in Keys, NEW from \in Shards, NEW to \in Shards, Replicate(k, from, to)
    PROVE  /\ store' \in Stores /\ cat' \in Catalogs
           /\ \A j \in Keys : j # k => store'[j] = store[j] /\ cat'[j] = cat[j]
           /\ \A s \in Shards : store'[k][s] = IF s = to THEN [val |-> store[k][from].val, mtime |-> clock]
                                              ELSE store[k][s]
           /\ cat'[k].shards = cat[k].shards \cup {to} /\ cat'[k].updated = cat[k].updated
           /\ from \in cat[k].shards /\ Present(store, k, from) /\ sync = NoSync
           /\ to \notin cat[k].shards /\ health[to] = "Healthy"
  <1>1. store \in Stores /\ cat \in Catalogs /\ clock \in Nat
    BY DEF Base, Typed
  <1>2. [val |-> store[k][from].val, mtime |-> clock] \in Copy
    BY <1>1 DEF Stores, Copy
  <1>3. /\ store' = [store EXCEPT ![k][to] = [val |-> store[k][from].val, mtime |-> clock]]
        /\ cat' = AddReplica(cat, k, to, clock)
        /\ from \in cat[k].shards /\ Present(store, k, from) /\ sync = NoSync
        /\ to \notin cat[k].shards /\ health[to] = "Healthy"
    BY DEF Replicate
  <1> QED
    <2>1. /\ store' \in Stores
          /\ \A j \in Keys : j # k => store'[j] = store[j]
          /\ \A s \in Shards : store'[k][s] = IF s = to THEN [val |-> store[k][from].val, mtime |-> clock]
                                             ELSE store[k][s]
      <3> DEFINE c == [val |-> store[k][from].val, mtime |-> clock]
      <3>1. store' = WithCopy(k, to, c)
        BY <1>3, Zenon DEF WithCopy
      <3>2. c \in Copy
        BY <1>2
      <3> HIDE DEF c
      <3> QED
        BY <1>1, <3>1, <3>2, OneCopyIs DEF c
    <2>2. /\ cat' \in Catalogs
          /\ \A j \in Keys : j # k => cat'[j] = cat[j]
          /\ cat'[k].shards = cat[k].shards \cup {to} /\ cat'[k].updated = cat[k].updated
      BY <1>1, <1>3, AddReplicaIs
    <2> QED
      BY <1>3, <2>1, <2>2

\* What a trim of repair_replication changes.
LEMMA TrimDoes ==
    ASSUME Base, NEW k \in Keys, NEW s \in Shards, Trim(k, s)
    PROVE  /\ store' \in Stores /\ cat' \in Catalogs
           /\ \A j \in Keys : j # k => store'[j] = store[j] /\ cat'[j] = cat[j]
           /\ \A r \in Shards : store'[k][r] = IF r = s THEN Absent ELSE store[k][r]
           /\ cat'[k].shards = cat[k].shards \ {s}
           /\ cat'[k].shards # {} => cat'[k].updated = cat[k].updated
           /\ set.rf # N /\ sync = NoSync
           /\ set.rf >= 2 => Two(cat[k].shards \ {s})
  <1>1. store \in Stores /\ cat \in Catalogs /\ set \in Setting
    BY DEF Base, Typed
  <1> DEFINE W == {r \in cat[k].shards : health[r] \in {"Healthy", "Degraded"}}
             H == {r \in cat[k].shards \ {s} : health[r] = "Healthy"}
  <1>2. /\ store' = [store EXCEPT ![k][s] = Absent]
        /\ cat' = RemoveShards(cat, k, {s}) /\ sync = NoSync
        /\ Cardinality(W) > set.rf /\ Cardinality(H) >= set.rf
    BY DEF Trim
  <1>3. W \subseteq Shards /\ H \subseteq Shards /\ H \subseteq cat[k].shards \ {s}
    BY <1>1 DEF Catalogs
  <1> HIDE DEF W, H
  <1>4. Cardinality(W) <= N /\ Cardinality(W) \in Nat /\ set.rf \in Nat
    BY <1>1, <1>3, ShardsFinite DEF Setting
  <1>5. set.rf # N
    BY <1>2, <1>4, ShardsFinite
  <1>6. set.rf >= 2 => Two(cat[k].shards \ {s})
    <2> SUFFICES ASSUME set.rf >= 2, ~ Two(H) PROVE FALSE
      BY <1>3 DEF Two
    <2>1. IsFiniteSet(H) /\ Cardinality(H) >= 2 /\ Cardinality(H) \in Nat
      BY <1>2, <1>3, <1>4, ShardsFinite
    <2>2. H # {}
      BY <2>1, FS_EmptySet
    <2>3. PICK a \in H : TRUE
      BY <2>2
    <2>4. H = {a}
      BY <2>3 DEF Two
    <2> QED
      BY <2>1, <2>4, FS_Singleton
  <1>7. cat'[k].shards # {} => ~ (cat[k].shards \subseteq {s})
    BY <1>1, <1>2, RemoveShardsIs
  <1> QED
    <2>1. /\ store' \in Stores
          /\ \A j \in Keys : j # k => store'[j] = store[j]
          /\ \A r \in Shards : store'[k][r] = IF r = s THEN Absent ELSE store[k][r]
      <3>1. store' = WithCopy(k, s, Absent)
        BY <1>2, Zenon DEF WithCopy
      <3> QED
        BY <1>1, <3>1, OneCopyIs, AbsentIs
    <2>2. /\ cat' \in Catalogs
          /\ \A j \in Keys : j # k => cat'[j] = cat[j]
          /\ cat'[k].shards = cat[k].shards \ {s}
          /\ cat'[k].shards # {} => cat'[k].updated = cat[k].updated
      BY <1>1, <1>2, <1>7, RemoveShardsIs
    <2> QED
      BY <1>2, <1>5, <1>6, <2>1, <2>2

\* What vacuum on a marker changes.
LEMMA VacuumMarkerDoes ==
    ASSUME Base, VacuumMarker
    PROVE  /\ store' \in Stores /\ cat' \in Catalogs
           /\ \A s \in Shards : Obj(s)' = Obj(s)
           /\ \A s \in Shards : Mark(s)' \in {Mark(s), Absent}
           /\ Entry' = Entry \/ (Entry.shards = {} /\ Hits("object", store, cat, health) # {})
           /\ sync = NoSync /\ Noticed /\ \A s \in Shards : health[s] = "Healthy"
  <1>1. store \in Stores /\ cat \in Catalogs /\ health \in [Shards -> Healths] /\ clock \in Nat
    BY DEF Base, Typed
  <1>2. /\ VacuumRuns
        /\ store' = DeletedStore(store, cat, health, "marker")
        /\ \/ cat' = DeletedCatalog(cat, health, "marker")
           \/ \E o \in Hits("object", store, cat, health) :
                 cat' = DeletedCatalog(Rediscovered(cat, "object", o, clock), health, "marker")
    BY Zenon DEF VacuumMarker
  <1>3. sync = NoSync /\ Noticed /\ \A s \in Shards : health[s] = "Healthy"
    <2>1. \A s \in Shards : health[s] # "Syncing"
      BY <1>2 DEF VacuumRuns, Base, Phases
    <2> QED
      BY <1>1, <1>2, <2>1 DEF VacuumRuns, Healths, Unavailable
  <1>4. /\ store' \in Stores /\ store'["object"] = store["object"]
        /\ \A s \in Shards : store'["marker"][s] \in {store["marker"][s], Absent}
    BY <1>1, <1>2, KeysAre, DeletedStoreIs
  <1>5. CASE cat' = DeletedCatalog(cat, health, "marker")
    <2>1. cat' \in Catalogs /\ cat'["object"] = cat["object"]
      BY <1>1, <1>5, KeysAre, DeletedCatalogIs
    <2> QED
      BY <1>3, <1>4, <2>1 DEF Obj, Mark, Entry
  <1>6. CASE \E o \in Hits("object", store, cat, health) :
               cat' = DeletedCatalog(Rediscovered(cat, "object", o, clock), health, "marker")
    <2>1. PICK o \in Hits("object", store, cat, health) :
            cat' = DeletedCatalog(Rediscovered(cat, "object", o, clock), health, "marker")
      BY <1>6
    <2>2. o \in Shards
      BY <1>1 DEF Hits, Resolve, Available, Catalogs, Keys
    <2>3. /\ Rediscovered(cat, "object", o, clock) \in Catalogs
          /\ cat["object"].shards # {} => Rediscovered(cat, "object", o, clock)["object"] = cat["object"]
      BY <1>1, <2>2, KeysAre, RediscoveredIs
    <2>4. /\ cat' \in Catalogs
          /\ cat'["object"] = Rediscovered(cat, "object", o, clock)["object"]
      BY <1>1, <2>1, <2>3, KeysAre, DeletedCatalogIs
    <2> QED
      BY <1>3, <1>4, <2>1, <2>3, <2>4 DEF Obj, Mark, Entry
  <1> QED
    BY <1>2, <1>5, <1>6

\* What vacuum on an object changes.
LEMMA VacuumObjectDoes ==
    ASSUME Base, VacuumObject
    PROVE  /\ store' \in Stores /\ cat' \in Catalogs
           /\ \A s \in Shards : Obj(s)' \in {Obj(s), Absent}
           /\ \A s \in Shards : Mark(s)' \in {Mark(s), Absent}
           /\ \E m \in Shards : \E o \in Hits("object", store, cat, health) : Obj(o).mtime <= Mark(m).val
           /\ Entry.shards # {} /\ (\A s \in Shards : Answers(s)) =>
                /\ Entry'.shards = {}
                /\ \A s \in Entry.shards : Obj(s)' = Absent
           /\ sync = NoSync /\ Noticed /\ \A s \in Shards : health[s] = "Healthy"
  <1>1. store \in Stores /\ cat \in Catalogs /\ health \in [Shards -> Healths] /\ clock \in Nat
    BY DEF Base, Typed
  <1>2. VacuumRuns
    BY Zenon DEF VacuumObject
  <1>3. sync = NoSync /\ Noticed /\ \A s \in Shards : health[s] = "Healthy"
    <2>1. \A s \in Shards : health[s] # "Syncing"
      BY <1>2 DEF VacuumRuns, Base, Phases
    <2> QED
      BY <1>1, <1>2, <2>1 DEF VacuumRuns, Healths, Unavailable
  <1>4. PICK m \in Hits("marker", store, cat, health), o \in Hits("object", store, cat, health) :
          LET found == Rediscovered(cat, "object", o, clock)
              left == DeletedStore(store, found, health, "object")
              entries == DeletedCatalog(found, health, "object")
          IN /\ store["object"][o].mtime <= store["marker"][m].val
             /\ store' = DeletedStore(left, entries, health, "marker")
             /\ cat' = DeletedCatalog(entries, health, "marker")
    BY Zenon DEF VacuumObject
  <1>5. o \in Shards /\ m \in Shards
    BY <1>1 DEF Hits, Resolve, Available, Catalogs, Keys
  <1> DEFINE found == Rediscovered(cat, "object", o, clock)
             left == DeletedStore(store, found, health, "object")
             entries == DeletedCatalog(found, health, "object")
  <1>6. /\ store["object"][o].mtime <= store["marker"][m].val
        /\ store' = DeletedStore(left, entries, health, "marker")
        /\ cat' = DeletedCatalog(entries, health, "marker")
    BY <1>4
  <1>7. found \in Catalogs /\ (cat["object"].shards # {} => found["object"] = cat["object"])
    BY <1>1, <1>5, KeysAre, RediscoveredIs
  <1> HIDE DEF found
  <1>8. /\ left \in Stores /\ left["marker"] = store["marker"]
        /\ \A s \in Shards : left["object"][s] =
              IF s \in Resolve("object", found, health) /\ Answers(s) THEN Absent ELSE store["object"][s]
    BY <1>1, <1>7, KeysAre, DeletedStoreIs
  <1>9. /\ entries \in Catalogs
        /\ (\A s \in Resolve("object", found, health) : Answers(s)) => entries["object"].shards = {}
    BY <1>1, <1>7, KeysAre, DeletedCatalogIs
  <1> HIDE DEF left, entries
  <1>10. /\ store' \in Stores /\ store'["object"] = left["object"]
         /\ \A s \in Shards : store'["marker"][s] \in {left["marker"][s], Absent}
    BY <1>1, <1>6, <1>8, <1>9, KeysAre, DeletedStoreIs
  <1>11. cat' \in Catalogs /\ cat'["object"] = entries["object"]
    BY <1>1, <1>6, <1>9, KeysAre, DeletedCatalogIs
  <1>12. Resolve("object", found, health) \subseteq Shards
    BY <1>7 DEF Resolve, Available, Catalogs, Keys
  <1>13. cat["object"].shards # {} => Resolve("object", found, health) = cat["object"].shards
    <2>1. Available(health) = Shards
      BY <1>3 DEF Available, Unavailable
    <2>2. cat["object"].shards \subseteq Shards
      BY <1>1, KeysAre DEF Catalogs
    <2> QED
      BY <1>7, <2>1, <2>2 DEF Resolve
  <1>14. ASSUME Entry.shards # {}, \A s \in Shards : Answers(s)
         PROVE  Entry'.shards = {} /\ \A s \in Entry.shards : Obj(s)' = Absent
    BY <1>14, <1>8, <1>9, <1>10, <1>11, <1>12, <1>13 DEF Entry, Obj
  <1>15. /\ \A s \in Shards : Obj(s)' \in {Obj(s), Absent}
         /\ \A s \in Shards : Mark(s)' \in {Mark(s), Absent}
    BY <1>8, <1>10 DEF Obj, Mark
  <1>16. \E n \in Shards : \E p \in Hits("object", store, cat, health) : Obj(p).mtime <= Mark(n).val
    BY <1>4, <1>5, <1>6 DEF Obj, Mark
  <1> QED
    BY <1>3, <1>10, <1>11, <1>14, <1>15, <1>16

----------------------------------------------------------------------------
(* What each step of a sync does.                                          *)

\* A sync copies from shards of the entry that are in service.
LEMMA SourcesAre ==
    ASSUME Typed, NEW k \in Keys
    PROVE  /\ Sources(k) \subseteq Shards
           /\ \A r \in Sources(k) : r \in cat[k].shards /\ r # target /\ health[r] = "Healthy"
  BY DEF Sources, Typed, Catalogs

\* What a sync's copying of the entries changes.
LEMMA SyncCopyDoes ==
    ASSUME Base, SyncCopy
    PROVE  /\ store' \in Stores
           /\ \A k \in Keys, s \in Shards : s # target => store'[k][s] = store[k][s]
           /\ \A k \in Keys : \/ store'[k][target] = store[k][target]
                              \/ \E r \in Sources(k) : /\ Present(store, k, r)
                                                       /\ store'[k][target] = [val |-> store[k][r].val, mtime |-> clock]
           /\ sync.step = "copy" /\ sync' = [sync EXCEPT !.step = "replay"]
  <1>1. store \in Stores /\ clock \in Nat /\ target \in Shards
    BY TargetTyped DEF Base, Typed
  <1>2. PICK from \in [Keys -> Shards] :
          /\ \A k \in Keys : Sources(k) # {} => from[k] \in Sources(k)
          /\ store' = [k \in Keys |->
               IF UnderReplicated(k) /\ Sources(k) # {} /\ Served(k, from[k]) /\ target \notin down
               THEN [store[k] EXCEPT ![target] = [val |-> store[k][from[k]].val, mtime |-> clock]]
               ELSE store[k]]
    BY Zenon DEF SyncCopy
  <1>3. sync.step = "copy" /\ sync' = [sync EXCEPT !.step = "replay"]
    BY DEF SyncCopy, AtStep, GoTo
  <1>4. ASSUME NEW k \in Keys
        PROVE  /\ store'[k] \in [Shards -> Copy]
               /\ \A s \in Shards : s # target => store'[k][s] = store[k][s]
               /\ \/ store'[k][target] = store[k][target]
                  \/ \E r \in Sources(k) : /\ Present(store, k, r)
                                           /\ store'[k][target] = [val |-> store[k][r].val, mtime |-> clock]
    <2>0. store[k] \in [Shards -> Copy]
      BY <1>1 DEF Stores
    <2>1. CASE UnderReplicated(k) /\ Sources(k) # {} /\ Served(k, from[k]) /\ target \notin down
      <3>1. from[k] \in Sources(k) /\ from[k] \in Shards
        BY <1>2, <2>1
      <3>2. PICK c \in Copy : c = [val |-> store[k][from[k]].val, mtime |-> clock]
        BY <1>1, <2>0, <3>1 DEF Copy
      <3>3. store'[k] = [store[k] EXCEPT ![target] = c]
        BY <1>2, <2>1, <3>2
      <3>4. /\ store'[k] \in [Shards -> Copy]
            /\ \A s \in Shards : s # target => store'[k][s] = store[k][s]
            /\ store'[k][target] = c
        BY <1>1, <2>0, <3>3
      <3> QED
        BY <2>1, <3>1, <3>2, <3>4 DEF Served
    <2>2. CASE ~ (UnderReplicated(k) /\ Sources(k) # {} /\ Served(k, from[k]) /\ target \notin down)
      <3>1. store'[k] = store[k]
        BY <1>2, <2>2
      <3> QED
        BY <2>0, <3>1
    <2> QED
      BY <2>1, <2>2
  <1>5. store' \in Stores
    BY <1>2, <1>4 DEF Stores
  <1> QED
    BY <1>3, <1>4, <1>5

\* What a sync's replay of the markers changes.
LEMMA SyncReplayDoes ==
    ASSUME Base, SyncReplay
    PROVE  /\ store' \in Stores
           /\ \A s \in Shards : Mark(s)' = Mark(s)
           /\ \A s \in Shards : \/ Obj(s)' = Obj(s)
                                \/ /\ s = target /\ Obj(s)' = Absent
                                   /\ \E m \in Shards : Obj(s).mtime <= Mark(m).val
           /\ sync.step = "replay" /\ sync' = [sync EXCEPT !.step = "refresh"]
  <1>1. store \in Stores /\ cat \in Catalogs /\ target \in Shards
    BY TargetTyped DEF Base, Typed
  <1>3. sync.step = "replay" /\ sync' = [sync EXCEPT !.step = "refresh"]
    BY DEF SyncReplay, AtStep, GoTo
  <1>4. Hits("marker", store, cat, health) \subseteq Shards
    BY <1>1 DEF Hits, Resolve, Available, Catalogs, Keys
  <1>5. \/ store' = store
        \/ /\ store' = [store EXCEPT !["object"][target] = Absent]
           /\ \E m \in Hits("marker", store, cat, health) :
                 store["object"][target].mtime <= store["marker"][m].val
    BY Zenon DEF SyncReplay
  <1>6. PICK t \in Shards : t = target
    BY <1>1
  <1>7. CASE store' = store
    BY <1>1, <1>3, <1>7 DEF Obj, Mark, target
  <1>8. CASE /\ store' = [store EXCEPT !["object"][target] = Absent]
             /\ \E m \in Hits("marker", store, cat, health) :
                   store["object"][target].mtime <= store["marker"][m].val
    <2>1. store' = WithCopy("object", t, Absent)
      BY <1>8, <1>6, Zenon DEF WithCopy
    <2>2. /\ store' \in Stores
          /\ store'["marker"] = store["marker"]
          /\ \A r \in Shards : store'["object"][r] = IF r = t THEN Absent ELSE store["object"][r]
      BY <1>1, <2>1, OneCopyIs, AbsentIs, KeysAre
    <2>3. target' = target
      BY <1>3 DEF target, Base, Typed
    <2> QED
      BY <1>3, <1>4, <1>6, <1>8, <2>2, <2>3 DEF Obj, Mark
  <1> QED
    BY <1>5, <1>7, <1>8

\* What a sync's refresh of stale copies changes.
LEMMA SyncRefreshDoes ==
    ASSUME Base, SyncRefresh
    PROVE  /\ store' \in Stores
           /\ \A s \in Shards : Mark(s)' = Mark(s)
           /\ \A s \in Shards : s # target => Obj(s)' = Obj(s)
           /\ target \in down \/ ~ Present(store, "object", target) => store' = store
           /\ ~ (target \in down \/ ~ Present(store, "object", target)) =>
                \E from \in Shards : /\ Sources("object") # {} => from \in Sources("object")
                                     /\ \A s \in Shards : s = target => Obj(s)' = Refreshed(from)
           /\ \A s \in Shards : \/ Obj(s)' \in {Obj(s), Absent}
                                \/ \E r \in Shards : /\ Present(store, "object", r)
                                                     /\ Obj(s)' = [val |-> Obj(r).val, mtime |-> clock]
           /\ sync.step = "refresh" /\ sync' = [sync EXCEPT !.step = "markers"]
  <1>1. store \in Stores /\ clock \in Nat /\ target \in Shards
    BY TargetTyped DEF Base, Typed
  <1>2. sync.step = "refresh" /\ sync' = [sync EXCEPT !.step = "markers"]
    BY DEF SyncRefresh, AtStep, GoTo
  <1>3. PICK from \in Shards :
          /\ Sources("object") # {} => from \in Sources("object")
          /\ store' = IF target \in down \/ ~ Present(store, "object", target) THEN store
                      ELSE [store EXCEPT !["object"][target] = Refreshed(from)]
    BY Zenon DEF SyncRefresh
  <1>4. PICK t \in Shards : t = target
    BY <1>1
  <1>5. CASE target \in down \/ ~ Present(store, "object", target)
    BY <1>1, <1>2, <1>3, <1>5 DEF Obj, Mark
  <1>6. CASE ~ (target \in down \/ ~ Present(store, "object", target))
    <2>1. PICK c : c = Refreshed(from)
      OBVIOUS
    <2>2. \/ c \in {Obj(t), Absent}
          \/ Present(store, "object", from) /\ c = [val |-> Obj(from).val, mtime |-> clock]
      BY <1>4, <2>1 DEF Refreshed, Served, Obj
    <2>3. Obj(t) \in Copy /\ Obj(from) \in Copy
      BY <1>1 DEF Obj, Stores, Keys
    <2>4. c \in Copy
      BY <1>1, <2>2, <2>3, AbsentIs DEF Copy
    <2>5. store' = WithCopy("object", t, c)
      BY <1>3, <1>4, <1>6, <2>1, Zenon DEF WithCopy
    <2>6. /\ store' \in Stores
          /\ store'["marker"] = store["marker"]
          /\ \A r \in Shards : store'["object"][r] = IF r = t THEN c ELSE store["object"][r]
      BY <1>1, <2>4, <2>5, OneCopyIs, KeysAre
    <2> QED
      BY <1>2, <1>3, <1>4, <1>6, <2>1, <2>2, <2>6 DEF Obj, Mark
  <1> QED
    BY <1>5, <1>6

\* What a sync's copying of the markers changes.
LEMMA SyncMarkersDoes ==
    ASSUME Base, SyncMarkers
    PROVE  /\ store' \in Stores /\ cat' \in Catalogs
           /\ \A s \in Shards : Obj(s)' = Obj(s)
           /\ \A s \in Shards : Mark(s)' \in {Mark(s), Absent}
           /\ Entry.shards # {} => Entry' = Entry
           /\ sync.step = "markers" /\ sync' = [sync EXCEPT !.step = "attach"]
  <1>1. store \in Stores /\ cat \in Catalogs /\ clock \in Nat /\ target \in Shards
    BY TargetTyped DEF Base, Typed
  <1>2. sync.step = "markers" /\ sync' = [sync EXCEPT !.step = "attach"]
    BY DEF SyncMarkers, AtStep, GoTo
  <1>3. /\ Hits("marker", store, cat, health) \subseteq Shards
        /\ Hits("object", store, cat, health) \subseteq Shards
    BY <1>1 DEF Hits, Resolve, Available, Catalogs, Keys
  <1>4. PICK t \in Shards : t = target
    BY <1>1
  <1>5. store' \in {store, WithCopy("marker", t, Absent)}
    BY <1>4, Zenon DEF SyncMarkers, WithCopy
  <1>6. \/ cat' = cat
        \/ \E m \in Hits("marker", store, cat, health) : cat' = Rediscovered(cat, "marker", m, clock)
        \/ \E m \in Hits("marker", store, cat, health), o \in Hits("object", store, cat, health) :
              cat' = Rediscovered(Rediscovered(cat, "marker", m, clock), "object", o, clock)
    BY Zenon DEF SyncMarkers
  <1>7. /\ store' \in Stores
        /\ \A s \in Shards : Obj(s)' = Obj(s)
        /\ \A s \in Shards : Mark(s)' \in {Mark(s), Absent}
    <2>1. /\ WithCopy("marker", t, Absent) \in Stores
          /\ WithCopy("marker", t, Absent)["object"] = store["object"]
          /\ \A r \in Shards : WithCopy("marker", t, Absent)["marker"][r] =
                IF r = t THEN Absent ELSE store["marker"][r]
      BY <1>1, OneCopyIs, AbsentIs, KeysAre
    <2> QED
      BY <1>1, <1>5, <2>1 DEF Obj, Mark
  <1>8. \A m \in Shards : /\ Rediscovered(cat, "marker", m, clock) \in Catalogs
                          /\ Rediscovered(cat, "marker", m, clock)["object"] = cat["object"]
    BY <1>1, RediscoveredIs, KeysAre, SMTT(30)
  <1>9. \A m, o \in Shards :
          LET c == Rediscovered(Rediscovered(cat, "marker", m, clock), "object", o, clock) IN
          c \in Catalogs /\ (cat["object"].shards # {} => c["object"] = cat["object"])
    <2> TAKE m, o \in Shards
    <2>1. PICK f \in Catalogs : f = Rediscovered(cat, "marker", m, clock) /\ f["object"] = cat["object"]
      BY <1>8
    <2>2. /\ Rediscovered(f, "object", o, clock) \in Catalogs
          /\ f["object"].shards # {} => Rediscovered(f, "object", o, clock)["object"] = f["object"]
      BY <1>1, RediscoveredIs, KeysAre
    <2> QED
      BY <2>1, <2>2
  <1>10. cat' \in Catalogs /\ (Entry.shards # {} => Entry' = Entry)
    BY <1>1, <1>3, <1>6, <1>8, <1>9 DEF Entry
  <1> QED
    BY <1>2, <1>7, <1>10

\* The shards that mirror_sync reads.
MirrorSources == {s \in Shards \ {target} : health[s] = "Healthy"}

\* What mirror_sync changes.
LEMMA SyncMirrorDoes ==
    ASSUME Base, SyncMirror
    PROVE  /\ sync.step = "mirror"
           /\ \/ /\ store' \in Stores
                 /\ \A k \in Keys, s \in Shards : s # target => store'[k][s] = store[k][s]
                 /\ \E src \in MirrorSources : \A k \in Keys, s \in Shards : s = target =>
                       /\ store'[k][s] = Mirrored(k, src)
                       /\ Present(store, k, src) =>
                            store'[k][s] = IF store[k][src].mtime > store[k][s].mtime
                                           THEN [val |-> store[k][src].val, mtime |-> clock]
                                           ELSE store[k][s]
                       /\ ~ Present(store, k, src) => store'[k][s] = Absent
                 /\ sync' = [sync EXCEPT !.step = "attach"] /\ health' = health
              \/ /\ store' = store /\ sync' = NoSync
                 /\ health' = [health EXCEPT ![target] = "Offline"]
  <1>1. store \in Stores /\ clock \in Nat /\ target \in Shards
    BY TargetTyped DEF Base, Typed
  <1>2. /\ sync.step = "mirror"
        /\ \/ /\ MirrorSources # {}
              /\ store' = [k \in Keys |->
                             [store[k] EXCEPT ![target] = Mirrored(k, Min(MirrorSources))]]
              /\ sync' = [sync EXCEPT !.step = "attach"] /\ health' = health
           \/ /\ store' = store /\ sync' = NoSync
              /\ health' = [health EXCEPT ![target] = "Offline"]
    BY Zenon DEF SyncMirror, AtStep, GoTo, MirrorSources
  <1>3. CASE store' = store /\ sync' = NoSync /\ health' = [health EXCEPT ![target] = "Offline"]
    BY <1>2, <1>3
  <1>4. CASE /\ MirrorSources # {}
             /\ store' = [k \in Keys |->
                             [store[k] EXCEPT ![target] = Mirrored(k, Min(MirrorSources))]]
             /\ sync' = [sync EXCEPT !.step = "attach"] /\ health' = health
    <2>1. MirrorSources \subseteq Shards
      BY DEF MirrorSources
    <2>2. PICK src \in MirrorSources : src = Min(MirrorSources)
      BY <1>4, <2>1, MinIs
    <2>3. ASSUME NEW k \in Keys
          PROVE  /\ store'[k] \in [Shards -> Copy]
                 /\ \A s \in Shards : s # target => store'[k][s] = store[k][s]
                 /\ store'[k][target] = Mirrored(k, src)
                 /\ Present(store, k, src) =>
                      store'[k][target] = IF store[k][src].mtime > store[k][target].mtime
                                          THEN [val |-> store[k][src].val, mtime |-> clock]
                                          ELSE store[k][target]
                 /\ ~ Present(store, k, src) => store'[k][target] = Absent
      <3>1. store[k] \in [Shards -> Copy]
        BY <1>1 DEF Stores
      <3>2. PICK c : c = Mirrored(k, src)
        OBVIOUS
      <3>3. /\ Present(store, k, src) =>
                 c = IF store[k][src].mtime > store[k][target].mtime
                     THEN [val |-> store[k][src].val, mtime |-> clock]
                     ELSE store[k][target]
            /\ ~ Present(store, k, src) => c = Absent
        BY <3>2 DEF Mirrored
      <3>4. c \in Copy
        BY <1>1, <2>1, <3>1, <3>3, AbsentIs DEF Copy
      <3>5. store'[k] = [store[k] EXCEPT ![target] = c]
        BY <1>4, <2>2, <3>2
      <3>6. /\ store'[k] \in [Shards -> Copy]
            /\ \A s \in Shards : s # target => store'[k][s] = store[k][s]
            /\ store'[k][target] = c
        BY <1>1, <3>1, <3>4, <3>5
      <3> QED
        BY <3>2, <3>3, <3>6
    <2>4. store' \in Stores
      BY <1>4, <2>3 DEF Stores
    <2> QED
      BY <1>2, <1>4, <2>3, <2>4
  <1> QED
    BY <1>2, <1>3, <1>4

\* What the attachment of a shard changes.
LEMMA AttachDoes ==
    ASSUME Base, Attach
    PROVE  /\ cat' \in Catalogs
           /\ Entry'.shards = Entry.shards \ {target}
           /\ Entry'.shards # {} => Entry'.updated = Entry.updated
           /\ sync.step = "attach" /\ sync' = [sync EXCEPT !.step = "scan"]
           /\ health' = [health EXCEPT ![target] = "Syncing"]
  <1> DEFINE one == RemoveShards(cat, "object", {target})
  <1>1. cat \in Catalogs
    BY DEF Base, Typed
  <1>2. /\ cat' = RemoveShards(one, "marker", {target})
        /\ sync.step = "attach" /\ sync' = [sync EXCEPT !.step = "scan"]
        /\ health' = [health EXCEPT ![target] = "Syncing"]
    BY DEF Attach, AtStep, GoTo
  <1>3. /\ one \in Catalogs
        /\ one["object"].shards = cat["object"].shards \ {target}
        /\ ~ (cat["object"].shards \subseteq {target}) => one["object"].updated = cat["object"].updated
    BY <1>1, RemoveShardsIs, KeysAre
  <1> HIDE DEF one
  <1>4. cat' \in Catalogs /\ cat'["object"] = one["object"]
    BY <1>2, <1>3, RemoveShardsIs, KeysAre
  <1> QED
    BY <1>2, <1>3, <1>4 DEF Entry

\* What the scan of an attached shard changes.
LEMMA ScanDoes ==
    ASSUME Base, Scan
    PROVE  /\ cat' \in Catalogs /\ sync.step = "scan" /\ sync' = NoSync
           /\ \/ /\ target \in down /\ cat' = cat
                 /\ health' = [health EXCEPT ![target] = "Offline"]
              \/ /\ health' = [health EXCEPT ![target] = "Healthy"]
                 /\ Entry'.shards = IF Present(store, "object", target) THEN Entry.shards \cup {target}
                                    ELSE Entry.shards
                 /\ Entry.shards # {} => Entry'.updated = Entry.updated
  <1>1. cat \in Catalogs /\ clock \in Nat /\ target \in Shards
    BY TargetTyped DEF Base, Typed
  <1>2. /\ sync.step = "scan" /\ sync' = NoSync
        /\ \/ /\ target \in down /\ cat' = cat
              /\ health' = [health EXCEPT ![target] = "Offline"]
           \/ /\ health' = [health EXCEPT ![target] = "Healthy"]
              /\ cat' = Scanned(Scanned(cat, "object"), "marker")
    BY DEF Scan, AtStep
  <1>3. /\ Scanned(cat, "object") \in Catalogs
        /\ Scanned(cat, "object")["object"].shards =
             IF Present(store, "object", target) THEN cat["object"].shards \cup {target}
             ELSE cat["object"].shards
        /\ cat["object"].shards # {} => Scanned(cat, "object")["object"].updated = cat["object"].updated
    <2>1. CASE Present(store, "object", target)
      <3>1. Scanned(cat, "object") = AddReplica(cat, "object", target, clock)
        BY <2>1 DEF Scanned
      <3>2. PICK t \in Shards : t = target
        BY <1>1
      <3> QED
        BY <1>1, <2>1, <3>1, <3>2, AddReplicaIs, KeysAre
    <2>2. CASE ~ Present(store, "object", target)
      BY <1>1, <2>2 DEF Scanned
    <2> QED
      BY <2>1, <2>2
  <1>4. \A c \in Catalogs : Scanned(c, "marker") \in Catalogs /\ Scanned(c, "marker")["object"] = c["object"]
    BY <1>1, AddReplicaIs, KeysAre DEF Scanned
  <1> QED
    BY <1>1, <1>2, <1>3, <1>4 DEF Entry

----------------------------------------------------------------------------
(* The basic invariants.                                                   *)

\* A copy stays, goes, or is written now.
Written(k, s) ==
    /\ clock' > clock
    /\ store'[k][s].mtime = clock /\ store'[k][s].val > 0
    /\ k = "marker" => store'[k][s].val <= clock

\* What a step may do to the copies.
Moves == \A k \in Keys, s \in Shards : store'[k][s] \in {store[k][s], Absent} \/ Written(k, s)

\* Such a step keeps the copies dated.
LEMMA DatedKept ==
    ASSUME Base, store' \in Stores, clock' \in Nat, clock' >= clock, Moves
    PROVE  Dated'
  <1>1. clock \in Nat \ {0} /\ store \in Stores
    BY DEF Base, Typed
  <1>2. ASSUME NEW k \in Keys, NEW s \in Shards
        PROVE  /\ \/ store'[k][s] = Absent
                  \/ store'[k][s].val > 0 /\ store'[k][s].mtime \in 1..(clock' - 1)
               /\ k = "marker" => store'[k][s].val < clock'
    <2>1. \/ store[k][s] = Absent
          \/ store[k][s].val > 0 /\ store[k][s].mtime \in 1..(clock - 1)
      BY DEF Base, Dated
    <2>2. k = "marker" => store[k][s].val < clock
      BY DEF Base, Dated, Mark
    <2>3. store[k][s] \in Copy /\ store'[k][s] \in Copy
      BY <1>1 DEF Stores
    <2>4. CASE store'[k][s] = Absent
      BY <2>4, <1>1, AbsentIs
    <2>5. CASE store'[k][s] = store[k][s]
      BY <2>5, <2>1, <2>2, <2>3, <1>1 DEF Copy
    <2>6. CASE Written(k, s)
      <3>1. PICK c \in Copy : c = store'[k][s]
        BY <2>3
      <3>2. clock' > clock /\ c.mtime = clock /\ c.val > 0 /\ (k = "marker" => c.val <= clock)
        BY <2>6, <3>1 DEF Written
      <3>3. c.mtime \in 1..(clock' - 1) /\ (k = "marker" => c.val < clock')
        <4>1. PICK v \in Nat, m \in Nat : v = c.val /\ m = c.mtime
          BY <3>1 DEF Copy
        <4>2. m = clock /\ clock' > clock /\ (k = "marker" => v <= clock)
          BY <3>2, <4>1
        <4>3. m \in 1..(clock' - 1) /\ (k = "marker" => v < clock')
          <5>1. PICK d \in Nat : d = clock'
            OBVIOUS
          <5>2. PICK e \in Nat : e = clock /\ e >= 1
            BY <1>1
          <5>3. d > e /\ m = e /\ (k = "marker" => v <= e)
            BY <4>2, <5>1, <5>2, Zenon
          <5>4. m \in 1..(d - 1)
            BY <5>2, <5>3
          <5>5. k = "marker" => v < d
            BY <5>3
          <5> QED
            BY <5>1, <5>4, <5>5
        <4> QED
          BY <4>1, <4>3
      <3> QED
        BY <3>1, <3>2, <3>3
    <2> QED
      BY <2>4, <2>5, <2>6 DEF Moves
  <1> QED
    BY <1>2, KeysAre DEF Dated, Mark

\* Moves, for an operation whose effect on each of the two keys is known.
LEMMA MovesByKey ==
    ASSUME \A s \in Shards : Obj(s)' \in {Obj(s), Absent} \/ Written("object", s),
           \A s \in Shards : Mark(s)' \in {Mark(s), Absent} \/ Written("marker", s)
    PROVE  Moves
  BY KeysAre DEF Moves, Obj, Mark

\* The present is a time.
LEMMA NowIs ==
    ASSUME NEW n \in Nat, n > 0, NEW k \in Keys, NEW s \in Shards, clock' > clock,
           store'[k][s] = [val |-> n, mtime |-> clock], k = "marker" => n <= clock
    PROVE  Written(k, s)
  BY DEF Written

\* A copy of a copy that is present.
LEMMA CopiedNow ==
    ASSUME Base, NEW k \in Keys, NEW r \in Shards, NEW s \in Shards, clock' > clock,
           Present(store, k, r), store'[k][s] = [val |-> store[k][r].val, mtime |-> clock]
    PROVE  Written(k, s)
  <1>1. store[k][r] \in Copy /\ clock \in Nat
    BY DEF Base, Typed, Stores
  <1>2. store[k][r].val > 0 /\ store[k][r].val \in Nat
    BY <1>1 DEF Base, Dated, Present, Copy
  <1>3. k = "marker" => store[k][r].val <= clock
    BY <1>1, <1>2 DEF Base, Dated, Mark
  <1> QED
    BY <1>2, <1>3, NowIs

\* Every step keeps the types.
LEMMA TypedStep ==
    ASSUME Base, Supported(set), [Next]_vars
    PROVE  Typed'
  <1>1. /\ store \in Stores /\ cat \in Catalogs /\ health \in [Shards -> Healths]
        /\ held \subseteq Shards /\ down \subseteq Shards
        /\ sync \in [shard : Shards, step : Steps]
        /\ clock \in Nat \ {0} /\ puts \in Nat /\ expect \subseteq Nat /\ set \in Setting
    BY DEF Base, Typed
  <1>2. set' \in Setting
    BY <1>1, SettingStays DEF SameSetting
  <1>3. target \in Shards
    BY TargetTyped DEF Base
  <1>4. clock + 1 \in Nat \ {0} /\ clock + 2 \in Nat \ {0} /\ puts + 1 \in Nat
    BY <1>1
  <1>5. NoSync \in [shard : Shards, step : Steps]
    BY ShardsFinite DEF NoSync, Steps
  <1>6. CASE Put
    <2>1. PutAttempt.health \in [Shards -> Healths]
      BY <1>6, PutDoes, PutOnce
    <2>2. /\ store' \in Stores /\ cat' \in Catalogs /\ health' = PutAttempt.health
      BY <1>6, PutDoes
    <2>3. clock' = clock + 2 /\ puts' = puts + 1 /\ expect' = {puts + 1} /\ UNCHANGED <<held, down, sync, set>>
      BY <1>6 DEF Put
    <2> QED
      BY <1>1, <1>2, <1>4, <2>1, <2>2, <2>3 DEF Typed
  <1>7. CASE PutFails
    <2>1. PutAttempt.health \in [Shards -> Healths]
      BY <1>7, PutFailsDoes, PutOnce
    <2>2. /\ store' \in Stores /\ cat' = cat /\ health' = PutAttempt.health
      BY <1>7, PutFailsDoes
    <2>3. clock' = clock + 1 /\ puts' = puts + 1 /\ UNCHANGED <<held, down, sync, set>>
      BY <1>7 DEF PutFails
    <2>4. expect' \subseteq expect \cup {puts + 1}
      BY <1>7 DEF PutFails
    <2> QED
      BY <1>1, <1>2, <1>4, <2>1, <2>2, <2>3, <2>4 DEF Typed
  <1>8. CASE Delete
    <2>1. /\ store' \in Stores /\ cat' \in Catalogs /\ ClientsRun /\ Available(health) # {}
          /\ health' = Attempt("marker", Available(health), health).health
      BY <1>8, DeleteDoes
    <2>2. health' \in [Shards -> Healths]
      BY <2>1, DeleteOnce
    <2>3. clock' = clock + 2 /\ expect' \in {{0}, expect \cup {0}} /\ UNCHANGED <<held, down, sync, puts, set>>
      BY <1>8 DEF Delete
    <2> QED
      BY <1>1, <1>2, <1>4, <2>1, <2>2, <2>3 DEF Typed
  <1>9. CASE DeleteFails
    <2>1. /\ store' \in Stores /\ cat' = cat /\ ClientsRun /\ Available(health) # {}
          /\ health' = Attempt("marker", Available(health), health).health
      BY <1>9, DeleteFailsDoes
    <2>2. health' \in [Shards -> Healths]
      BY <2>1, DeleteOnce
    <2>3. clock' = clock + 1 /\ expect' \subseteq expect \cup {0} /\ UNCHANGED <<held, down, sync, puts, set>>
      BY <1>9 DEF DeleteFails
    <2>4. expect' \subseteq Nat
      BY <1>1, <2>3
    <2> QED
      BY <1>1, <1>2, <1>4, <2>1, <2>2, <2>3, <2>4 DEF Typed
  <1>10. ASSUME NEW s \in Shards, Get(s) PROVE Typed'
    BY <1>1, <1>2, <1>4, <1>10, GetDoes DEF Typed, Get
  <1>11. ASSUME NEW s \in Shards, Fail(s) \/ Return(s) PROVE Typed'
    <2>1. down' \subseteq Shards /\ UNCHANGED <<store, cat, health, held, sync, clock, puts, expect>>
      BY <1>1, <1>11 DEF Fail, Return
    <2>2. /\ store' \in Stores /\ cat' \in Catalogs /\ health' \in [Shards -> Healths]
          /\ held' \subseteq Shards /\ sync' \in [shard : Shards, step : Steps]
          /\ clock' \in Nat \ {0} /\ puts' \in Nat /\ expect' \subseteq Nat
      BY <1>1, <2>1
    <2> QED
      BY <1>2, <2>1, <2>2 DEF Typed
  <1>12. ASSUME NEW s \in Shards, Detach(s) \/ HoldOffline(s) \/ ReleaseHold(s) PROVE Typed'
    <2>1. health' \in [Shards -> Healths]
      BY <1>1, <1>12 DEF Detach, HoldOffline, ReleaseHold, Healths
    <2> QED
      BY <1>1, <1>2, <1>12, <2>1 DEF Typed, Detach, HoldOffline, ReleaseHold
  <1>13. CASE RebuildCatalog
    <2>1. cat' \in Catalogs
      BY <1>13, RebuildDoes
    <2>2. UNCHANGED <<store, health, held, down, sync, clock, puts, expect, set>>
      BY <1>13 DEF RebuildCatalog
    <2> QED
      BY <1>1, <2>1, <2>2 DEF Typed
  <1>14. ASSUME NEW k \in Keys, NEW from \in Shards, NEW to \in Shards, Replicate(k, from, to)
         PROVE  Typed'
    <2>1. store' \in Stores /\ cat' \in Catalogs
      BY <1>14, ReplicateDoes
    <2>2. clock' = clock + 1 /\ UNCHANGED <<health, held, down, sync, puts, expect, set>>
      BY <1>14 DEF Replicate
    <2> QED
      BY <1>1, <1>4, <2>1, <2>2 DEF Typed
  <1>15. ASSUME NEW k \in Keys, NEW s \in Shards, Trim(k, s)
         PROVE  Typed'
    <2>1. store' \in Stores /\ cat' \in Catalogs
      BY <1>15, TrimDoes
    <2>2. UNCHANGED <<health, held, down, sync, clock, puts, expect, set>>
      BY <1>15 DEF Trim
    <2> QED
      BY <1>1, <2>1, <2>2 DEF Typed
  <1>16. CASE VacuumMarker \/ VacuumObject
    <2>1. store' \in Stores /\ cat' \in Catalogs
      BY <1>16, VacuumMarkerDoes, VacuumObjectDoes
    <2>2. clock' = clock + 1 /\ UNCHANGED <<health, held, down, sync, puts, expect, set>>
      BY <1>16 DEF VacuumMarker, VacuumObject
    <2> QED
      BY <1>1, <1>4, <2>1, <2>2 DEF Typed
  <1>17. ASSUME NEW s \in Shards, SyncBegin(s) PROVE Typed'
    <2>1. health' \in [Shards -> Healths]
      BY <1>1, <1>17 DEF SyncBegin, Healths
    <2>2. sync' \in [shard : Shards, step : Steps]
      BY <1>17 DEF SyncBegin, Steps
    <2> QED
      BY <1>1, <1>2, <1>17, <2>1, <2>2 DEF Typed, SyncBegin
  <1>18. ASSUME NEW x \in Steps PROVE [sync EXCEPT !.step = x] \in [shard : Shards, step : Steps]
    BY <1>1
  <1>19. CASE SyncCopy
    <2>1. store' \in Stores /\ sync' \in [shard : Shards, step : Steps]
      BY <1>19, <1>18, SyncCopyDoes DEF Steps
    <2>2. clock' = clock + 1 /\ UNCHANGED <<cat, health, held, down, puts, expect, set>>
      BY <1>19 DEF SyncCopy
    <2> QED
      BY <1>1, <1>4, <2>1, <2>2 DEF Typed
  <1>20. CASE SyncReplay
    <2>1. store' \in Stores /\ sync' \in [shard : Shards, step : Steps]
      BY <1>20, <1>18, SyncReplayDoes DEF Steps
    <2>2. UNCHANGED <<cat, health, held, down, clock, puts, expect, set>>
      BY <1>20 DEF SyncReplay
    <2> QED
      BY <1>1, <1>4, <2>1, <2>2 DEF Typed
  <1>21. CASE SyncRefresh
    <2>1. store' \in Stores /\ sync' \in [shard : Shards, step : Steps]
      BY <1>21, <1>18, SyncRefreshDoes DEF Steps
    <2>2. clock' = clock + 1 /\ UNCHANGED <<cat, health, held, down, puts, expect, set>>
      BY <1>21 DEF SyncRefresh
    <2> QED
      BY <1>1, <1>4, <2>1, <2>2 DEF Typed
  <1>22. CASE SyncMarkers
    <2>1. store' \in Stores /\ cat' \in Catalogs /\ sync' \in [shard : Shards, step : Steps]
      BY <1>22, <1>18, SyncMarkersDoes DEF Steps
    <2>2. clock' = clock + 1 /\ UNCHANGED <<health, held, down, puts, expect, set>>
      BY <1>22 DEF SyncMarkers
    <2> QED
      BY <1>1, <1>4, <2>1, <2>2 DEF Typed
  <1>23. CASE SyncMirror
    <2>1. /\ store' \in Stores /\ sync' \in [shard : Shards, step : Steps]
          /\ health' \in [Shards -> Healths]
      BY <1>23, <1>1, <1>3, <1>5, <1>18, SyncMirrorDoes DEF Steps, Healths
    <2>2. clock' = clock + 1 /\ UNCHANGED <<cat, held, down, puts, expect, set>>
      BY <1>23 DEF SyncMirror
    <2> QED
      BY <1>1, <1>4, <2>1, <2>2 DEF Typed
  <1>24. CASE Attach
    <2>1. /\ cat' \in Catalogs /\ sync' \in [shard : Shards, step : Steps]
          /\ health' \in [Shards -> Healths]
      BY <1>24, <1>1, <1>18, AttachDoes DEF Steps, Healths
    <2>2. held' = held \ {target} /\ UNCHANGED <<store, down, clock, puts, expect, set>>
      BY <1>24 DEF Attach
    <2> QED
      BY <1>1, <2>1, <2>2 DEF Typed
  <1>25. CASE Scan
    <2>1. /\ cat' \in Catalogs /\ sync' \in [shard : Shards, step : Steps]
          /\ health' \in [Shards -> Healths]
      BY <1>25, <1>1, <1>5, ScanDoes DEF Healths
    <2>2. clock' = clock + 1 /\ UNCHANGED <<store, held, down, puts, expect, set>>
      BY <1>25 DEF Scan
    <2> QED
      BY <1>1, <1>4, <2>1, <2>2 DEF Typed
  <1>26. CASE UNCHANGED vars
    BY <1>1, <1>26 DEF Typed, vars
  <1> QED
    BY <1>6, <1>7, <1>8, <1>9, <1>10, <1>11, <1>12, <1>13, <1>14, <1>15, <1>16, <1>17, <1>19, <1>20,
       <1>21, <1>22, <1>23, <1>24, <1>25, <1>26 DEF Next, SyncStep

\* Every step keeps the copies dated.
LEMMA DatedStep ==
    ASSUME Base, Supported(set), [Next]_vars
    PROVE  Dated'
  <1>1. /\ store \in Stores /\ clock \in Nat \ {0} /\ puts \in Nat
        /\ store' \in Stores /\ clock' \in Nat /\ puts + 1 \in Nat /\ puts + 1 > 0
    BY TypedStep DEF Base, Typed
  <1>2. Moves => Dated' \/ clock' < clock
    BY <1>1, DatedKept
  <1>3. CASE UNCHANGED <<store, clock>>
    BY <1>1, <1>2, <1>3 DEF Moves
  <1>4. CASE clock' = clock + 1 /\ store' = store
    BY <1>1, <1>2, <1>4 DEF Moves
  <1>6. CASE Put
    <2>1. clock' = clock + 2
      BY <1>6 DEF Put
    <2>2. /\ \A s \in Shards : Obj(s)' = Obj(s) \/ Obj(s)' = [val |-> puts + 1, mtime |-> clock]
          /\ \A s \in Shards : Mark(s)' \in {Mark(s), Absent}
      BY <1>6, PutDoes
    <2>3. clock' > clock
      BY <1>1, <2>1
    <2>4. \A s \in Shards : Obj(s)' \in {Obj(s), Absent} \/ Written("object", s)
      BY <1>1, <2>2, <2>3, NowIs, KeysAre DEF Obj
    <2>5. Moves
      BY <2>2, <2>4, MovesByKey
    <2> QED
      BY <1>1, <1>2, <2>3, <2>5
  <1>7. CASE PutFails
    <2>1. clock' = clock + 1
      BY <1>7 DEF PutFails
    <2>2. /\ \A s \in Shards : Obj(s)' \in {Obj(s), Absent, [val |-> puts + 1, mtime |-> clock]}
          /\ \A s \in Shards : Mark(s)' = Mark(s)
      BY <1>7, PutFailsDoes
    <2>3. clock' > clock
      BY <1>1, <2>1
    <2>4. \A s \in Shards : Obj(s)' \in {Obj(s), Absent} \/ Written("object", s)
      BY <1>1, <2>2, <2>3, NowIs, KeysAre DEF Obj
    <2>5. Moves
      BY <2>2, <2>4, MovesByKey
    <2> QED
      BY <1>1, <1>2, <2>3, <2>5
  <1>8. CASE Delete
    <2>1. clock' = clock + 2
      BY <1>8 DEF Delete
    <2>2. /\ \A s \in Shards : Obj(s)' \in {Obj(s), Absent}
          /\ \A s \in Shards : Mark(s)' \in {Mark(s), [val |-> clock, mtime |-> clock]}
      BY <1>8, DeleteDoes
    <2>3. clock' > clock
      BY <1>1, <2>1
    <2>4. \A s \in Shards : Mark(s)' \in {Mark(s), Absent} \/ Written("marker", s)
      BY <1>1, <2>2, <2>3, NowIs, KeysAre DEF Mark
    <2>5. Moves
      BY <2>2, <2>4, MovesByKey
    <2> QED
      BY <1>1, <1>2, <2>3, <2>5
  <1>9. CASE DeleteFails
    <2>1. clock' = clock + 1
      BY <1>9 DEF DeleteFails
    <2>2. /\ \A s \in Shards : Obj(s)' = Obj(s)
          /\ \A s \in Shards : Mark(s)' \in {Mark(s), Absent, [val |-> clock, mtime |-> clock]}
      BY <1>9, DeleteFailsDoes
    <2>3. clock' > clock
      BY <1>1, <2>1
    <2>4. \A s \in Shards : Mark(s)' \in {Mark(s), Absent} \/ Written("marker", s)
      BY <1>1, <2>2, <2>3, NowIs, KeysAre DEF Mark
    <2>5. Moves
      BY <2>2, <2>4, MovesByKey
    <2> QED
      BY <1>1, <1>2, <2>3, <2>5
  <1>14. ASSUME NEW k \in Keys, NEW from \in Shards, NEW to \in Shards, Replicate(k, from, to)
         PROVE  Dated'
    <2>1. clock' = clock + 1
      BY <1>14 DEF Replicate
    <2>2. clock' > clock
      BY <1>1, <2>1
    <2>3. /\ \A j \in Keys : j # k => store'[j] = store[j]
          /\ \A s \in Shards : s # to => store'[k][s] = store[k][s]
          /\ store'[k][to] = [val |-> store[k][from].val, mtime |-> clock] /\ Present(store, k, from)
      BY <1>14, ReplicateDoes
    <2>4. Written(k, to)
      BY <2>2, <2>3, CopiedNow
    <2>5. Moves
      BY <2>3, <2>4 DEF Moves
    <2> QED
      BY <1>1, <1>2, <2>2, <2>5
  <1>15. ASSUME NEW k \in Keys, NEW s \in Shards, Trim(k, s)
         PROVE  Dated'
    <2>1. clock' = clock
      BY <1>15 DEF Trim
    <2>2. /\ \A j \in Keys : j # k => store'[j] = store[j]
          /\ \A r \in Shards : store'[k][r] \in {store[k][r], Absent}
      BY <1>15, TrimDoes
    <2>5. Moves
      BY <2>2 DEF Moves
    <2> QED
      BY <1>1, <1>2, <2>1, <2>5
  <1>16. CASE VacuumMarker \/ VacuumObject
    <2>1. clock' = clock + 1
      BY <1>16 DEF VacuumMarker, VacuumObject
    <2>2. /\ \A s \in Shards : Obj(s)' \in {Obj(s), Absent}
          /\ \A s \in Shards : Mark(s)' \in {Mark(s), Absent}
      BY <1>16, VacuumMarkerDoes, VacuumObjectDoes
    <2>5. Moves
      BY <2>2, MovesByKey
    <2> QED
      BY <1>1, <1>2, <2>1, <2>5
  <1>19. CASE SyncCopy
    <2>1. clock' = clock + 1
      BY <1>19 DEF SyncCopy
    <2>2. clock' > clock
      BY <1>1, <2>1
    <2>3. ASSUME NEW k \in Keys, NEW s \in Shards
          PROVE  store'[k][s] \in {store[k][s], Absent} \/ Written(k, s)
      <3>1. CASE store'[k][s] = store[k][s]
        BY <3>1
      <3>2. CASE \E r \in Sources(k) : /\ Present(store, k, r)
                                       /\ store'[k][s] = [val |-> store[k][r].val, mtime |-> clock]
        <4>1. Sources(k) \subseteq Shards
          BY SourcesAre DEF Base
        <4> QED
          BY <2>2, <3>2, <4>1, CopiedNow
      <3> QED
        BY <1>19, <3>1, <3>2, SyncCopyDoes
    <2>5. Moves
      BY <2>3 DEF Moves
    <2> QED
      BY <1>1, <1>2, <2>2, <2>5
  <1>20. CASE SyncReplay
    <2>1. clock' = clock
      BY <1>20 DEF SyncReplay
    <2>2. /\ \A s \in Shards : Obj(s)' \in {Obj(s), Absent}
          /\ \A s \in Shards : Mark(s)' = Mark(s)
      BY <1>20, SyncReplayDoes
    <2>5. Moves
      BY <2>2, MovesByKey
    <2> QED
      BY <1>1, <1>2, <2>1, <2>5
  <1>21. CASE SyncRefresh
    <2>1. clock' = clock + 1
      BY <1>21 DEF SyncRefresh
    <2>2. clock' > clock
      BY <1>1, <2>1
    <2>3. \A s \in Shards : Obj(s)' \in {Obj(s), Absent} \/ Written("object", s)
      <3> TAKE s \in Shards
      <3>1. CASE \E r \in Shards : /\ Present(store, "object", r)
                                   /\ Obj(s)' = [val |-> Obj(r).val, mtime |-> clock]
        BY <2>2, <3>1, CopiedNow, KeysAre DEF Obj
      <3> QED
        BY <1>21, <3>1, SyncRefreshDoes
    <2>4. \A s \in Shards : Mark(s)' = Mark(s)
      BY <1>21, SyncRefreshDoes
    <2>5. Moves
      BY <2>3, <2>4, MovesByKey
    <2> QED
      BY <1>1, <1>2, <2>2, <2>5
  <1>22. CASE SyncMarkers
    <2>1. clock' = clock + 1
      BY <1>22 DEF SyncMarkers
    <2>2. /\ \A s \in Shards : Obj(s)' = Obj(s)
          /\ \A s \in Shards : Mark(s)' \in {Mark(s), Absent}
      BY <1>22, SyncMarkersDoes
    <2>5. Moves
      BY <2>2, MovesByKey
    <2> QED
      BY <1>1, <1>2, <2>1, <2>5
  <1>23. CASE SyncMirror
    <2>1. clock' = clock + 1
      BY <1>23 DEF SyncMirror
    <2>2. clock' > clock
      BY <1>1, <2>1
    <2>3. CASE store' = store
      BY <1>4, <2>1, <2>3
    <2>4. CASE store' # store
      <3>1. /\ \A k \in Keys, s \in Shards : s # target => store'[k][s] = store[k][s]
            /\ \E src \in MirrorSources : \A k \in Keys, s \in Shards : s = target =>
                       /\ Present(store, k, src) =>
                            store'[k][s] = IF store[k][src].mtime > store[k][s].mtime
                                           THEN [val |-> store[k][src].val, mtime |-> clock]
                                           ELSE store[k][s]
                       /\ ~ Present(store, k, src) => store'[k][s] = Absent
        BY <1>23, <2>4, SyncMirrorDoes
      <3>2. PICK src \in Shards : \A k \in Keys, s \in Shards : s = target =>
                       /\ Present(store, k, src) =>
                            store'[k][s] = IF store[k][src].mtime > store[k][s].mtime
                                           THEN [val |-> store[k][src].val, mtime |-> clock]
                                           ELSE store[k][s]
                       /\ ~ Present(store, k, src) => store'[k][s] = Absent
        BY <3>1 DEF MirrorSources
      <3>3. ASSUME NEW k \in Keys, NEW s \in Shards
            PROVE  store'[k][s] \in {store[k][s], Absent} \/ Written(k, s)
        <4>1. CASE store'[k][s] = [val |-> store[k][src].val, mtime |-> clock] /\ Present(store, k, src)
          BY <2>2, <4>1, CopiedNow
        <4> QED
          BY <3>1, <3>2, <4>1
      <3>5. Moves
        BY <3>3 DEF Moves
      <3> QED
        BY <1>1, <1>2, <2>2, <3>5
    <2> QED
      BY <2>3, <2>4
  <1>30. \/ Put \/ PutFails \/ Delete \/ DeleteFails \/ VacuumMarker \/ VacuumObject
         \/ \E k \in Keys, from, to \in Shards : Replicate(k, from, to)
         \/ \E k \in Keys, s \in Shards : Trim(k, s)
         \/ SyncCopy \/ SyncReplay \/ SyncRefresh \/ SyncMarkers \/ SyncMirror
         \/ UNCHANGED <<store, clock>>
         \/ clock' = clock + 1 /\ store' = store
    BY DEF Next, SyncStep, vars, Get, Fail, Return, Detach, HoldOffline, ReleaseHold, RebuildCatalog,
           SyncBegin, Attach, Scan
  <1> QED
    BY <1>3, <1>4, <1>6, <1>7, <1>8, <1>9, <1>14, <1>15, <1>16, <1>19, <1>20, <1>21, <1>22, <1>23, <1>30

----------------------------------------------------------------------------
(* The phases of a sync, the health of the shards and who is away.         *)

\* The conditions on states, holds and syncs.
Control == Phases /\ Quiet /\ Lone

\* Steps that leave all of this alone.
LEMMA ControlFrame ==
    ASSUME Base, SameSetting, UNCHANGED <<health, held, down, sync>>
    PROVE  Control'
  <1>1. Phases'
    BY DEF Base, Phases, SameSetting, target
  <1>2. Quiet'
    BY DEF Base, Quiet, SameSetting, target
  <1>3. Lone'
    BY DEF Base, Lone, SameSetting, Away
  <1> QED
    BY <1>1, <1>2, <1>3 DEF Control

\* Clients mark shards on which a write failed.
LEMMA ControlHurt ==
    ASSUME Base, Supported(set), SameSetting, sync = NoSync, Hurt(health'),
           health' \in [Shards -> Healths],
           ~ set.errors => health' = health, UNCHANGED <<held, down, sync>>
    PROVE  Control'
  <1>1. set.rf # N => ~ set.errors
    BY DEF Supported, MirrorSetting, PartSetting
  <1>2. Phases'
    <2>0. held \subseteq Shards
      BY DEF Base, Typed
    <2>1. \A s \in Shards : health'[s] # "Syncing"
      BY DEF Hurt, Base, Phases
    <2>2. \A s \in held : health'[s] \in Unavailable \cup {"Syncing"}
      BY <2>0 DEF Hurt, Base, Phases, Unavailable
    <2>3. sync' = NoSync /\ sync'.step = "idle"
      BY DEF NoSync
    <2> QED
      BY <2>1, <2>2, <2>3 DEF Phases, target
  <1>3. Quiet'
    BY DEF Base, Quiet, SameSetting, target
  <1>4. Lone'
    BY <1>1 DEF Base, Lone, SameSetting, Away
  <1> QED
    BY <1>2, <1>3, <1>4 DEF Control

\* A shard that is away already changes state.
LEMMA ControlMove ==
    ASSUME Base, SameSetting, NEW s \in Shards, NEW x \in Healths, x # "Syncing", x # "Degraded",
           health' = [health EXCEPT ![s] = x], sync' = NoSync,
           sync = NoSync \/ s = target, held' \subseteq held \cup {s},
           s \in held' => x \in Unavailable,
           UNCHANGED down,
           set.rf # N => s \in Away
    PROVE  Control'
  <1>0. health \in [Shards -> Healths] /\ held \subseteq Shards /\ down \subseteq Shards
    BY DEF Base, Typed
  <1>1. \A r \in Shards : health'[r] = IF r = s THEN x ELSE health[r]
    BY <1>0
  <1>2. sync'.step = "idle"
    BY DEF NoSync
  <1>3. Phases'
    <2>1. \A r \in Shards : health'[r] # "Syncing"
      BY <1>1 DEF Base, Phases
    <2>2. \A r \in held' : health'[r] \in Unavailable \cup {"Syncing"}
      BY <1>0, <1>1 DEF Base, Phases
    <2> QED
      BY <1>2, <2>1, <2>2 DEF Phases
  <1>4. Quiet'
    BY <1>1 DEF Base, Quiet, SameSetting
  <1>5. Lone'
    <2>1. Away' \subseteq Away \cup {s}
      BY <1>1 DEF Away
    <2>2. set.rf # N => Away' \subseteq Away
      BY <2>1
    <2> QED
      BY <2>2 DEF Base, Lone, SameSetting
  <1> QED
    BY <1>3, <1>4, <1>5 DEF Control

\* A sync goes on to its next step.
LEMMA ControlGo ==
    ASSUME Base, SameSetting, NEW x \in Steps, x # "idle", sync.step # "idle",
           sync' = [sync EXCEPT !.step = x],
           health' = health, UNCHANGED down, held' \subseteq held,
           set.rf = N => x \in {"attach", "scan"}, x # "mirror",
           x = "scan" => target \notin held'
    PROVE  Control'
  <1>0. sync \in [shard : Shards, step : Steps] /\ held \subseteq Shards
    BY DEF Base, Typed
  <1>1. sync'.step = x /\ target' = target /\ sync # NoSync /\ sync' # NoSync
    BY <1>0 DEF target, NoSync
  <1>2. Phases'
    BY <1>1, Zenon DEF Base, Phases, SameSetting
  <1>3. Quiet'
    BY <1>1 DEF Base, Quiet, SameSetting
  <1>4. Lone'
    BY DEF Base, Lone, SameSetting, Away
  <1> QED
    BY <1>2, <1>3, <1>4 DEF Control

\* A sync begins on the one shard that is away.
LEMMA ControlBegin ==
    ASSUME Base, SameSetting, NEW s \in Shards, SyncBegin(s)
    PROVE  Control'
  <1>0. /\ health \in [Shards -> Healths] /\ held \subseteq Shards /\ down \subseteq Shards
        /\ set \in Setting
    BY DEF Base, Typed
  <1>1. /\ sync = NoSync /\ health[s] \in Unavailable
        /\ health' = [health EXCEPT ![s] = "Syncing"]
        /\ sync' = [shard |-> s, step |-> IF set.rf = N THEN "mirror" ELSE "copy"]
        /\ ~ set.errors => s \notin down
        /\ UNCHANGED <<held, down, set>>
    BY DEF SyncBegin, Unavailable
  <1>2. \A r \in Shards : health'[r] = IF r = s THEN "Syncing" ELSE health[r]
    BY <1>0, <1>1
  <1>3. /\ target' = s /\ sync' # NoSync /\ sync'.step \in {"mirror", "copy"}
        /\ set.rf = N => sync'.step = "mirror"
        /\ set.rf # N => sync'.step = "copy"
    BY <1>1 DEF target, NoSync
  <1>4. Phases'
    <2>1. \A r \in Shards : health'[r] = "Syncing" => r = s
      BY <1>1, <1>2 DEF Base, Phases
    <2>2. \A r \in held' : health'[r] \in Unavailable \cup {"Syncing"}
      BY <1>0, <1>1, <1>2 DEF Base, Phases
    <2>3. health'[s] = "Syncing"
      BY <1>2
    <2> QED
      BY <1>1, <1>3, <2>1, <2>2, <2>3 DEF Phases
  <1>5. Quiet'
    BY <1>1, <1>2, <1>3 DEF Base, Quiet
  <1>6. Lone'
    <2>1. s \in Away
      BY <1>1 DEF Away
    <2>2. Away' \subseteq Away \cup {s}
      BY <1>1, <1>2 DEF Away
    <2> QED
      BY <1>1, <2>1, <2>2 DEF Base, Lone
  <1> QED
    BY <1>4, <1>5, <1>6 DEF Control

\* The setting allows one shard away at most: nobody else is away.
LEMMA OutageAlone ==
    ASSUME Base, Supported(set), set.rf # N, NEW s \in Shards, Outage(s)
    PROVE  \A t \in Away : t = s
  <1>1. set.out <= 1 /\ set.out \in Int
    BY DEF Supported, MirrorSetting, PartSetting, Base, Typed, Setting
  <1>2. Away \cup {s} \subseteq Shards
    BY DEF Base, Typed, Away
  <1>3. PICK A \in SUBSET Shards : A = Away \cup {s}
    BY <1>2
  <1>4. IsFiniteSet(A) /\ Cardinality(A) \in Nat /\ Cardinality(A) <= 1
    BY <1>1, <1>3, ShardsFinite DEF Outage
  <1>5. ASSUME NEW t \in A, t # s PROVE FALSE
    <2>1. {s, t} \subseteq A
      BY <1>3, <1>5
    <2>2. IsFiniteSet({s}) /\ Cardinality({s}) = 1
      BY FS_Singleton
    <2>3. IsFiniteSet({s} \cup {t}) /\ Cardinality({s} \cup {t}) = 2
      BY <1>5, <2>2, FS_AddElement
    <2>4. Cardinality({s} \cup {t}) <= Cardinality(A)
      BY <1>4, <2>1, FS_Subset
    <2> QED
      BY <1>4, <2>3, <2>4
  <1> QED
    BY <1>3, <1>5

\* Every step keeps them.
LEMMA ControlStep ==
    ASSUME Base, Supported(set), [Next]_vars
    PROVE  Control'
  <1>0. /\ SameSetting /\ target \in Shards /\ sync \in [shard : Shards, step : Steps]
        /\ health \in [Shards -> Healths] /\ down \subseteq Shards /\ held \subseteq Shards
        /\ health' \in [Shards -> Healths]
    BY SettingStays, TargetTyped, TypedStep DEF Base, Typed
  <1>1. CASE UNCHANGED <<health, held, down, sync>>
    BY <1>0, <1>1, ControlFrame
  <1>2. CASE Put
    <2>1. /\ health' = PutAttempt.health /\ sync = NoSync /\ ClientsRun
          /\ SelectTargets("object", health) # {}
      BY <1>2, PutDoes
    <2>2. Hurt(health') /\ (~ set.errors => health' = health)
      BY <2>1, PutOnce
    <2>3. UNCHANGED <<held, down, sync>>
      BY <1>2 DEF Put
    <2> QED
      BY <1>0, <2>1, <2>2, <2>3, ControlHurt
  <1>3. CASE PutFails
    <2>1. /\ health' = PutAttempt.health /\ sync = NoSync /\ ClientsRun
          /\ SelectTargets("object", health) # {}
      BY <1>3, PutFailsDoes
    <2>2. Hurt(health') /\ (~ set.errors => health' = health)
      BY <2>1, PutOnce
    <2>3. UNCHANGED <<held, down, sync>>
      BY <1>3 DEF PutFails
    <2> QED
      BY <1>0, <2>1, <2>2, <2>3, ControlHurt
  <1>4. CASE Delete
    <2>1. /\ health' = Attempt("marker", Available(health), health).health /\ sync = NoSync /\ ClientsRun
          /\ Available(health) # {}
      BY <1>4, DeleteDoes
    <2>2. Hurt(health') /\ (~ set.errors => health' = health)
      BY <2>1, DeleteOnce
    <2>3. UNCHANGED <<held, down, sync>>
      BY <1>4 DEF Delete
    <2> QED
      BY <1>0, <2>1, <2>2, <2>3, ControlHurt
  <1>5. CASE DeleteFails
    <2>1. /\ health' = Attempt("marker", Available(health), health).health /\ sync = NoSync /\ ClientsRun
          /\ Available(health) # {}
      BY <1>5, DeleteFailsDoes
    <2>2. Hurt(health') /\ (~ set.errors => health' = health)
      BY <2>1, DeleteOnce
    <2>3. UNCHANGED <<held, down, sync>>
      BY <1>5 DEF DeleteFails
    <2> QED
      BY <1>0, <2>1, <2>2, <2>3, ControlHurt
  <1>6. ASSUME NEW s \in Shards, Fail(s) PROVE Control'
    <2>1. /\ set.errors \/ sync = NoSync \/ s # target
          /\ Outage(s) /\ down' = down \cup {s} /\ UNCHANGED <<health, held, sync>>
      BY <1>6 DEF Fail
    <2>2. Phases'
      BY <1>0, <2>1 DEF Base, Phases, SameSetting, target
    <2>3. Quiet'
      BY <1>0, <2>1 DEF Base, Quiet, SameSetting, target
    <2>4. Lone'
      <3>1. Away' \subseteq Away \cup {s}
        BY <2>1 DEF Away
      <3> QED
        BY <1>0, <2>1, <3>1, OutageAlone DEF Lone, SameSetting
    <2> QED
      BY <2>2, <2>3, <2>4 DEF Control
  <1>7. ASSUME NEW s \in Shards, Return(s) PROVE Control'
    <2>1. down' = down \ {s} /\ UNCHANGED <<health, held, sync, set>>
      BY <1>7 DEF Return
    <2>2. Phases'
      BY <2>1 DEF Base, Phases, target
    <2>3. Quiet'
      BY <2>1 DEF Base, Quiet, target
    <2>4. Lone'
      BY <2>1 DEF Base, Lone, Away
    <2> QED
      BY <2>2, <2>3, <2>4 DEF Control
  <1>8. ASSUME NEW s \in Shards, Detach(s) PROVE Control'
    <2>1. /\ s \in Away /\ health' = [health EXCEPT ![s] = "Offline"] /\ sync = NoSync /\ sync' = NoSync
          /\ held' \subseteq held \cup {s} /\ down' = down
      BY <1>8 DEF Detach, Away
    <2> QED
      BY <1>0, <2>1, ControlMove DEF Healths, Unavailable
  <1>9. ASSUME NEW s \in Shards, ReleaseHold(s) PROVE Control'
    <2>1. /\ s \in Away /\ health' = [health EXCEPT ![s] = "Offline"] /\ sync = NoSync /\ sync' = NoSync
          /\ held' \subseteq held \cup {s} /\ down' = down
      BY <1>9 DEF ReleaseHold, Away, Unavailable
    <2> QED
      BY <1>0, <2>1, ControlMove DEF Healths, Unavailable
  <1>10. ASSUME NEW s \in Shards, HoldOffline(s) PROVE Control'
    <2>1. /\ Outage(s) /\ health' = [health EXCEPT ![s] = "Detached"] /\ sync = NoSync /\ sync' = NoSync
          /\ held' = held \cup {s} /\ down' = down
      BY <1>10 DEF HoldOffline
    <2>2. \A r \in Shards : health'[r] = IF r = s THEN "Detached" ELSE health[r]
      BY <1>0, <2>1
    <2>3. Phases'
      <3>1. \A r \in Shards : health'[r] # "Syncing"
        BY <2>1, <2>2 DEF Base, Phases
      <3>2. \A r \in held' : health'[r] \in Unavailable \cup {"Syncing"}
        BY <1>0, <2>1, <2>2 DEF Base, Phases, Unavailable
      <3>3. sync'.step = "idle"
        BY <2>1 DEF NoSync
      <3> QED
        BY <2>1, <3>1, <3>2, <3>3 DEF Phases
    <2>4. Quiet'
      BY <1>0, <2>1, <2>2 DEF Base, Quiet, SameSetting
    <2>5. Lone'
      <3>1. Away' \subseteq Away \cup {s}
        BY <2>1, <2>2 DEF Away
      <3> QED
        BY <1>0, <2>1, <3>1, OutageAlone DEF Lone, SameSetting
    <2> QED
      BY <2>3, <2>4, <2>5 DEF Control
  <1>11. ASSUME NEW s \in Shards, SyncBegin(s) PROVE Control'
    BY <1>0, <1>11, ControlBegin
  <1>12. CASE SyncCopy
    <2>1. /\ sync.step = "copy" /\ sync' = [sync EXCEPT !.step = "replay"]
          /\ UNCHANGED <<health, held, down>>
      BY <1>12, SyncCopyDoes DEF SyncCopy
    <2> QED
      BY <1>0, <2>1, ControlGo DEF Steps, Base, Phases
  <1>13. CASE SyncReplay
    <2>1. /\ sync.step = "replay" /\ sync' = [sync EXCEPT !.step = "refresh"]
          /\ UNCHANGED <<health, held, down>>
      BY <1>13, SyncReplayDoes DEF SyncReplay
    <2> QED
      BY <1>0, <2>1, ControlGo DEF Steps, Base, Phases
  <1>14. CASE SyncRefresh
    <2>1. /\ sync.step = "refresh" /\ sync' = [sync EXCEPT !.step = "markers"]
          /\ UNCHANGED <<health, held, down>>
      BY <1>14, SyncRefreshDoes DEF SyncRefresh
    <2> QED
      BY <1>0, <2>1, ControlGo DEF Steps, Base, Phases
  <1>15. CASE SyncMarkers
    <2>1. /\ sync.step = "markers" /\ sync' = [sync EXCEPT !.step = "attach"]
          /\ UNCHANGED <<health, held, down>>
      BY <1>15, SyncMarkersDoes DEF SyncMarkers
    <2> QED
      BY <1>0, <2>1, ControlGo DEF Steps, Base, Phases
  <1>16. CASE SyncMirror
    <2>0. sync.step = "mirror" /\ UNCHANGED <<held, down>>
      BY <1>16, SyncMirrorDoes DEF SyncMirror
    <2>1. CASE sync' = [sync EXCEPT !.step = "attach"] /\ health' = health
      BY <1>0, <2>0, <2>1, ControlGo DEF Steps, Base, Phases
    <2>2. CASE sync' = NoSync /\ health' = [health EXCEPT ![target] = "Offline"]
      <3>1. set.rf = N
        BY <2>0 DEF Base, Phases
      <3>2. PICK t \in Shards : t = target
        BY <1>0
      <3> QED
        BY <1>0, <2>0, <2>2, <3>1, <3>2, ControlMove DEF Healths, Unavailable
    <2> QED
      BY <1>16, <2>1, <2>2, SyncMirrorDoes
  <1>17. CASE Attach
    <2>1. /\ sync.step = "attach" /\ sync' = [sync EXCEPT !.step = "scan"]
          /\ health' = [health EXCEPT ![target] = "Syncing"]
          /\ held' = held \ {target} /\ down' = down
      BY <1>17, AttachDoes DEF Attach
    <2>2. sync # NoSync /\ health[target] = "Syncing"
      BY <2>1 DEF Base, Phases, NoSync
    <2>3. health' = health
      BY <1>0, <2>1, <2>2
    <2> QED
      BY <1>0, <2>1, <2>3, ControlGo DEF Steps
  <1>18. CASE Scan
    <2>1. /\ sync.step = "scan" /\ sync' = NoSync /\ UNCHANGED <<held, down>>
          /\ \E x \in {"Offline", "Healthy"} : health' = [health EXCEPT ![target] = x]
      BY <1>18, ScanDoes DEF Scan
    <2>2. PICK x \in {"Offline", "Healthy"} : health' = [health EXCEPT ![target] = x]
      BY <2>1
    <2>3. PICK t \in Shards : t = target
      BY <1>0
    <2>4. sync # NoSync /\ health[t] = "Syncing" /\ t \notin held
      BY <2>1, <2>3 DEF Base, Phases, NoSync
    <2>5. t \in Away
      BY <2>3, <2>4 DEF Away
    <2>6. health' = [health EXCEPT ![t] = x] /\ x \in Healths
      BY <2>2, <2>3 DEF Healths
    <2> QED
      BY <1>0, <2>1, <2>2, <2>3, <2>4, <2>5, <2>6, ControlMove
  <1>20. \/ Put \/ PutFails \/ Delete \/ DeleteFails
         \/ \E s \in Shards : Fail(s) \/ Return(s) \/ Detach(s) \/ HoldOffline(s) \/ ReleaseHold(s)
         \/ \E s \in Shards : SyncBegin(s)
         \/ SyncCopy \/ SyncReplay \/ SyncRefresh \/ SyncMarkers \/ SyncMirror \/ Attach \/ Scan
         \/ UNCHANGED <<health, held, down, sync>>
    BY DEF Next, SyncStep, vars, Get, RebuildCatalog, Replicate, Trim, VacuumMarker, VacuumObject
  <1> QED
    BY <1>1, <1>2, <1>3, <1>4, <1>5, <1>6, <1>7, <1>8, <1>9, <1>10, <1>11, <1>12, <1>13, <1>14, <1>15,
       <1>16, <1>17, <1>18, <1>20

----------------------------------------------------------------------------
(* While an acknowledged object exists: L is a time no later than its last *)
(* acknowledged put and after every put it replaced.                       *)

\* A copy as late as L is current, no marker is, and the entry names such
\* copies.
Since(L) ==
    /\ \A s \in Shards : Obj(s).mtime >= L => Obj(s).val \in expect
    /\ \A s \in Shards : Mark(s).val < L
    /\ \A s \in Entry.shards : Obj(s).mtime >= L
    /\ \E s \in Shards : Obj(s).mtime >= L

\* One copy per shard: every shard in service is in the entry and has a copy
\* as late as L.
OnMirrors(L) ==
    /\ \A s \in Shards : health[s] = "Healthy" => Obj(s).mtime >= L /\ s \in Entry.shards
    /\ Entry.shards = {} => \A s \in Shards : health[s] \notin {"Healthy", "Degraded"}
    /\ sync.step \in {"attach", "scan"} =>
         /\ Obj(target).mtime >= L
         /\ \E s \in Shards : health[s] = "Healthy"

\* Fewer copies: the entry is as late as L and names two shards, but while
\* the sync of one of them is scanned.
OnParts(L) ==
    /\ Entry.updated >= L
    /\ sync.step # "scan" => Two(Entry.shards)
    /\ sync.step = "scan" =>
         /\ Entry.shards # {} /\ target \notin Entry.shards
         /\ Two(Entry.shards) \/ Present(store, "object", target)
    /\ sync.step \in {"markers", "attach", "scan"} /\ Present(store, "object", target) => Obj(target).mtime >= L

\* The object exists since L.
LiveAt(L) == Since(L) /\ (set.rf = N => OnMirrors(L)) /\ (set.rf # N => OnParts(L))

\* Unless the object may be deleted it exists since some time.
Live == 0 \notin expect => \E L \in 1..clock : LiveAt(L)

\* The types of a copy and of the entry.
LEMMA CopyTyped ==
    ASSUME Typed
    PROVE  /\ \A s \in Shards : Obj(s) \in Copy /\ Obj(s).mtime \in Nat /\ Obj(s).val \in Nat
           /\ \A s \in Shards : Mark(s) \in Copy /\ Mark(s).mtime \in Nat /\ Mark(s).val \in Nat
           /\ Entry.shards \subseteq Shards /\ Entry.updated \in Nat
           /\ \A s \in Shards : Obj(s).mtime > 0 => Present(store, "object", s)
  BY KeysAre DEF Typed, Stores, Catalogs, Copy, Obj, Mark, Entry, Present, Absent

\* What is left alone stays live.
LEMMA LiveFrame ==
    ASSUME Base, SameSetting, NEW L \in 1..clock, LiveAt(L), expect \subseteq expect',
           \A s \in Shards : Obj(s)' = Obj(s),
           \A s \in Shards : Mark(s)'.val < L,
           Entry' = Entry,
           \A s \in Shards : health'[s] = "Healthy" => health[s] = "Healthy",
           \A s \in Shards : health'[s] = "Degraded" => health[s] \in {"Healthy", "Degraded"},
           \/ sync' = sync /\ health' = health
           \/ sync'.step \in {"idle", "mirror", "copy"} /\ (set.rf # N => sync.step # "scan")
    PROVE  LiveAt(L)'
  <1>0. target \in Shards /\ Entry.shards \subseteq Shards
    BY CopyTyped, TargetTyped DEF Base
  <1>1. Since(L)'
    BY <1>0 DEF LiveAt, Since
  <1>2. CASE sync' = sync /\ health' = health
    <2>1. target' = target
      BY <1>2 DEF target
    <2>2. Obj(target)' = Obj(target) /\ (Present(store, "object", target)' <=> Present(store, "object", target))
      BY <1>0, <2>1 DEF Obj, Present
    <2>3. set.rf = N => OnMirrors(L)'
      BY <1>2, <2>1, <2>2 DEF LiveAt, OnMirrors
    <2>4. set.rf # N => OnParts(L)'
      BY <1>2, <2>1, <2>2 DEF LiveAt, OnParts
    <2> QED
      BY <1>1, <2>3, <2>4 DEF LiveAt, SameSetting
  <1>3. CASE sync'.step \in {"idle", "mirror", "copy"} /\ (set.rf # N => sync.step # "scan")
    <2>3. set.rf = N => OnMirrors(L)'
      BY <1>3 DEF LiveAt, OnMirrors
    <2>4. set.rf # N => OnParts(L)'
      BY <1>3 DEF LiveAt, OnParts
    <2> QED
      BY <1>1, <2>3, <2>4 DEF LiveAt, SameSetting
  <1> QED
    BY <1>2, <1>3

\* A read cannot miss a live object.
LEMMA LiveFound ==
    ASSUME Base, Supported(set), NEW L \in 1..clock, LiveAt(L), sync = NoSync,
           Hits("object", store, cat, health) # {}
    PROVE  /\ Entry.shards # {}
           /\ \A s \in Hits("object", store, cat, health) : s \in Entry.shards /\ Obj(s).mtime >= L
  <1>1. sync.step = "idle" /\ \A s \in Shards : health[s] # "Syncing"
    BY DEF Base, Phases, NoSync
  <1>2. health \in [Shards -> Healths]
    BY DEF Base, Typed
  <1>3. Entry.shards # {}
    <2>1. CASE set.rf = N
      <3> SUFFICES ASSUME Entry.shards = {} PROVE FALSE
        OBVIOUS
      <3>1. \A s \in Shards : health[s] \notin {"Healthy", "Degraded"}
        BY <2>1 DEF LiveAt, OnMirrors
      <3>2. Available(health) = {}
        BY <1>1, <1>2, <3>1 DEF Available, Unavailable, Healths
      <3> QED
        BY <3>2 DEF Hits, Resolve, Entry
    <2>2. CASE set.rf # N
      BY <1>1, <2>2 DEF LiveAt, OnParts, Two
    <2> QED
      BY <2>1, <2>2
  <1> QED
    BY <1>3 DEF Hits, Resolve, Entry, LiveAt, Since

\* A put makes the object exist since now.
LEMMA LivePut ==
    ASSUME Base, Supported(set), SameSetting, Put
    PROVE  \E L \in 1..clock : LiveAt(L)'
  <1> DEFINE P == PutAttempt.placed
  <1>1. /\ \A s \in Shards : Obj(s)' = IF s \in P THEN [val |-> puts + 1, mtime |-> clock] ELSE Obj(s)
        /\ \A s \in Shards : Mark(s)' \in {Mark(s), Absent}
        /\ Entry' = [shards |-> P, updated |-> clock + 1]
        /\ health' = PutAttempt.health /\ sync = NoSync /\ ClientsRun
        /\ P # {} /\ SelectTargets("object", health) # {}
    BY PutDoes
  <1>2. P \in SUBSET Shards
    BY <1>1, PutOnce
  <1>3. set.rf = N => \A s \in Shards : health'[s] = "Healthy" => s \in P
    BY <1>1, PutOnce
  <1>4. set.rf # N => Two(P)
    BY <1>1, PutTwo
  <1>5. expect' = {puts + 1} /\ sync' = sync
    BY DEF Put
  <1>6. sync'.step = "idle"
    BY <1>1, <1>5 DEF NoSync
  <1>7. clock \in Nat /\ clock > 0 /\ puts \in Nat
    BY DEF Base, Typed
  <1> HIDE DEF P
  <1>8. \A s \in Shards : s \notin P => Obj(s)' = Obj(s) /\ Obj(s).mtime < clock /\ Obj(s).mtime \in Nat
    <2> SUFFICES ASSUME NEW s \in Shards, s \notin P
                 PROVE  Obj(s)' = Obj(s) /\ Obj(s).mtime < clock /\ Obj(s).mtime \in Nat
      OBVIOUS
    <2>1. Obj(s) = Absent \/ Obj(s).mtime \in 1..(clock - 1)
      BY KeysAre DEF Base, Dated, Obj
    <2>2. Obj(s).mtime < clock /\ Obj(s).mtime \in Nat
      BY <1>7, <2>1, AbsentIs
    <2> QED
      BY <1>1, <2>2
  <1>9. \A s \in P : Obj(s)'.mtime = clock /\ Obj(s)'.val = puts + 1
    BY <1>1, <1>2
  <1>10. \A s \in Shards : Mark(s)'.val < clock
    BY <1>1, <1>7, AbsentIs DEF Base, Dated
  <1>11. Entry'.shards = P /\ Entry'.updated = clock + 1
    BY <1>1
  <1>15. PICK L \in Nat : L = clock
    BY <1>7
  <1>12. Since(L)'
    <2>1. \A s \in Shards : Obj(s)'.mtime >= clock => s \in P
      BY <1>7, <1>8
    <2> QED
      BY <1>1, <1>2, <1>5, <1>7, <1>9, <1>10, <1>11, <1>15, <2>1 DEF Since
  <1>13. set.rf = N => OnMirrors(L)'
    BY <1>1, <1>2, <1>3, <1>6, <1>7, <1>9, <1>11, <1>15 DEF OnMirrors
  <1>14. set.rf # N => OnParts(L)'
    BY <1>4, <1>6, <1>7, <1>11, <1>15 DEF OnParts
  <1> QED
    <2>1. LiveAt(L)'
      BY <1>12, <1>13, <1>14 DEF LiveAt, SameSetting
    <2>2. L \in 1..clock
      BY <1>7, <1>15
    <2> QED
      BY <2>1, <2>2

\* A put that failed keeps a live object live.
LEMMA LivePutFails ==
    ASSUME Base, Supported(set), SameSetting, PutFails, NEW L \in 1..clock, LiveAt(L)
    PROVE  LiveAt(L)'
  <1> DEFINE P == PutAttempt.placed
  <1>0. clock \in Nat /\ L \in Nat /\ L <= clock /\ Entry.shards \subseteq Shards
    BY CopyTyped DEF Base, Typed
  <1>1. /\ cat' = cat
        /\ Entry.shards # {} =>
              \A s \in Shards : Obj(s)' = IF s \in P THEN [val |-> puts + 1, mtime |-> clock] ELSE Obj(s)
        /\ \A s \in Shards : Mark(s)' = Mark(s)
        /\ health' = PutAttempt.health /\ sync = NoSync /\ ClientsRun
        /\ SelectTargets("object", health) # {}
    BY PutFailsDoes
  <1>2. P \in SUBSET Shards /\ Hurt(health')
    BY <1>1, PutOnce
  <1>3. sync.step = "idle" /\ sync' = sync /\ Entry' = Entry
    BY <1>1 DEF NoSync, PutFails, Entry
  <1>4. Entry.shards # {}
    <2>1. CASE set.rf = N
      <3>1. \E s \in Shards : health[s] \in {"Healthy", "Degraded"}
        BY <1>1 DEF SelectTargets
      <3> QED
        BY <2>1, <3>1 DEF LiveAt, OnMirrors
    <2>2. CASE set.rf # N
      BY <1>3, <2>2 DEF LiveAt, OnParts, Two
    <2> QED
      BY <2>1, <2>2
  <1>5. expect \subseteq expect' /\ (P # {} => puts + 1 \in expect')
    BY <1>4 DEF PutFails, Entry
  <1> HIDE DEF P
  <1>6. /\ \A s \in P : Obj(s)'.mtime = clock /\ Obj(s)'.val = puts + 1
        /\ \A s \in Shards : s \notin P => Obj(s)' = Obj(s)
    BY <1>1, <1>2, <1>4
  <1>7. \A s \in Shards : Obj(s).mtime >= L => Obj(s)'.mtime >= L
    BY <1>0, <1>6
  <1>8. Since(L)'
    BY <1>0, <1>1, <1>3, <1>5, <1>6, <1>7 DEF LiveAt, Since
  <1>9. set.rf = N => OnMirrors(L)'
    BY <1>2, <1>3, <1>7 DEF LiveAt, OnMirrors, Hurt
  <1>10. set.rf # N => OnParts(L)'
    BY <1>3 DEF LiveAt, OnParts
  <1> QED
    BY <1>8, <1>9, <1>10 DEF LiveAt, SameSetting

\* Rebuild_catalog keeps a live object live.
LEMMA LiveRebuild ==
    ASSUME Base, Supported(set), SameSetting, RebuildCatalog, NEW L \in 1..clock, LiveAt(L)
    PROVE  LiveAt(L)'
  <1>0. clock \in Nat /\ L \in Nat /\ L >= 1 /\ Entry'.shards \subseteq Shards
    BY CopyTyped, RebuildDoes, KeysAre DEF Base, Typed, Entry, Catalogs
  <1>1. /\ \A s \in Shards : s \in Entry'.shards <=> (health[s] = "Healthy" /\ Present(store, "object", s))
        /\ set.rf = N /\ ~ set.errors /\ sync = NoSync
    BY RebuildDoes
  <1>2. UNCHANGED <<store, health, sync, expect>>
    BY DEF RebuildCatalog
  <1>3. \A s \in Shards : Obj(s)' = Obj(s) /\ Mark(s)' = Mark(s)
    BY <1>2 DEF Obj, Mark
  <1>4. \A s \in Shards : health[s] = "Healthy" => Obj(s).mtime >= L
    BY <1>1 DEF LiveAt, OnMirrors
  <1>5. \A s \in Shards : Obj(s).mtime \in Nat /\ (Obj(s).mtime > 0 => Present(store, "object", s))
    BY CopyTyped DEF Base
  <1>6. \A s \in Shards : health[s] = "Healthy" => s \in Entry'.shards
    BY <1>0, <1>1, <1>4, <1>5
  <1>7. Since(L)'
    BY <1>0, <1>1, <1>2, <1>3, <1>4 DEF LiveAt, Since
  <1>8. sync'.step = "idle"
    BY <1>1, <1>2 DEF NoSync
  <1>9. \A s \in Shards : health[s] # "Degraded"
    BY <1>1 DEF Base, Quiet
  <1>10. OnMirrors(L)'
    BY <1>2, <1>3, <1>4, <1>6, <1>8, <1>9 DEF OnMirrors
  <1> QED
    BY <1>1, <1>7, <1>10 DEF LiveAt, SameSetting

\* A copy of repair_replication keeps a live object live.
LEMMA LiveReplicate ==
    ASSUME Base, Supported(set), SameSetting, NEW L \in 1..clock, LiveAt(L),
           NEW k \in Keys, NEW from \in Shards, NEW to \in Shards, Replicate(k, from, to)
    PROVE  LiveAt(L)'
  <1>0. clock \in Nat /\ L \in Nat /\ L <= clock /\ Entry.shards \subseteq Shards
    BY CopyTyped DEF Base, Typed
  <1>1. /\ \A j \in Keys : j # k => store'[j] = store[j] /\ cat'[j] = cat[j]
        /\ \A s \in Shards : store'[k][s] = IF s = to THEN [val |-> store[k][from].val, mtime |-> clock]
                                           ELSE store[k][s]
        /\ cat'[k].shards = cat[k].shards \cup {to} /\ cat'[k].updated = cat[k].updated
        /\ from \in cat[k].shards /\ sync = NoSync
        /\ to \notin cat[k].shards /\ health[to] = "Healthy"
    BY ReplicateDoes
  <1>2. UNCHANGED <<health, sync, expect>>
    BY DEF Replicate
  <1>3. sync.step = "idle"
    BY <1>1 DEF NoSync
  <1>4. CASE k = "marker"
    <2>1. \A s \in Shards : Mark(s)'.val < L
      <3>1. Mark(from).val < L
        BY DEF LiveAt, Since
      <3> QED
        BY <1>1, <1>4, <3>1 DEF LiveAt, Since, Mark
    <2>2. (\A s \in Shards : Obj(s)' = Obj(s)) /\ Entry' = Entry
      BY <1>1, <1>4, KeysAre DEF Obj, Entry
    <2> QED
      BY <1>2, <2>1, <2>2, LiveFrame
  <1>5. CASE k = "object"
    <2>1. /\ \A s \in Shards : s # to => Obj(s)' = Obj(s)
          /\ Obj(to)'.mtime = clock /\ Obj(to)'.val = Obj(from).val
          /\ \A s \in Shards : Mark(s)' = Mark(s)
          /\ Entry'.shards = Entry.shards \cup {to} /\ Entry'.updated = Entry.updated
          /\ from \in Entry.shards /\ to \notin Entry.shards
      BY <1>1, <1>5, KeysAre DEF Obj, Mark, Entry
    <2>2. set.rf # N
      BY <1>1, <2>1 DEF LiveAt, OnMirrors
    <2>3. Obj(from).mtime >= L /\ Obj(from).val \in expect
      BY <2>1 DEF LiveAt, Since
    <2>4. Since(L)'
      BY <1>0, <1>2, <2>1, <2>3 DEF LiveAt, Since
    <2>5. OnParts(L)'
      BY <1>2, <1>3, <2>1, <2>2 DEF LiveAt, OnParts, Two
    <2> QED
      BY <2>2, <2>4, <2>5 DEF LiveAt, SameSetting
  <1> QED
    BY <1>4, <1>5, KeysAre

\* A trim of repair_replication keeps a live object live.
LEMMA LiveTrim ==
    ASSUME Base, Supported(set), SameSetting, NEW L \in 1..clock, LiveAt(L),
           NEW k \in Keys, NEW s \in Shards, Trim(k, s)
    PROVE  LiveAt(L)'
  <1>0. clock \in Nat /\ L \in Nat /\ L >= 1 /\ Entry.shards \subseteq Shards
    BY CopyTyped DEF Base, Typed
  <1>1. /\ \A j \in Keys : j # k => store'[j] = store[j] /\ cat'[j] = cat[j]
        /\ \A r \in Shards : store'[k][r] = IF r = s THEN Absent ELSE store[k][r]
        /\ cat'[k].shards = cat[k].shards \ {s}
        /\ cat'[k].shards # {} => cat'[k].updated = cat[k].updated
        /\ set.rf # N /\ sync = NoSync
        /\ set.rf >= 2 => Two(cat[k].shards \ {s})
    BY TrimDoes
  <1>2. UNCHANGED <<health, sync, expect>>
    BY DEF Trim
  <1>3. sync.step = "idle"
    BY <1>1 DEF NoSync
  <1>4. CASE k = "marker"
    <2>1. \A r \in Shards : Mark(r)'.val < L
      BY <1>0, <1>1, <1>4, AbsentIs DEF LiveAt, Since, Mark
    <2>2. (\A r \in Shards : Obj(r)' = Obj(r)) /\ Entry' = Entry
      BY <1>1, <1>4, KeysAre DEF Obj, Entry
    <2> QED
      BY <1>2, <2>1, <2>2, LiveFrame
  <1>5. CASE k = "object"
    <2>1. /\ \A r \in Shards : r # s => Obj(r)' = Obj(r)
          /\ Obj(s)' = Absent
          /\ \A r \in Shards : Mark(r)' = Mark(r)
          /\ Entry'.shards = Entry.shards \ {s}
          /\ Entry'.shards # {} => Entry'.updated = Entry.updated
      BY <1>1, <1>5, KeysAre DEF Obj, Mark, Entry
    <2>2. Two(Entry.shards \ {s})
      BY <1>1, <1>5 DEF Supported, MirrorSetting, PartSetting, Entry
    <2>3. Two(Entry'.shards) /\ Entry'.updated = Entry.updated
      BY <2>1, <2>2 DEF Two
    <2>4. Since(L)'
      <3>1. \A r \in Shards : Obj(r)'.mtime >= L => r # s
        BY <1>0, <2>1, AbsentIs
      <3>2. \E r \in Shards : Obj(r)'.mtime >= L
        <4>1. PICK r \in Entry'.shards : TRUE
          BY <2>3 DEF Two
        <4> QED
          BY <1>0, <2>1, <4>1 DEF LiveAt, Since
      <3> QED
        BY <1>0, <1>2, <2>1, <3>1, <3>2 DEF LiveAt, Since
    <2>5. OnParts(L)'
      BY <1>1, <1>2, <1>3, <2>3 DEF LiveAt, OnParts
    <2> QED
      BY <1>1, <2>4, <2>5 DEF LiveAt, SameSetting
  <1> QED
    BY <1>4, <1>5, KeysAre

\* Vacuum keeps a live object live.
LEMMA LiveVacuum ==
    ASSUME Base, Supported(set), SameSetting, NEW L \in 1..clock, LiveAt(L), VacuumMarker \/ VacuumObject
    PROVE  LiveAt(L)'
  <1>0. clock \in Nat /\ L \in Nat /\ L >= 1
    BY DEF Base, Typed
  <1>1. CASE VacuumMarker
    <2>1. /\ \A s \in Shards : Obj(s)' = Obj(s)
          /\ \A s \in Shards : Mark(s)' \in {Mark(s), Absent}
          /\ Entry' = Entry \/ (Entry.shards = {} /\ Hits("object", store, cat, health) # {})
          /\ sync = NoSync
      BY <1>1, VacuumMarkerDoes
    <2>2. Entry' = Entry
      BY <2>1, LiveFound
    <2>3. UNCHANGED <<health, sync, expect>>
      BY <1>1 DEF VacuumMarker
    <2>4. \A s \in Shards : Mark(s)'.val < L
      BY <1>0, <2>1, AbsentIs DEF LiveAt, Since
    <2> QED
      BY <2>1, <2>2, <2>3, <2>4, LiveFrame
  <1>2. CASE VacuumObject
    <2>1. /\ \E m \in Shards : \E o \in Hits("object", store, cat, health) : Obj(o).mtime <= Mark(m).val
          /\ sync = NoSync
      BY <1>2, VacuumObjectDoes
    <2>2. PICK m \in Shards : \E o \in Hits("object", store, cat, health) : Obj(o).mtime <= Mark(m).val
      BY <2>1
    <2>3. PICK o \in Hits("object", store, cat, health) : Obj(o).mtime <= Mark(m).val
      BY <2>2
    <2>4. o \in Entry.shards /\ Obj(o).mtime >= L /\ Entry.shards \subseteq Shards
      BY <2>1, <2>3, LiveFound, CopyTyped DEF Base
    <2>5. Mark(m).val < L /\ Mark(m).val \in Nat /\ Obj(o).mtime \in Nat
      BY <2>4, CopyTyped DEF LiveAt, Since, Base
    <2> QED
      BY <1>0, <2>3, <2>4, <2>5
  <1> QED
    BY <1>1, <1>2

\* While a shard syncs, another shard of the entry serves the object.
LEMMA LiveSource ==
    ASSUME Base, Supported(set), set.rf # N, NEW L \in 1..clock, LiveAt(L),
           sync.step \in {"copy", "replay", "refresh", "markers", "attach"}
    PROVE  /\ Sources("object") # {} /\ Entry.shards # {}
           /\ \A r \in Sources("object") : Served("object", r) /\ Obj(r).mtime >= L /\ Obj(r).val \in expect
  <1>0. /\ clock \in Nat /\ L \in Nat /\ L >= 1 /\ Entry.shards \subseteq Shards /\ ~ set.errors
        /\ health \in [Shards -> Healths] /\ target \in Shards
    BY CopyTyped, TargetTyped DEF Base, Typed, Supported, MirrorSetting, PartSetting
  <1>1. Two(Entry.shards)
    BY DEF LiveAt, OnParts
  <1>2. PICK b \in Entry.shards : b # target
    BY <1>1 DEF Two
  <1>3. sync # NoSync /\ health[target] = "Syncing"
    BY DEF Base, Phases, NoSync
  <1>4. target \in Away
    BY <1>0, <1>3 DEF Away
  <1>5. \A r \in Shards : r # target => r \notin Away
    BY <1>4 DEF Base, Lone
  <1>6. \A r \in Shards : r # target => health[r] = "Healthy" /\ Answers(r)
    BY <1>0, <1>5 DEF Away, Base, Quiet, Phases, Answers, Healths, Unavailable
  <1>7. b \in Sources("object")
    BY <1>0, <1>2, <1>6 DEF Sources, Entry
  <1>8. ASSUME NEW r \in Sources("object")
        PROVE  Served("object", r) /\ Obj(r).mtime >= L /\ Obj(r).val \in expect
    <2>1. r \in Entry.shards /\ r # target /\ r \in Shards
      BY <1>0 DEF Sources, Entry
    <2>2. Obj(r).mtime >= L /\ Obj(r).val \in expect
      BY <2>1 DEF LiveAt, Since
    <2>3. Present(store, "object", r)
      BY <1>0, <2>1, <2>2, CopyTyped DEF Base
    <2> QED
      BY <1>6, <2>1, <2>2, <2>3 DEF Served
  <1> QED
    BY <1>2, <1>7, <1>8

\* A sync's copying of the entries keeps a live object live.
LEMMA LiveSyncCopy ==
    ASSUME Base, Supported(set), SameSetting, NEW L \in 1..clock, LiveAt(L), SyncCopy
    PROVE  LiveAt(L)'
  <1>0. /\ clock \in Nat /\ L \in Nat /\ L <= clock /\ Entry.shards \subseteq Shards /\ target \in Shards
        /\ sync \in [shard : Shards, step : Steps]
    BY CopyTyped, TargetTyped DEF Base, Typed
  <1>1. /\ \A k \in Keys, s \in Shards : s # target => store'[k][s] = store[k][s]
        /\ \A k \in Keys : \/ store'[k][target] = store[k][target]
                           \/ \E r \in Sources(k) : /\ Present(store, k, r)
                                                    /\ store'[k][target] = [val |-> store[k][r].val, mtime |-> clock]
        /\ sync.step = "copy" /\ sync' = [sync EXCEPT !.step = "replay"]
    BY SyncCopyDoes
  <1>2. UNCHANGED <<cat, health, expect>>
    BY DEF SyncCopy
  <1>3. set.rf # N
    BY <1>1 DEF Base, Phases
  <1>4. /\ \A r \in Sources("object") : Obj(r).mtime >= L /\ Obj(r).val \in expect
        /\ \A r \in Sources("marker") : r \in Shards
    BY <1>1, <1>3, LiveSource, SourcesAre, KeysAre DEF Base
  <1>5. \A s \in Shards : Obj(s)' = Obj(s) \/ (Obj(s)'.mtime = clock /\ Obj(s)'.val \in expect)
    <2> TAKE s \in Shards
    <2>1. CASE s # target
      BY <1>1, <2>1, KeysAre DEF Obj
    <2>2. CASE s = target
      <3>1. \/ Obj(s)' = Obj(s)
            \/ \E r \in Sources("object") : Obj(s)' = [val |-> Obj(r).val, mtime |-> clock]
        BY <1>1, <2>2, KeysAre, Zenon DEF Obj
      <3> QED
        BY <1>4, <3>1
    <2> QED
      BY <2>1, <2>2
  <1>6. \A s \in Shards : Mark(s)'.val < L
    <2> TAKE s \in Shards
    <2>1. CASE s # target
      BY <1>1, <2>1, KeysAre DEF Mark, LiveAt, Since
    <2>2. CASE s = target
      <3>1. \A r \in Shards : store["marker"][r].val < L
        BY DEF Mark, LiveAt, Since
      <3>2. \/ Mark(s)' = Mark(s)
            \/ \E r \in Sources("marker") : Mark(s)' = [val |-> Mark(r).val, mtime |-> clock]
        BY <1>1, <2>2, KeysAre, Zenon DEF Mark
      <3> QED
        <4>1. CASE Mark(s)' = Mark(s)
          BY <3>1, <4>1 DEF Mark
        <4>2. CASE \E r \in Sources("marker") : Mark(s)' = [val |-> Mark(r).val, mtime |-> clock]
          <5>1. PICK r \in Sources("marker") : Mark(s)' = [val |-> Mark(r).val, mtime |-> clock]
            BY <4>2
          <5>2. Mark(r).val < L
            BY <1>4, <3>1 DEF Mark
          <5> QED
            BY <5>1, <5>2
        <4> QED
          BY <3>2, <4>1, <4>2
    <2> QED
      BY <2>1, <2>2
  <1>7. Entry' = Entry /\ sync'.step = "replay"
    BY <1>0, <1>1, <1>2 DEF Entry
  <1>8. Since(L)'
    BY <1>0, <1>2, <1>5, <1>6, <1>7 DEF LiveAt, Since
  <1>9. OnParts(L)'
    BY <1>1, <1>3, <1>7 DEF LiveAt, OnParts
  <1> QED
    BY <1>3, <1>8, <1>9 DEF LiveAt, SameSetting

\* A sync's replay of the markers keeps a live object live.
LEMMA LiveSyncReplay ==
    ASSUME Base, Supported(set), SameSetting, NEW L \in 1..clock, LiveAt(L), SyncReplay
    PROVE  LiveAt(L)'
  <1>0. /\ clock \in Nat /\ L \in Nat /\ L >= 1 /\ Entry.shards \subseteq Shards /\ target \in Shards
        /\ sync \in [shard : Shards, step : Steps]
    BY CopyTyped, TargetTyped DEF Base, Typed
  <1>1. /\ \A s \in Shards : Mark(s)' = Mark(s)
        /\ \A s \in Shards : \/ Obj(s)' = Obj(s)
                             \/ /\ s = target /\ Obj(s)' = Absent
                                /\ \E m \in Shards : Obj(s).mtime <= Mark(m).val
        /\ sync.step = "replay" /\ sync' = [sync EXCEPT !.step = "refresh"]
    BY SyncReplayDoes
  <1>2. UNCHANGED <<cat, health, expect>>
    BY DEF SyncReplay
  <1>3. set.rf # N
    BY <1>1 DEF Base, Phases
  <1>4. \A s \in Shards : Obj(s)' = Obj(s) \/ (Obj(s)' = Absent /\ Obj(s).mtime < L)
    <2> TAKE s \in Shards
    <2>1. CASE \E m \in Shards : Obj(s).mtime <= Mark(m).val
      <3>1. PICK m \in Shards : Obj(s).mtime <= Mark(m).val
        BY <2>1
      <3>2. Mark(m).val < L /\ Mark(m).val \in Nat /\ Obj(s).mtime \in Nat
        BY CopyTyped DEF LiveAt, Since, Base
      <3> QED
        BY <1>0, <1>1, <3>1, <3>2
    <2> QED
      BY <1>1, <2>1
  <1>5. Entry' = Entry /\ sync'.step = "refresh"
    BY <1>0, <1>1, <1>2 DEF Entry
  <1>6. \A s \in Shards : Obj(s).mtime >= L => Obj(s)' = Obj(s)
    BY <1>0, <1>4, CopyTyped DEF Base
  <1>7. \A s \in Shards : Obj(s)'.mtime >= L => Obj(s)' = Obj(s)
    BY <1>0, <1>4, AbsentIs
  <1>8. Since(L)'
    BY <1>0, <1>1, <1>2, <1>5, <1>6, <1>7 DEF LiveAt, Since
  <1>9. OnParts(L)'
    BY <1>1, <1>3, <1>5 DEF LiveAt, OnParts
  <1> QED
    BY <1>3, <1>8, <1>9 DEF LiveAt, SameSetting

\* A sync's refresh of stale copies keeps a live object live.
LEMMA LiveSyncRefresh ==
    ASSUME Base, Supported(set), SameSetting, NEW L \in 1..clock, LiveAt(L), SyncRefresh
    PROVE  LiveAt(L)'
  <1>0. /\ clock \in Nat /\ L \in Nat /\ L >= 1 /\ L <= clock /\ Entry.shards \subseteq Shards
        /\ target \in Shards /\ sync \in [shard : Shards, step : Steps] /\ Entry.updated \in Nat
    BY CopyTyped, TargetTyped DEF Base, Typed
  <1>1. /\ \A s \in Shards : Mark(s)' = Mark(s)
        /\ \A s \in Shards : s # target => Obj(s)' = Obj(s)
        /\ target \in down \/ ~ Present(store, "object", target) => store' = store
        /\ ~ (target \in down \/ ~ Present(store, "object", target)) =>
                \E from \in Shards : /\ Sources("object") # {} => from \in Sources("object")
                                     /\ \A s \in Shards : s = target => Obj(s)' = Refreshed(from)
        /\ sync.step = "refresh" /\ sync' = [sync EXCEPT !.step = "markers"]
    BY SyncRefreshDoes
  <1>2. UNCHANGED <<cat, health, expect>>
    BY DEF SyncRefresh
  <1>3. set.rf # N /\ ~ set.errors
    BY <1>1 DEF Base, Phases, Supported, MirrorSetting, PartSetting
  <1>4. target \notin down
    BY <1>1, <1>3 DEF Base, Quiet, NoSync
  <1>5. /\ Sources("object") # {} /\ Entry.shards # {}
        /\ \A r \in Sources("object") : Served("object", r) /\ Obj(r).mtime >= L /\ Obj(r).val \in expect
    BY <1>1, <1>3, LiveSource
  <1>6. /\ Entry' = Entry /\ sync'.step = "markers" /\ target' = target
    BY <1>0, <1>1, <1>2 DEF Entry, target
  <1>7. PICK t \in Shards : t = target
    BY <1>0
  <1>8. CASE ~ Present(store, "object", t)
    <2>1. \A s \in Shards : Obj(s)' = Obj(s)
      BY <1>1, <1>7, <1>8 DEF Obj
    <2>2. Since(L)'
      BY <1>0, <1>1, <1>2, <1>6, <2>1 DEF LiveAt, Since
    <2>3. ~ Present(store, "object", target)'
      BY <1>6, <1>7, <1>8, <2>1 DEF Present, Obj
    <2>4. OnParts(L)'
      BY <1>1, <1>3, <1>6, <2>3 DEF LiveAt, OnParts
    <2> QED
      BY <1>3, <2>2, <2>4 DEF LiveAt, SameSetting
  <1>9. CASE Present(store, "object", t)
    <2>1. PICK from \in Sources("object") : Obj(t)' = Refreshed(from)
      BY <1>1, <1>4, <1>5, <1>7, <1>9
    <2>2. \/ Obj(t)' = Obj(t) /\ Obj(t).mtime >= Entry.updated
          \/ Obj(t)' = [val |-> Obj(from).val, mtime |-> clock]
      BY <1>5, <1>7, <2>1 DEF Refreshed, Entry, Obj
    <2>3. Obj(t).mtime \in Nat /\ Entry.updated >= L
      BY <1>3, CopyTyped DEF LiveAt, OnParts, Base
    <2>4. Obj(t)'.mtime >= L /\ Obj(t)'.val \in expect
      <3>1. CASE Obj(t)' = Obj(t) /\ Obj(t).mtime >= Entry.updated
        <4>1. Obj(t).mtime >= L
          BY <1>0, <2>3, <3>1
        <4> QED
          BY <3>1, <4>1 DEF LiveAt, Since
      <3>2. CASE Obj(t)' = [val |-> Obj(from).val, mtime |-> clock]
        BY <1>0, <1>5, <2>1, <3>2
      <3> QED
        BY <2>2, <3>1, <3>2
    <2>5. Since(L)'
      BY <1>0, <1>1, <1>2, <1>6, <1>7, <2>4 DEF LiveAt, Since
    <2>6. Obj(target)'.mtime >= L
      BY <1>6, <1>7, <2>4 DEF Obj
    <2>7. OnParts(L)'
      BY <1>1, <1>3, <1>6, <2>6 DEF LiveAt, OnParts
    <2> QED
      BY <1>3, <2>5, <2>7 DEF LiveAt, SameSetting
  <1> QED
    BY <1>8, <1>9

\* A sync's copying of the markers keeps a live object live.
LEMMA LiveSyncMarkers ==
    ASSUME Base, Supported(set), SameSetting, NEW L \in 1..clock, LiveAt(L), SyncMarkers
    PROVE  LiveAt(L)'
  <1>0. /\ clock \in Nat /\ L \in Nat /\ L >= 1 /\ Entry.shards \subseteq Shards
        /\ target \in Shards /\ sync \in [shard : Shards, step : Steps]
    BY CopyTyped, TargetTyped DEF Base, Typed
  <1>1. /\ \A s \in Shards : Obj(s)' = Obj(s)
        /\ \A s \in Shards : Mark(s)' \in {Mark(s), Absent}
        /\ Entry.shards # {} => Entry' = Entry
        /\ sync.step = "markers" /\ sync' = [sync EXCEPT !.step = "attach"]
    BY SyncMarkersDoes
  <1>2. UNCHANGED <<health, expect>>
    BY DEF SyncMarkers
  <1>3. set.rf # N
    BY <1>1 DEF Base, Phases
  <1>4. Entry' = Entry
    BY <1>1, <1>3 DEF LiveAt, OnParts, Two
  <1>5. sync'.step = "attach" /\ target' = target
    BY <1>0, <1>1 DEF target
  <1>6. \A s \in Shards : Mark(s)'.val < L
    BY <1>0, <1>1, AbsentIs DEF LiveAt, Since
  <1>7. Since(L)'
    BY <1>0, <1>1, <1>2, <1>4, <1>6 DEF LiveAt, Since
  <1>8. Obj(target)' = Obj(target) /\ (Present(store, "object", target)' <=> Present(store, "object", target))
    BY <1>0, <1>1, <1>5 DEF Obj, Present
  <1>9. OnParts(L)'
    BY <1>1, <1>3, <1>4, <1>5, <1>8 DEF LiveAt, OnParts
  <1> QED
    BY <1>3, <1>7, <1>9 DEF LiveAt, SameSetting

\* Mirror_sync keeps a live object live.
LEMMA LiveSyncMirror ==
    ASSUME Base, Supported(set), SameSetting, NEW L \in 1..clock, LiveAt(L), SyncMirror
    PROVE  LiveAt(L)'
  <1>0. /\ clock \in Nat /\ L \in Nat /\ L >= 1 /\ L <= clock /\ Entry.shards \subseteq Shards
        /\ target \in Shards /\ sync \in [shard : Shards, step : Steps]
        /\ health \in [Shards -> Healths]
    BY CopyTyped, TargetTyped DEF Base, Typed
  <1>1. UNCHANGED <<cat, expect>> /\ sync.step = "mirror"
    BY SyncMirrorDoes DEF SyncMirror
  <1>2. set.rf = N
    BY <1>1 DEF Base, Phases
  <1>3. PICK t \in Shards : t = target
    BY <1>0
  <1>4. CASE store' = store /\ sync' = NoSync /\ health' = [health EXCEPT ![target] = "Offline"]
    <2>1. (\A s \in Shards : Obj(s)' = Obj(s) /\ Mark(s)' = Mark(s)) /\ Entry' = Entry
      BY <1>1, <1>4 DEF Obj, Mark, Entry
    <2>2. sync'.step = "idle"
      BY <1>4 DEF NoSync
    <2>3. \A s \in Shards : health'[s] = IF s = t THEN "Offline" ELSE health[s]
      BY <1>0, <1>3, <1>4
    <2>4. \A s \in Shards : Mark(s)'.val < L
      BY <2>1 DEF LiveAt, Since
    <2> QED
      BY <1>1, <1>2, <2>1, <2>2, <2>3, <2>4, LiveFrame
  <1>5. CASE ~ (store' = store /\ sync' = NoSync /\ health' = [health EXCEPT ![target] = "Offline"])
    <2>1. /\ \A k \in Keys, s \in Shards : s # target => store'[k][s] = store[k][s]
          /\ \E src \in MirrorSources : \A k \in Keys, s \in Shards : s = target =>
                       /\ Present(store, k, src) =>
                            store'[k][s] = IF store[k][src].mtime > store[k][s].mtime
                                           THEN [val |-> store[k][src].val, mtime |-> clock]
                                           ELSE store[k][s]
                       /\ ~ Present(store, k, src) => store'[k][s] = Absent
          /\ sync' = [sync EXCEPT !.step = "attach"] /\ health' = health
      BY <1>5, SyncMirrorDoes
    <2>2. PICK src \in MirrorSources : \A k \in Keys, s \in Shards : s = target =>
                       /\ Present(store, k, src) =>
                            store'[k][s] = IF store[k][src].mtime > store[k][s].mtime
                                           THEN [val |-> store[k][src].val, mtime |-> clock]
                                           ELSE store[k][s]
                       /\ ~ Present(store, k, src) => store'[k][s] = Absent
      BY <2>1
    <2>3. src \in Shards /\ health[src] = "Healthy"
      BY DEF MirrorSources
    <2>4. Obj(src).mtime >= L /\ Obj(src).val \in expect /\ Obj(src).mtime \in Nat
      BY <1>2, <2>3, CopyTyped DEF LiveAt, OnMirrors, Since, Base
    <2>5. Present(store, "object", src)
      BY <1>0, <2>3, <2>4, CopyTyped DEF Base
    <2>6. Obj(t)' = IF Obj(src).mtime > Obj(t).mtime THEN [val |-> Obj(src).val, mtime |-> clock] ELSE Obj(t)
      BY <1>3, <2>2, <2>5, KeysAre DEF Obj
    <2>7. Obj(t)'.mtime >= L /\ Obj(t)'.val \in expect
      <3>1. CASE Obj(src).mtime > Obj(t).mtime
        BY <1>0, <2>4, <2>6, <3>1
      <3>2. CASE ~ (Obj(src).mtime > Obj(t).mtime)
        <4>1. Obj(t).mtime >= L
          BY <1>0, <2>4, <3>2, CopyTyped DEF Base
        <4> QED
          BY <2>6, <3>2, <4>1 DEF LiveAt, Since
      <3> QED
        BY <3>1, <3>2
    <2>8. \A s \in Shards : Mark(s)'.val < L
      <3>1. \A s \in Shards : store["marker"][s].val < L
        BY DEF LiveAt, Since, Mark
      <3>2. store'["marker"][t].val < L
        <4>1. \/ Mark(t)' = Mark(t)
              \/ Mark(t)' = [val |-> Mark(src).val, mtime |-> clock]
              \/ Mark(t)' = Absent
          BY <1>3, <2>2, KeysAre DEF Mark
        <4> QED
          BY <1>0, <2>3, <3>1, <4>1, AbsentIs DEF Mark
      <3> QED
        BY <1>3, <2>1, <3>1, <3>2, KeysAre DEF Mark
    <2>9. \A s \in Shards : s # t => Obj(s)' = Obj(s)
      BY <1>3, <2>1, KeysAre DEF Obj
    <2>10. Entry' = Entry /\ sync'.step = "attach" /\ target' = target
      BY <1>0, <1>1, <2>1 DEF Entry, target
    <2>11. Since(L)'
      BY <1>0, <1>1, <2>7, <2>8, <2>9, <2>10 DEF LiveAt, Since
    <2>12. Obj(target)'.mtime >= L
      BY <1>3, <2>7, <2>10 DEF Obj
    <2>13. OnMirrors(L)'
      BY <1>2, <2>1, <2>3, <2>7, <2>9, <2>10, <2>12 DEF LiveAt, OnMirrors
    <2> QED
      BY <1>2, <2>11, <2>13 DEF LiveAt, SameSetting
  <1> QED
    BY <1>4, <1>5

\* The attachment of a shard keeps a live object live.
LEMMA LiveAttach ==
    ASSUME Base, Supported(set), SameSetting, NEW L \in 1..clock, LiveAt(L), Attach
    PROVE  LiveAt(L)'
  <1>0. /\ clock \in Nat /\ L \in Nat /\ L >= 1 /\ Entry.shards \subseteq Shards
        /\ target \in Shards /\ sync \in [shard : Shards, step : Steps]
        /\ health \in [Shards -> Healths]
    BY CopyTyped, TargetTyped DEF Base, Typed
  <1>1. /\ Entry'.shards = Entry.shards \ {target}
        /\ Entry'.shards # {} => Entry'.updated = Entry.updated
        /\ sync.step = "attach" /\ sync' = [sync EXCEPT !.step = "scan"]
        /\ health' = [health EXCEPT ![target] = "Syncing"]
    BY AttachDoes
  <1>2. UNCHANGED <<store, expect>>
    BY DEF Attach
  <1>3. health[target] = "Syncing" /\ health' = health
    BY <1>0, <1>1 DEF Base, Phases, NoSync
  <1>4. sync'.step = "scan" /\ target' = target
    BY <1>0, <1>1 DEF target
  <1>5. /\ \A s \in Shards : Obj(s)' = Obj(s) /\ Mark(s)' = Mark(s)
        /\ Obj(target)' = Obj(target) /\ (Present(store, "object", target)' <=> Present(store, "object", target))
    BY <1>2, <1>4 DEF Obj, Mark, Present
  <1>6. Since(L)'
    BY <1>0, <1>1, <1>2, <1>5 DEF LiveAt, Since
  <1>7. set.rf = N => OnMirrors(L)'
    <2> HAVE set.rf = N
    <2>1. PICK h \in Shards : health[h] = "Healthy"
      BY <1>1 DEF LiveAt, OnMirrors
    <2>2. \A s \in Shards : health[s] = "Healthy" => Obj(s).mtime >= L /\ s \in Entry'.shards
      BY <1>1, <1>3 DEF LiveAt, OnMirrors
    <2>3. Entry'.shards # {}
      BY <2>1, <2>2
    <2> QED
      BY <1>1, <1>3, <1>4, <1>5, <2>1, <2>2, <2>3 DEF LiveAt, OnMirrors
  <1>8. set.rf # N => OnParts(L)'
    <2> HAVE set.rf # N
    <2>1. Two(Entry.shards)
      BY <1>1 DEF LiveAt, OnParts
    <2>2. Entry'.shards # {}
      BY <1>1, <2>1 DEF Two
    <2>3. target \in Entry.shards => Obj(target).mtime >= L
      BY DEF LiveAt, Since
    <2>4. target \in Entry.shards => Present(store, "object", target)
      BY <1>0, <2>3, CopyTyped DEF Base
    <2>5. target \notin Entry.shards => Entry'.shards = Entry.shards
      BY <1>1
    <2> QED
      BY <1>1, <1>4, <1>5, <2>1, <2>2, <2>4, <2>5 DEF LiveAt, OnParts
  <1> QED
    BY <1>6, <1>7, <1>8 DEF LiveAt, SameSetting

\* The scan of an attached shard keeps a live object live.
LEMMA LiveScan ==
    ASSUME Base, Supported(set), SameSetting, NEW L \in 1..clock, LiveAt(L), Scan
    PROVE  LiveAt(L)'
  <1>0. /\ clock \in Nat /\ L \in Nat /\ L >= 1 /\ Entry.shards \subseteq Shards
        /\ target \in Shards /\ health \in [Shards -> Healths]
    BY CopyTyped, TargetTyped DEF Base, Typed
  <1>1. UNCHANGED <<store, expect>>
    BY DEF Scan
  <1>2. \A s \in Shards : Obj(s)' = Obj(s) /\ Mark(s)' = Mark(s)
    BY <1>1 DEF Obj, Mark
  <1>3. sync.step = "scan" /\ sync' = NoSync /\ sync'.step = "idle"
    BY ScanDoes DEF NoSync
  <1>4. PICK t \in Shards : t = target
    BY <1>0
  <1>5. CASE target \in down /\ cat' = cat /\ health' = [health EXCEPT ![target] = "Offline"]
    <2>1. set.rf = N
      BY <1>3, <1>5 DEF Base, Quiet, NoSync, Supported, MirrorSetting, PartSetting
    <2>2. \A s \in Shards : health'[s] = IF s = t THEN "Offline" ELSE health[s]
      BY <1>0, <1>4, <1>5
    <2>3. Entry' = Entry
      BY <1>5 DEF Entry
    <2>4. \A s \in Shards : Mark(s)'.val < L
      BY <1>2 DEF LiveAt, Since
    <2> QED
      BY <1>1, <1>2, <1>3, <2>1, <2>2, <2>3, <2>4, LiveFrame
  <1>6. CASE /\ health' = [health EXCEPT ![target] = "Healthy"]
             /\ Entry'.shards = IF Present(store, "object", target) THEN Entry.shards \cup {target}
                                ELSE Entry.shards
             /\ Entry.shards # {} => Entry'.updated = Entry.updated
    <2>1. \A s \in Shards : health'[s] = IF s = t THEN "Healthy" ELSE health[s]
      BY <1>0, <1>4, <1>6
    <2>2. Present(store, "object", t) => Obj(t).mtime >= L
      BY <1>3, <1>4 DEF LiveAt, OnMirrors, OnParts
    <2>3. Since(L)'
      BY <1>0, <1>1, <1>2, <1>4, <1>6, <2>2 DEF LiveAt, Since
    <2>4. set.rf = N => OnMirrors(L)'
      <3> HAVE set.rf = N
      <3>1. Obj(t).mtime >= L
        BY <1>3, <1>4 DEF LiveAt, OnMirrors
      <3>2. Present(store, "object", t)
        BY <1>0, <3>1, CopyTyped DEF Base
      <3> QED
        BY <1>2, <1>3, <1>4, <1>6, <2>1, <3>1, <3>2 DEF LiveAt, OnMirrors
    <2>5. set.rf # N => OnParts(L)'
      BY <1>3, <1>4, <1>6, <2>2 DEF LiveAt, OnParts, Two
    <2> QED
      BY <2>3, <2>4, <2>5 DEF LiveAt, SameSetting
  <1> QED
    BY <1>5, <1>6, ScanDoes

\* Every step keeps a live object live.
LEMMA LiveStep ==
    ASSUME Base, Supported(set), Live, [Next]_vars
    PROVE  Live'
  <1>0. /\ SameSetting /\ clock \in Nat /\ clock > 0 /\ health \in [Shards -> Healths] /\ set \in Setting
    BY SettingStays DEF Base, Typed
  <1>1. clock' >= clock /\ clock' \in Nat
    <2>1. clock' = clock \/ clock' = clock + 1 \/ clock' = clock + 2
      BY Zenon DEF Next, SyncStep, vars, Put, PutFails, Delete, DeleteFails, Get, Fail, Return, Detach,
             HoldOffline, ReleaseHold, RebuildCatalog, Replicate, Trim, VacuumMarker, VacuumObject,
             SyncBegin, SyncCopy, SyncReplay, SyncRefresh, SyncMarkers, SyncMirror, Attach, Scan
    <2> QED
      BY <1>0, <2>1
  <1> SUFFICES ASSUME 0 \notin expect' PROVE \E L \in 1..clock' : LiveAt(L)'
    BY DEF Live
  <1>2. CASE Put
    <2>1. PICK L \in 1..clock : LiveAt(L)'
      BY <1>0, <1>2, LivePut
    <2>2. L \in 1..clock'
      BY <1>0, <1>1, <2>1
    <2> QED
      BY <2>1, <2>2
  <1>3. CASE ~ Put
    <2>1. ~ Delete
      BY DEF Delete
    <2>2. 0 \notin expect
      BY <1>3, <2>1 DEF Next, SyncStep, vars, PutFails, DeleteFails, Get, Fail, Return, Detach,
           HoldOffline, ReleaseHold, RebuildCatalog, Replicate, Trim, VacuumMarker, VacuumObject,
           SyncBegin, SyncCopy, SyncReplay, SyncRefresh, SyncMarkers, SyncMirror, Attach, Scan
    <2>3. PICK L \in 1..clock : LiveAt(L)
      BY <2>2 DEF Live
    <2>4. L \in 1..clock'
      BY <1>0, <1>1
    <2> SUFFICES LiveAt(L)'
      BY <2>4
    <2>5. \A s \in Shards : Mark(s).val < L
      BY <2>3 DEF LiveAt, Since
    <2>6. ASSUME UNCHANGED <<store, cat, expect>>,
                 \A s \in Shards : health'[s] = "Healthy" => health[s] = "Healthy",
                 \A s \in Shards : health'[s] = "Degraded" => health[s] \in {"Healthy", "Degraded"},
                 \/ sync' = sync /\ health' = health
                 \/ sync'.step \in {"idle", "mirror", "copy"} /\ (set.rf # N => sync.step # "scan")
          PROVE  LiveAt(L)'
      <3>1. Entry' = Entry /\ \A s \in Shards : Obj(s)' = Obj(s) /\ Mark(s)' = Mark(s)
        BY <2>6 DEF Obj, Mark, Entry
      <3> QED
        BY <1>0, <2>3, <2>5, <2>6, <3>1, LiveFrame
    <2>7. sync = NoSync => sync.step = "idle"
      BY DEF NoSync
    <2>8. CASE PutFails
      BY <1>0, <2>3, <2>8, LivePutFails
    <2>9. CASE DeleteFails
      <3>1. /\ cat' = cat /\ sync = NoSync /\ ClientsRun /\ Available(health) # {}
            /\ health' = Attempt("marker", Available(health), health).health
            /\ store' = store /\ expect' = expect
        BY <2>9, DeleteFailsDoes
      <3>2. Hurt(health')
        BY <3>1, DeleteOnce
      <3>3. sync' = sync
        BY <2>9 DEF DeleteFails
      <3> QED
        BY <2>6, <2>7, <3>1, <3>2, <3>3 DEF Hurt
    <2>10. ASSUME NEW s \in Shards, Get(s) PROVE LiveAt(L)'
      <3>1. sync = NoSync /\ Entry.shards = {} /\ s \in Hits("object", store, cat, health)
        BY <2>10, ClientsSee DEF Get, Entry
      <3> QED
        BY <2>3, <3>1, LiveFound
    <2>11. ASSUME NEW s \in Shards, Fail(s) \/ Return(s) PROVE LiveAt(L)'
      BY <2>6, <2>11 DEF Fail, Return
    <2>12. ASSUME NEW s \in Shards, Detach(s) \/ HoldOffline(s) \/ ReleaseHold(s) PROVE LiveAt(L)'
      <3>1. /\ sync = NoSync /\ sync' = sync /\ UNCHANGED <<store, cat, expect>>
            /\ \E x \in {"Offline", "Detached"} : health' = [health EXCEPT ![s] = x]
        BY <2>12 DEF Detach, HoldOffline, ReleaseHold
      <3>2. \A r \in Shards : health'[r] = health[r] \/ health'[r] \in {"Offline", "Detached"}
        BY <1>0, <3>1
      <3> QED
        BY <2>6, <2>7, <3>1, <3>2
    <2>13. CASE RebuildCatalog
      BY <1>0, <2>3, <2>13, LiveRebuild
    <2>14. ASSUME NEW k \in Keys, NEW from \in Shards, NEW to \in Shards, Replicate(k, from, to)
           PROVE  LiveAt(L)'
      BY <1>0, <2>3, <2>14, LiveReplicate
    <2>15. ASSUME NEW k \in Keys, NEW s \in Shards, Trim(k, s) PROVE LiveAt(L)'
      BY <1>0, <2>3, <2>15, LiveTrim
    <2>16. CASE VacuumMarker \/ VacuumObject
      BY <1>0, <2>3, <2>16, LiveVacuum
    <2>17. ASSUME NEW s \in Shards, SyncBegin(s) PROVE LiveAt(L)'
      <3>1. /\ sync = NoSync /\ UNCHANGED <<store, cat, expect>>
            /\ health' = [health EXCEPT ![s] = "Syncing"] /\ sync'.step \in {"mirror", "copy"}
        BY <2>17 DEF SyncBegin
      <3>2. \A r \in Shards : health'[r] = health[r] \/ health'[r] = "Syncing"
        BY <1>0, <3>1
      <3> QED
        BY <2>6, <2>7, <3>1, <3>2
    <2>18. CASE SyncCopy
      BY <1>0, <2>3, <2>18, LiveSyncCopy
    <2>19. CASE SyncReplay
      BY <1>0, <2>3, <2>19, LiveSyncReplay
    <2>20. CASE SyncRefresh
      BY <1>0, <2>3, <2>20, LiveSyncRefresh
    <2>21. CASE SyncMarkers
      BY <1>0, <2>3, <2>21, LiveSyncMarkers
    <2>22. CASE SyncMirror
      BY <1>0, <2>3, <2>22, LiveSyncMirror
    <2>23. CASE Attach
      BY <1>0, <2>3, <2>23, LiveAttach
    <2>24. CASE Scan
      BY <1>0, <2>3, <2>24, LiveScan
    <2>25. CASE UNCHANGED vars
      BY <2>6, <2>25 DEF vars
    <2> QED
      BY <1>3, <2>1, <2>8, <2>9, <2>10, <2>11, <2>12, <2>13, <2>14, <2>15, <2>16, <2>17, <2>18, <2>19,
         <2>20, <2>21, <2>22, <2>23, <2>24, <2>25 DEF Next, SyncStep
  <1> QED
    BY <1>2, <1>3

----------------------------------------------------------------------------
(* One copy on every shard, no unnoticed fault: what the shards in service *)
(* hold is what a read may return, deletes included.                       *)

\* No copy as new as that of s is out of date.
Fresh(s) ==
    \A t \in Shards : Present(store, "object", s) /\ Obj(t).mtime >= Obj(s).mtime => Obj(t).val \in expect

\* What a shard in service holds is current, is in the entry, and is in every
\* such shard or in none.
InService(s) ==
    /\ Obj(s).val \in expect
    /\ Present(store, "object", s) <=> s \in Entry.shards
    /\ Entry.shards # {} => s \in Entry.shards
    /\ Fresh(s)

\* So is what the shard holds that is about to return to service.
Joining ==
    /\ Obj(target).val \in expect
    /\ Fresh(target)
    /\ \E s \in Shards : health[s] = "Healthy" /\ (Present(store, "object", s) <=> Present(store, "object", target))
    /\ sync.step = "scan" => target \notin Entry.shards

\* The shards in service and the one about to return.
AllMirror ==
    /\ \A s \in Shards : health[s] = "Healthy" => InService(s)
    /\ sync.step \in {"attach", "scan"} => Joining

\* One copy per shard, faults noticed.
Plain == set.rf = N /\ ~ set.errors

Mirrors == Plain => AllMirror

\* What is left alone stays mirrored.
LEMMA MirrorsFrame ==
    ASSUME Base, AllMirror, expect \subseteq expect', \A s \in Shards : Obj(s)' = Obj(s), Entry' = Entry,
           \A s \in Shards : health'[s] = "Healthy" => health[s] = "Healthy",
           \/ sync' = sync /\ health' = health
           \/ sync'.step \notin {"attach", "scan"}
    PROVE  AllMirror'
  <1>0. target \in Shards
    BY TargetTyped DEF Base
  <1>1. \A s \in Shards : Present(store, "object", s)' <=> Present(store, "object", s)
    BY DEF Present, Obj
  <1>2. \A s \in Shards : Fresh(s) => Fresh(s)'
    BY <1>1 DEF Fresh
  <1>3. \A s \in Shards : InService(s) => InService(s)'
    BY <1>1, <1>2 DEF InService
  <1>4. CASE sync'.step \notin {"attach", "scan"}
    BY <1>3, <1>4 DEF AllMirror
  <1>5. CASE sync' = sync /\ health' = health
    <2>1. PICK t \in Shards : t = target
      BY <1>0
    <2>2. target' = t
      BY <1>5, <2>1 DEF target
    <2>3. Joining => Joining'
      BY <1>1, <1>2, <1>5, <2>1, <2>2 DEF Joining, Fresh, Obj, Present
    <2> QED
      BY <1>3, <1>5, <2>3 DEF AllMirror
  <1> QED
    BY <1>4, <1>5

\* The shards in service all hold the object, or none of them does.
LEMMA PlainFacts ==
    ASSUME Base, Plain, AllMirror, sync = NoSync, Noticed
    PROVE  /\ \A s \in Shards : s \in Available(health) <=> health[s] = "Healthy"
           /\ \A s \in Shards : health[s] = "Healthy" => Answers(s)
           /\ Entry.shards = {} => Hits("object", store, cat, health) = {}
           /\ Writable(health) = Available(health)
  <1>1. /\ health \in [Shards -> Healths] /\ \A s \in Shards : health[s] \notin {"Degraded", "Syncing"}
    BY DEF Base, Typed, Quiet, Phases, Plain
  <1>2. \A s \in Shards : s \in Available(health) <=> health[s] = "Healthy"
    BY <1>1 DEF Available, Unavailable, Healths
  <1>3. \A s \in Shards : health[s] = "Healthy" => Answers(s)
    BY DEF Noticed, Plain, Base, Phases, Answers, Unavailable
  <1>4. Entry.shards = {} => Hits("object", store, cat, health) = {}
    BY <1>2 DEF Hits, Resolve, Entry, AllMirror, InService, Available
  <1>5. Writable(health) = Available(health)
    BY <1>1, <1>2 DEF Writable, Available
  <1> QED
    BY <1>2, <1>3, <1>4, <1>5

\* A put keeps the shards in service equal.
LEMMA MirrorsPut ==
    ASSUME Base, Supported(set), Plain, AllMirror, Put
    PROVE  AllMirror'
  <1> DEFINE P == PutAttempt.placed
  <1>1. /\ \A s \in Shards : Obj(s)' = IF s \in P THEN [val |-> puts + 1, mtime |-> clock] ELSE Obj(s)
        /\ Entry' = [shards |-> P, updated |-> clock + 1]
        /\ health' = PutAttempt.health /\ sync = NoSync /\ ClientsRun
        /\ SelectTargets("object", health) # {}
    BY PutDoes
  <1>2. P \in SUBSET Shards /\ \A s \in Shards : health'[s] = "Healthy" => s \in P
    BY <1>1, PutOnce DEF Plain
  <1>3. expect' = {puts + 1} /\ sync' = sync
    BY DEF Put
  <1>4. sync'.step = "idle"
    BY <1>1, <1>3 DEF NoSync
  <1>5. clock \in Nat /\ clock > 0 /\ puts \in Nat
    BY DEF Base, Typed
  <1> HIDE DEF P
  <1>6. \A s \in Shards : s \notin P => Obj(s)' = Obj(s) /\ Obj(s).mtime < clock /\ Obj(s).mtime \in Nat
    <2> SUFFICES ASSUME NEW s \in Shards, s \notin P
                 PROVE  Obj(s)' = Obj(s) /\ Obj(s).mtime < clock /\ Obj(s).mtime \in Nat
      OBVIOUS
    <2>1. Obj(s) = Absent \/ Obj(s).mtime \in 1..(clock - 1)
      BY KeysAre DEF Base, Dated, Obj
    <2>2. Obj(s).mtime < clock /\ Obj(s).mtime \in Nat
      BY <1>5, <2>1, AbsentIs
    <2> QED
      BY <1>1, <2>2
  <1>7. \A s \in P : Obj(s)'.mtime = clock /\ Obj(s)'.val = puts + 1
    BY <1>1, <1>2
  <1>8. \A s \in P : Present(store, "object", s)'
    BY <1>2, <1>5, <1>7, AbsentIs DEF Present, Obj
  <1>9. \A s, t \in Shards : s \in P /\ Obj(t)'.mtime >= Obj(s)'.mtime => t \in P
    BY <1>5, <1>6, <1>7
  <1>10. \A s \in P : Fresh(s)'
    BY <1>2, <1>3, <1>7, <1>9 DEF Fresh
  <1>11. \A s \in P : InService(s)'
    BY <1>1, <1>3, <1>7, <1>8, <1>10 DEF InService
  <1> QED
    BY <1>2, <1>4, <1>11 DEF AllMirror

\* A put that failed keeps the shards in service equal.
LEMMA MirrorsPutFails ==
    ASSUME Base, Supported(set), Plain, AllMirror, PutFails
    PROVE  AllMirror'
  <1> DEFINE P == PutAttempt.placed
  <1>1. /\ cat' = cat
        /\ Entry.shards # {} =>
              \A s \in Shards : Obj(s)' = IF s \in P THEN [val |-> puts + 1, mtime |-> clock] ELSE Obj(s)
        /\ Entry.shards = {} =>
              \A s \in Shards : Obj(s)' = IF s \in P THEN Absent ELSE Obj(s)
        /\ health' = PutAttempt.health /\ sync = NoSync /\ ClientsRun
        /\ SelectTargets("object", health) # {}
    BY PutFailsDoes
  <1>2. /\ P \in SUBSET Shards /\ health' = health
        /\ P = SelectTargets("object", health)
    BY <1>1, PutOnce DEF Plain
  <1>3. sync' = sync /\ Entry' = Entry
    BY <1>1 DEF PutFails, Entry
  <1>4. sync'.step = "idle"
    BY <1>1, <1>3 DEF NoSync
  <1>5. /\ clock \in Nat /\ clock > 0 /\ puts \in Nat /\ health \in [Shards -> Healths] /\ set \in Setting
        /\ Entry.shards \subseteq Shards
    BY CopyTyped DEF Base, Typed
  <1>6. Noticed
    BY <1>1 DEF ClientsRun
  <1>7. \A s \in Shards : s \in P <=> health[s] = "Healthy"
    <2>1. P = Writable(health)
      BY <1>2, <1>5, TargetsAll, KeysAre DEF Plain
    <2> QED
      BY <1>1, <1>6, <2>1, PlainFacts
  <1>8. P # {} /\ expect \subseteq expect' /\ (Entry.shards # {} => puts + 1 \in expect')
    BY <1>1, <1>2 DEF PutFails, Entry
  <1> HIDE DEF P
  <1>9. CASE Entry.shards = {}
    <2>1. \A s \in P : ~ Present(store, "object", s)
      BY <1>2, <1>7, <1>9 DEF AllMirror, InService
    <2>2. \A s \in Shards : Obj(s)' = Obj(s)
      BY <1>1, <1>9, <2>1 DEF Present, Obj
    <2> QED
      BY <1>2, <1>3, <1>8, <2>2, MirrorsFrame
  <1>10. CASE Entry.shards # {}
    <2>1. \A s \in P : Obj(s)'.mtime = clock /\ Obj(s)'.val = puts + 1
      BY <1>1, <1>2, <1>10
    <2>2. \A s \in Shards : s \notin P => Obj(s)' = Obj(s) /\ Obj(s).mtime < clock /\ Obj(s).mtime \in Nat
      <3> SUFFICES ASSUME NEW s \in Shards, s \notin P
                   PROVE  Obj(s)' = Obj(s) /\ Obj(s).mtime < clock /\ Obj(s).mtime \in Nat
        OBVIOUS
      <3>1. Obj(s) = Absent \/ Obj(s).mtime \in 1..(clock - 1)
        BY KeysAre DEF Base, Dated, Obj
      <3>2. Obj(s).mtime < clock /\ Obj(s).mtime \in Nat
        BY <1>5, <3>1, AbsentIs
      <3> QED
        BY <1>1, <1>10, <3>2
    <2>3. \A s \in P : Present(store, "object", s)'
      BY <1>2, <1>5, <2>1, AbsentIs DEF Present, Obj
    <2>4. \A s, t \in Shards : s \in P /\ Obj(t)'.mtime >= Obj(s)'.mtime => t \in P
      BY <1>5, <2>1, <2>2
    <2>5. \A s \in P : Fresh(s)'
      BY <1>2, <1>8, <1>10, <2>1, <2>4 DEF Fresh
    <2>6. \A s \in P : s \in Entry.shards
      BY <1>2, <1>7, <1>10 DEF AllMirror, InService
    <2>7. \A s \in P : InService(s)'
      BY <1>3, <1>8, <1>10, <2>1, <2>3, <2>5, <2>6 DEF InService
    <2> QED
      BY <1>2, <1>4, <1>7, <2>7 DEF AllMirror
  <1> QED
    BY <1>9, <1>10

\* Every shard in service loses the object.
LEMMA MirrorsGone ==
    ASSUME Base, 0 \in expect', Entry'.shards = {}, sync'.step = "idle",
           \A s \in Shards : health'[s] = "Healthy" => Obj(s)' = Absent
    PROVE  AllMirror'
  <1>1. ASSUME NEW s \in Shards, health'[s] = "Healthy" PROVE InService(s)'
    <2>1. Obj(s)' = Absent /\ Obj(s)'.val = 0
      BY <1>1, AbsentIs
    <2>2. ~ Present(store, "object", s)'
      BY <2>1 DEF Present, Obj
    <2> QED
      BY <2>1, <2>2 DEF InService, Fresh
  <1> QED
    BY <1>1 DEF AllMirror

\* A delete keeps the shards in service equal.
LEMMA MirrorsDelete ==
    ASSUME Base, Supported(set), Plain, AllMirror, Delete
    PROVE  AllMirror'
  <1> DEFINE r == Attempt("marker", Available(health), health)
             c == [cat EXCEPT !["marker"] = [shards |-> r.placed, updated |-> clock + 1]]
             R == Resolve("object", c, r.health)
  <1>1. /\ \A s \in Shards : Obj(s)' = IF s \in R /\ Answers(s) THEN Absent ELSE Obj(s)
        /\ (\A s \in R : Answers(s)) => Entry'.shards = {}
        /\ c["object"] = cat["object"]
        /\ health' = r.health /\ sync = NoSync /\ ClientsRun /\ Available(health) # {}
    BY DeleteDoes
  <1>2. r.health = health
    BY <1>1, DeleteOnce DEF Plain
  <1> HIDE DEF r, c
  <1>3. Noticed
    BY <1>1 DEF ClientsRun
  <1>4. /\ \A s \in Shards : s \in Available(health) <=> health[s] = "Healthy"
        /\ \A s \in Shards : health[s] = "Healthy" => Answers(s)
    BY <1>1, <1>3, PlainFacts
  <1>5. R = IF Entry.shards = {} THEN Available(health) ELSE Entry.shards \cap Available(health)
    BY <1>1, <1>2 DEF Resolve, Entry
  <1>6. \A s \in Shards : health[s] = "Healthy" => s \in R
    BY <1>4, <1>5 DEF AllMirror, InService
  <1>7. R \subseteq Available(health) /\ Available(health) \subseteq Shards
    BY <1>5 DEF Available
  <1> HIDE DEF R
  <1>8. Entry'.shards = {}
    BY <1>1, <1>4, <1>7
  <1>9. \A s \in Shards : health'[s] = "Healthy" => Obj(s)' = Absent
    BY <1>1, <1>2, <1>4, <1>6
  <1>10. 0 \in expect' /\ sync' = sync
    BY DEF Delete
  <1>11. sync'.step = "idle"
    BY <1>1, <1>10 DEF NoSync
  <1> QED
    BY <1>8, <1>9, <1>10, <1>11, MirrorsGone

\* Vacuum on an object keeps the shards in service equal.
LEMMA MirrorsVacuumObject ==
    ASSUME Base, Supported(set), Plain, AllMirror, Live, VacuumObject
    PROVE  AllMirror'
  <1>1. /\ \E m \in Shards : \E o \in Hits("object", store, cat, health) : Obj(o).mtime <= Mark(m).val
        /\ Entry.shards # {} /\ (\A s \in Shards : Answers(s)) =>
                /\ Entry'.shards = {}
                /\ \A s \in Entry.shards : Obj(s)' = Absent
        /\ sync = NoSync /\ Noticed /\ \A s \in Shards : health[s] = "Healthy"
    BY VacuumObjectDoes
  <1>2. UNCHANGED <<health, sync, expect>>
    BY DEF VacuumObject
  <1>3. Entry.shards # {} /\ \A s \in Shards : Answers(s)
    BY <1>1, PlainFacts
  <1>4. \A s \in Shards : s \in Entry.shards
    BY <1>1, <1>3 DEF AllMirror, InService
  <1>5. 0 \in expect
    <2> SUFFICES ASSUME 0 \notin expect PROVE FALSE
      OBVIOUS
    <2>0. clock \in Nat
      BY DEF Base, Typed
    <2>1. PICK L \in 1..clock : LiveAt(L)
      BY DEF Live
    <2>2. PICK m \in Shards : \E o \in Hits("object", store, cat, health) : Obj(o).mtime <= Mark(m).val
      BY <1>1
    <2>3. PICK o \in Hits("object", store, cat, health) : Obj(o).mtime <= Mark(m).val
      BY <2>2
    <2>4. o \in Entry.shards /\ Obj(o).mtime >= L /\ Entry.shards \subseteq Shards
      BY <1>1, <2>1, <2>3, LiveFound, CopyTyped DEF Base
    <2>5. Mark(m).val < L /\ Mark(m).val \in Nat /\ Obj(o).mtime \in Nat
      BY <2>1, <2>4, CopyTyped DEF LiveAt, Since, Base
    <2> QED
      BY <2>0, <2>3, <2>4, <2>5
  <1>6. sync'.step = "idle"
    BY <1>1, <1>2 DEF NoSync
  <1> QED
    BY <1>1, <1>2, <1>3, <1>4, <1>5, <1>6, MirrorsGone

\* Mirror_sync keeps the shards in service equal.
LEMMA MirrorsSyncMirror ==
    ASSUME Base, Supported(set), Plain, AllMirror, SyncMirror
    PROVE  AllMirror'
  <1>0. /\ clock \in Nat /\ clock > 0 /\ target \in Shards /\ sync \in [shard : Shards, step : Steps]
        /\ health \in [Shards -> Healths]
    BY TargetTyped DEF Base, Typed
  <1>1. UNCHANGED <<cat, expect>> /\ sync.step = "mirror"
    BY SyncMirrorDoes DEF SyncMirror
  <1>2. Entry' = Entry /\ sync # NoSync
    BY <1>1 DEF Entry, NoSync
  <1>3. PICK t \in Shards : t = target /\ health[t] = "Syncing"
    BY <1>0, <1>2 DEF Base, Phases
  <1>4. CASE store' = store /\ sync' = NoSync /\ health' = [health EXCEPT ![target] = "Offline"]
    <2>1. \A s \in Shards : Obj(s)' = Obj(s)
      BY <1>4 DEF Obj
    <2>2. sync'.step = "idle"
      BY <1>4 DEF NoSync
    <2>3. \A s \in Shards : health'[s] = IF s = t THEN "Offline" ELSE health[s]
      BY <1>0, <1>3, <1>4
    <2> QED
      BY <1>1, <1>2, <2>1, <2>2, <2>3, MirrorsFrame
  <1>5. CASE ~ (store' = store /\ sync' = NoSync /\ health' = [health EXCEPT ![target] = "Offline"])
    <2>1. /\ \A k \in Keys, s \in Shards : s # target => store'[k][s] = store[k][s]
          /\ \E src \in MirrorSources : \A k \in Keys, s \in Shards : s = target =>
                       /\ Present(store, k, src) =>
                            store'[k][s] = IF store[k][src].mtime > store[k][s].mtime
                                           THEN [val |-> store[k][src].val, mtime |-> clock]
                                           ELSE store[k][s]
                       /\ ~ Present(store, k, src) => store'[k][s] = Absent
          /\ sync' = [sync EXCEPT !.step = "attach"] /\ health' = health
      BY <1>5, SyncMirrorDoes
    <2>2. PICK src \in MirrorSources : \A k \in Keys, s \in Shards : s = target =>
                       /\ Present(store, k, src) =>
                            store'[k][s] = IF store[k][src].mtime > store[k][s].mtime
                                           THEN [val |-> store[k][src].val, mtime |-> clock]
                                           ELSE store[k][s]
                       /\ ~ Present(store, k, src) => store'[k][s] = Absent
      BY <2>1
    <2>3. src \in Shards /\ health[src] = "Healthy" /\ src # t
      BY <1>3 DEF MirrorSources
    <2>4. /\ Present(store, "object", src) =>
               Obj(t)' = IF Obj(src).mtime > Obj(t).mtime THEN [val |-> Obj(src).val, mtime |-> clock] ELSE Obj(t)
          /\ ~ Present(store, "object", src) => Obj(t)' = Absent
      BY <1>3, <2>2, KeysAre DEF Obj
    <2>5. \A s \in Shards : s # t => Obj(s)' = Obj(s)
      BY <1>3, <2>1, KeysAre DEF Obj
    <2>6. sync'.step = "attach" /\ target' = t
      BY <1>0, <1>3, <2>1 DEF target
    <2>7. InService(src)
      BY <2>3 DEF AllMirror
    <2>8. \A s \in Shards : Obj(s).mtime \in Nat /\ Obj(s).mtime < clock
      <3> TAKE s \in Shards
      <3>1. Obj(s) = Absent \/ Obj(s).mtime \in 1..(clock - 1)
        BY KeysAre DEF Base, Dated, Obj
      <3> QED
        BY <1>0, <3>1, AbsentIs
    <2>9. Present(store, "object", src) => Obj(src).mtime > 0 /\ Obj(src).val > 0
      BY <1>0, <2>3, KeysAre DEF Base, Dated, Obj, Present
    <2>10. \A s \in Shards : s # t => (Present(store, "object", s)' <=> Present(store, "object", s))
      BY <2>5 DEF Present, Obj
    <2>11. /\ Obj(t)'.val \in expect
           /\ \A s \in Shards : Present(store, "object", t)' /\ Obj(s)'.mtime >= Obj(t)'.mtime => Obj(s)'.val \in expect
           /\ Present(store, "object", t)' <=> Present(store, "object", src)
      <3>1. CASE ~ Present(store, "object", src)
        <4>1. Obj(t)' = Absent /\ Obj(src) = Absent
          BY <2>4, <3>1 DEF Present, Obj
        <4> QED
          BY <2>7, <3>1, <4>1 DEF InService, Present, Obj
      <3>2. CASE Present(store, "object", src) /\ Obj(src).mtime > Obj(t).mtime
        <4>1. Obj(t)' = [val |-> Obj(src).val, mtime |-> clock]
          BY <2>4, <3>2
        <4>2. Obj(t)'.val = Obj(src).val /\ Obj(t)'.mtime = clock
          BY <4>1
        <4>3. Present(store, "object", t)'
          BY <1>0, <4>2, AbsentIs DEF Present, Obj
        <4>4. \A s \in Shards : Obj(s)'.mtime >= clock => s = t
          BY <1>0, <2>5, <2>8
        <4> QED
          BY <2>7, <3>2, <4>2, <4>3, <4>4 DEF InService
      <3>3. CASE Present(store, "object", src) /\ ~ (Obj(src).mtime > Obj(t).mtime)
        <4>1. Obj(t)' = Obj(t)
          BY <2>4, <3>3
        <4>2. \A s \in Shards : Obj(s)' = Obj(s)
          BY <2>5, <4>1
        <4>3. Obj(t).mtime >= Obj(src).mtime /\ Obj(t).mtime > 0
          BY <2>3, <2>8, <2>9, <3>3
        <4>4. Present(store, "object", t)'
          BY <4>1, <4>3, AbsentIs DEF Present, Obj
        <4>5. \A s \in Shards : Obj(s).mtime >= Obj(src).mtime => Obj(s).val \in expect
          BY <2>7, <3>3 DEF InService, Fresh
        <4>6. \A s \in Shards : Obj(s).mtime >= Obj(t).mtime => Obj(s).mtime >= Obj(src).mtime
          BY <2>3, <2>8, <4>3
        <4> QED
          BY <3>3, <4>2, <4>3, <4>4, <4>5, <4>6
      <3> QED
        BY <3>1, <3>2, <3>3
    <2>12. ASSUME NEW s \in Shards, health'[s] = "Healthy" PROVE InService(s)'
      <3>1. s # t /\ InService(s) /\ health[s] = "Healthy"
        BY <1>3, <2>1, <2>12 DEF AllMirror
      <3>2. Fresh(s)'
        BY <1>1, <2>5, <2>10, <2>11, <3>1 DEF Fresh, InService
      <3> QED
        BY <1>1, <1>2, <2>5, <2>10, <3>1, <3>2 DEF InService
    <2>13. Joining'
      <3>1. Obj(target)' = Obj(t)' /\ (Present(store, "object", target)' <=> Present(store, "object", t)')
        BY <2>6 DEF Obj, Present
      <3>2. Fresh(target)'
        BY <1>1, <2>6, <2>11, <3>1 DEF Fresh
      <3>3. Present(store, "object", src)' <=> Present(store, "object", t)'
        BY <2>3, <2>10, <2>11
      <3> QED
        BY <1>1, <2>1, <2>3, <2>6, <2>11, <3>1, <3>2, <3>3 DEF Joining
    <2> QED
      BY <2>12, <2>13 DEF AllMirror
  <1> QED
    BY <1>4, <1>5

\* The attachment of a shard keeps the shards in service equal.
LEMMA MirrorsAttach ==
    ASSUME Base, Supported(set), Plain, AllMirror, Attach
    PROVE  AllMirror'
  <1>0. /\ target \in Shards /\ sync \in [shard : Shards, step : Steps]
        /\ health \in [Shards -> Healths]
    BY TargetTyped DEF Base, Typed
  <1>1. /\ Entry'.shards = Entry.shards \ {target}
        /\ sync.step = "attach" /\ sync' = [sync EXCEPT !.step = "scan"]
        /\ health' = [health EXCEPT ![target] = "Syncing"]
    BY AttachDoes
  <1>2. UNCHANGED <<store, expect>>
    BY DEF Attach
  <1>3. health[target] = "Syncing" /\ health' = health
    BY <1>0, <1>1 DEF Base, Phases, NoSync
  <1>4. sync'.step = "scan" /\ target' = target
    BY <1>0, <1>1 DEF target
  <1>5. \A s \in Shards : Obj(s)' = Obj(s) /\ (Present(store, "object", s)' <=> Present(store, "object", s))
    BY <1>2 DEF Obj, Present
  <1>6. \A s \in Shards : Fresh(s)' <=> Fresh(s)
    BY <1>2, <1>5 DEF Fresh
  <1>7. ASSUME NEW s \in Shards, health'[s] = "Healthy" PROVE InService(s)'
    <2>1. s # target /\ InService(s)
      BY <1>3, <1>7 DEF AllMirror
    <2> QED
      BY <1>1, <1>2, <1>5, <1>6, <2>1 DEF InService
  <1>8. PICK t \in Shards : t = target
    BY <1>0
  <1>9. /\ Obj(target)' = Obj(t) /\ (Present(store, "object", target)' <=> Present(store, "object", t))
        /\ Fresh(target)' <=> Fresh(t)
    BY <1>2, <1>4, <1>8 DEF Obj, Present, Fresh
  <1>10. Joining
    BY <1>1 DEF AllMirror
  <1>11. Joining'
    BY <1>1, <1>2, <1>3, <1>4, <1>5, <1>8, <1>9, <1>10 DEF Joining
  <1> QED
    BY <1>7, <1>11 DEF AllMirror

\* The scan of an attached shard keeps the shards in service equal.
LEMMA MirrorsScan ==
    ASSUME Base, Supported(set), Plain, AllMirror, Scan
    PROVE  AllMirror'
  <1>0. target \in Shards /\ health \in [Shards -> Healths] /\ Entry.shards \subseteq Shards
    BY TargetTyped, CopyTyped DEF Base, Typed
  <1>1. UNCHANGED <<store, expect>>
    BY DEF Scan
  <1>2. sync.step = "scan" /\ sync' = NoSync /\ sync'.step = "idle"
    BY ScanDoes DEF NoSync
  <1>3. target \notin down
    BY <1>2 DEF Base, Quiet, NoSync, Plain
  <1>4. PICK t \in Shards : t = target
    BY <1>0
  <1>5. /\ health' = [health EXCEPT ![t] = "Healthy"]
        /\ Entry'.shards = IF Present(store, "object", t) THEN Entry.shards \cup {t}
                           ELSE Entry.shards
    BY <1>3, <1>4, ScanDoes
  <1>6. \A s \in Shards : health'[s] = IF s = t THEN "Healthy" ELSE health[s]
    BY <1>0, <1>5
  <1>7. \A s \in Shards : Obj(s)' = Obj(s) /\ (Present(store, "object", s)' <=> Present(store, "object", s))
    BY <1>1 DEF Obj, Present
  <1>8. \A s \in Shards : Fresh(s)' <=> Fresh(s)
    BY <1>1, <1>7 DEF Fresh
  <1>9. /\ Obj(t).val \in expect /\ Fresh(t) /\ t \notin Entry.shards
        /\ \E s \in Shards : health[s] = "Healthy" /\ (Present(store, "object", s) <=> Present(store, "object", t))
    BY <1>2, <1>4 DEF AllMirror, Joining
  <1>10. PICK h \in Shards : health[h] = "Healthy" /\ (Present(store, "object", h) <=> Present(store, "object", t))
    BY <1>9
  <1>11. Present(store, "object", h) <=> h \in Entry.shards
    BY <1>10 DEF AllMirror, InService
  <1>12. Entry.shards # {} => h \in Entry.shards
    BY <1>10 DEF AllMirror, InService
  <1>13. t \in Entry'.shards <=> Present(store, "object", t)
    BY <1>5, <1>9
  <1>14. Entry'.shards # {} => Present(store, "object", t) /\ Entry.shards # {}
    BY <1>5, <1>10, <1>11, <1>12
  <1>15. ASSUME NEW s \in Shards, health'[s] = "Healthy" PROVE InService(s)'
    <2>1. CASE s = t
      BY <1>1, <1>7, <1>8, <1>9, <1>13, <1>14, <2>1 DEF InService
    <2>2. CASE s # t
      <3>1. InService(s)
        BY <1>6, <1>15, <2>2 DEF AllMirror
      <3>2. s \in Entry'.shards <=> s \in Entry.shards
        BY <1>5, <2>2
      <3> QED
        BY <1>1, <1>7, <1>8, <1>14, <3>1, <3>2 DEF InService
    <2> QED
      BY <2>1, <2>2
  <1> QED
    BY <1>2, <1>15 DEF AllMirror

\* Rebuild_catalog keeps the shards in service equal.
LEMMA MirrorsRebuild ==
    ASSUME Base, Supported(set), Plain, AllMirror, RebuildCatalog
    PROVE  AllMirror'
  <1>0. cat' \in Catalogs /\ Entry'.shards \subseteq Shards
    BY RebuildDoes, KeysAre DEF Entry, Catalogs
  <1>1. /\ \A s \in Shards : s \in Entry'.shards <=> (health[s] = "Healthy" /\ Present(store, "object", s))
        /\ sync = NoSync
    BY RebuildDoes
  <1>2. UNCHANGED <<store, health, sync, expect>>
    BY DEF RebuildCatalog
  <1>3. \A s \in Shards : Obj(s)' = Obj(s) /\ (Present(store, "object", s)' <=> Present(store, "object", s))
    BY <1>2 DEF Obj, Present
  <1>4. \A s \in Shards : Fresh(s)' <=> Fresh(s)
    BY <1>2, <1>3 DEF Fresh
  <1>5. sync'.step = "idle"
    BY <1>1, <1>2 DEF NoSync
  <1>6. ASSUME NEW s \in Shards, health'[s] = "Healthy" PROVE InService(s)'
    <2>1. InService(s) /\ health[s] = "Healthy"
      BY <1>2, <1>6 DEF AllMirror
    <2>2. Present(store, "object", s) <=> s \in Entry'.shards
      BY <1>1, <2>1
    <2>3. ASSUME Entry'.shards # {} PROVE s \in Entry'.shards
      <3>1. PICK r \in Shards : health[r] = "Healthy" /\ Present(store, "object", r)
        BY <1>0, <1>1, <2>3
      <3>2. r \in Entry.shards
        BY <3>1 DEF AllMirror, InService
      <3>3. Present(store, "object", s)
        BY <2>1, <3>2 DEF InService
      <3> QED
        BY <2>2, <3>3
    <2> QED
      BY <1>2, <1>3, <1>4, <2>1, <2>2, <2>3 DEF InService
  <1> QED
    BY <1>5, <1>6 DEF AllMirror

\* Every step keeps the shards in service equal.
LEMMA MirrorsStep ==
    ASSUME Base, Supported(set), Live, Mirrors, [Next]_vars
    PROVE  Mirrors'
  <1>0. /\ SameSetting /\ health \in [Shards -> Healths]
    BY SettingStays DEF Base, Typed
  <1> SUFFICES ASSUME Plain, AllMirror PROVE AllMirror'
    BY <1>0 DEF Mirrors, Plain, SameSetting
  <1>1. ASSUME cat' = cat, store' = store, expect \subseteq expect',
               \A s \in Shards : health'[s] = "Healthy" => health[s] = "Healthy",
               \/ sync' = sync /\ health' = health
               \/ sync'.step \notin {"attach", "scan"}
        PROVE  AllMirror'
    <2>1. Entry' = Entry /\ \A s \in Shards : Obj(s)' = Obj(s)
      BY <1>1 DEF Entry, Obj
    <2> QED
      BY <1>1, <2>1, MirrorsFrame
  <1>2. sync = NoSync => sync.step = "idle"
    BY DEF NoSync
  <1>3. CASE Put
    BY <1>3, MirrorsPut
  <1>4. CASE PutFails
    BY <1>4, MirrorsPutFails
  <1>5. CASE Delete
    BY <1>5, MirrorsDelete
  <1>6. CASE DeleteFails
    <2>1. /\ cat' = cat /\ \A s \in Shards : Obj(s)' = Obj(s)
          /\ health' = Attempt("marker", Available(health), health).health
          /\ sync = NoSync /\ ClientsRun /\ Available(health) # {} /\ expect \subseteq expect'
      BY <1>6, DeleteFailsDoes
    <2>2. health' = health
      BY <2>1, DeleteOnce DEF Plain
    <2>3. sync' = sync /\ Entry' = Entry
      BY <1>6, <2>1 DEF DeleteFails, Entry
    <2> QED
      BY <2>1, <2>2, <2>3, MirrorsFrame
  <1>7. ASSUME NEW s \in Shards, Get(s) PROVE AllMirror'
    <2>1. sync = NoSync /\ Noticed /\ Entry.shards = {} /\ s \in Hits("object", store, cat, health)
      BY <1>7, ClientsSee DEF Get, Entry, ClientsRun
    <2> QED
      BY <2>1, PlainFacts
  <1>8. ASSUME NEW s \in Shards, Fail(s) \/ Return(s) PROVE AllMirror'
    BY <1>1, <1>8 DEF Fail, Return
  <1>9. ASSUME NEW s \in Shards, Detach(s) \/ HoldOffline(s) \/ ReleaseHold(s) PROVE AllMirror'
    <2>1. /\ sync = NoSync /\ sync' = sync /\ UNCHANGED <<store, cat, expect>>
          /\ \E x \in {"Offline", "Detached"} : health' = [health EXCEPT ![s] = x]
      BY <1>9 DEF Detach, HoldOffline, ReleaseHold
    <2>2. \A r \in Shards : health'[r] = health[r] \/ health'[r] \in {"Offline", "Detached"}
      BY <1>0, <2>1
    <2> QED
      BY <1>1, <1>2, <2>1, <2>2
  <1>10. CASE RebuildCatalog
    BY <1>10, MirrorsRebuild
  <1>11. ASSUME NEW k \in Keys, NEW from \in Shards, NEW to \in Shards, Replicate(k, from, to)
         PROVE  AllMirror'
    <2>0. \A j \in Keys : j # k => store'[j] = store[j] /\ cat'[j] = cat[j]
      BY <1>11, ReplicateDoes
    <2>1. from \in cat[k].shards /\ to \notin cat[k].shards /\ health[to] = "Healthy"
      BY <1>11 DEF Replicate
    <2>2. k # "object"
      BY <2>1 DEF AllMirror, InService, Entry
    <2>3. Entry' = Entry /\ \A s \in Shards : Obj(s)' = Obj(s)
      BY <2>0, <2>2, KeysAre DEF Entry, Obj
    <2>4. UNCHANGED <<health, sync, expect>>
      BY <1>11 DEF Replicate
    <2> QED
      BY <2>3, <2>4, MirrorsFrame
  <1>12. ASSUME NEW k \in Keys, NEW s \in Shards, Trim(k, s) PROVE AllMirror'
    BY <1>12, TrimDoes DEF Plain
  <1>13. CASE VacuumMarker
    <2>1. /\ \A s \in Shards : Obj(s)' = Obj(s)
          /\ Entry' = Entry \/ (Entry.shards = {} /\ Hits("object", store, cat, health) # {})
          /\ sync = NoSync /\ Noticed
      BY <1>13, VacuumMarkerDoes
    <2>2. Entry' = Entry
      BY <2>1, PlainFacts
    <2>3. UNCHANGED <<health, sync, expect>>
      BY <1>13 DEF VacuumMarker
    <2> QED
      BY <2>1, <2>2, <2>3, MirrorsFrame
  <1>14. CASE VacuumObject
    BY <1>14, MirrorsVacuumObject
  <1>15. ASSUME NEW s \in Shards, SyncBegin(s) PROVE AllMirror'
    <2>1. /\ UNCHANGED <<store, cat, expect>>
          /\ health' = [health EXCEPT ![s] = "Syncing"] /\ sync'.step \in {"mirror", "copy"}
      BY <1>15 DEF SyncBegin
    <2>2. \A r \in Shards : health'[r] = health[r] \/ health'[r] = "Syncing"
      BY <1>0, <2>1
    <2> QED
      BY <1>1, <2>1, <2>2
  <1>16. CASE SyncCopy \/ SyncReplay \/ SyncRefresh \/ SyncMarkers
    <2>1. sync.step \in {"copy", "replay", "refresh", "markers"}
      BY <1>16 DEF SyncCopy, SyncReplay, SyncRefresh, SyncMarkers, AtStep
    <2> QED
      BY <2>1 DEF Base, Phases, Plain
  <1>17. CASE SyncMirror
    BY <1>17, MirrorsSyncMirror
  <1>18. CASE Attach
    BY <1>18, MirrorsAttach
  <1>19. CASE Scan
    BY <1>19, MirrorsScan
  <1>20. CASE UNCHANGED vars
    BY <1>1, <1>20 DEF vars
  <1> QED
    BY <1>3, <1>4, <1>5, <1>6, <1>7, <1>8, <1>9, <1>10, <1>11, <1>12, <1>13, <1>14, <1>15, <1>16, <1>17,
       <1>18, <1>19, <1>20 DEF Next, SyncStep

----------------------------------------------------------------------------
(* The theorems.                                                           *)

\* The inductive invariant.
ShardedInv == set \in Setting /\ (Supported(set) => Base /\ Live /\ Mirrors)

\* It holds initially.
LEMMA ShardedInit ==
    ASSUME Init
    PROVE  ShardedInv
  <1>1. set \in Setting
    BY ShardedAssumption DEF Init
  <1>2. Typed
    BY <1>1, ShardsFinite, AbsentIs
       DEF Init, Typed, Stores, Catalogs, NoEntry, Healths, NoSync, Steps
  <1>3. Dated
    BY AbsentIs, KeysAre DEF Init, Dated, Mark
  <1>4. Phases
    BY DEF Init, Phases, NoSync
  <1>5. Quiet
    BY DEF Init, Quiet
  <1>6. Lone
    BY DEF Init, Lone, Away, Unavailable
  <1>7. Live
    BY DEF Init, Live
  <1>8. Mirrors
    <2>1. Entry.shards = {} /\ sync.step = "idle" /\ expect = {0}
      BY KeysAre DEF Init, Entry, NoEntry, NoSync
    <2>2. \A s \in Shards : Obj(s) = Absent
      BY KeysAre DEF Init, Obj
    <2> QED
      BY <2>1, <2>2, AbsentIs DEF Mirrors, AllMirror, InService, Fresh, Present, Obj
  <1> QED
    BY <1>1, <1>2, <1>3, <1>4, <1>5, <1>6, <1>7, <1>8 DEF ShardedInv, Base

\* Every step keeps it.
LEMMA ShardedNext ==
    ASSUME ShardedInv, [Next]_vars
    PROVE  ShardedInv'
  <1>1. SameSetting
    BY SettingStays DEF ShardedInv
  <1>2. ASSUME Supported(set)' PROVE Base' /\ Live' /\ Mirrors'
    <2>1. Supported(set)
      BY <1>1, <1>2 DEF SameSetting, Supported, MirrorSetting, PartSetting
    <2>2. Base /\ Live /\ Mirrors
      BY <2>1 DEF ShardedInv
    <2>3. Base'
      BY <2>1, <2>2, TypedStep, DatedStep, ControlStep DEF Base, Control
    <2> QED
      BY <2>1, <2>2, <2>3, LiveStep, MirrorsStep
  <1> QED
    BY <1>1, <1>2 DEF ShardedInv, SameSetting

\* It always holds.
LEMMA ShardedInvariant == Spec => []ShardedInv
  <1>1. Init => ShardedInv
    BY ShardedInit
  <1>2. ShardedInv /\ [Next]_vars => ShardedInv'
    BY ShardedNext
  <1> QED
    BY <1>1, <1>2, PTL DEF Spec

\* put, delete, the outages of shards, repair, trimming and sync_and_reattach
\* of shardedobjstr: while an acknowledged object exists no read returns an
\* older value, and its value is on some shard, for any number of shards and
\* any home, for one copy per shard with any number of shards away, also when
\* faults go unnoticed, and for fewer copies with one shard away at a time.
THEOREM ReplicatedReads ==
    Spec => [](Supported(set) => LiveReadsCurrent /\ AckedSurvives)
  <1>1. ShardedInv => (Supported(set) => LiveReadsCurrent /\ AckedSurvives)
    <2> SUFFICES ASSUME Base, Live, Supported(set) PROVE LiveReadsCurrent /\ AckedSurvives
      BY DEF ShardedInv
    <2> SUFFICES ASSUME 0 \notin expect
                 PROVE  /\ Serving => Returned \subseteq expect
                        /\ \E s \in Shards : store["object"][s].val \in expect
      BY DEF LiveReadsCurrent, AckedSurvives
    <2>1. PICK L \in 1..clock : LiveAt(L)
      BY DEF Live
    <2>2. \E s \in Shards : Obj(s).val \in expect
      BY <2>1 DEF LiveAt, Since
    <2>3. ASSUME Serving, NEW s \in Hits("object", store, cat, health) PROVE Obj(s).val \in expect
      <3>1. s \in Entry.shards /\ Obj(s).mtime >= L /\ Entry.shards \subseteq Shards
        BY <2>1, <2>3, LiveFound, CopyTyped DEF Serving, Base
      <3> QED
        BY <2>1, <3>1 DEF LiveAt, Since
    <2> QED
      BY <2>2, <2>3 DEF Returned, Obj
  <1> QED
    BY <1>1, ShardedInvariant, PTL

\* The value of an acknowledged put of shardedobjstr is on some shard for good:
\* no sync, trim, vacuum or repair removes the last copy of it.
THEOREM AcknowledgedSurvive ==
    Spec => [](Supported(set) => AckedSurvives)
  <1>1. (Supported(set) => LiveReadsCurrent /\ AckedSurvives) => (Supported(set) => AckedSurvives)
    OBVIOUS
  <1> QED
    BY <1>1, ReplicatedReads, PTL

\* delete, vacuum, mirror_sync and rebuild_catalog with one copy on every
\* shard: a read never returns a deleted or an overwritten object, whatever
\* the shards that were away bring back.
THEOREM MirroredDeletes ==
    Spec => [](~ set.during => MirrorDeletesHold)
  <1>1. ShardedInv => (~ set.during => MirrorDeletesHold)
    <2> SUFFICES ASSUME ShardedInv, ~ set.during, set.rf = N, ~ set.errors, Serving
                 PROVE  Returned \subseteq expect
      BY DEF MirrorDeletesHold, DeletedStaysDeleted
    <2>1. Supported(set)
      BY DEF Supported, MirrorSetting
    <2>2. Base /\ AllMirror /\ Plain /\ sync = NoSync /\ Noticed
      BY <2>1 DEF ShardedInv, Mirrors, Plain, Serving
    <2>3. \A s \in Shards : s \in Available(health) => health[s] = "Healthy"
      BY <2>2, PlainFacts
    <2>4. \A s \in Hits("object", store, cat, health) : s \in Available(health) /\ s \in Shards
      BY DEF Hits, Resolve, Available
    <2>5. \A s \in Hits("object", store, cat, health) : Obj(s).val \in expect
      BY <2>2, <2>3, <2>4 DEF AllMirror, InService
    <2> QED
      BY <2>5 DEF Returned, Obj
  <1> QED
    BY <1>1, ShardedInvariant, PTL
=============================================================================
