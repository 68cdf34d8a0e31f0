---------------------------- MODULE IndexProofs ----------------------------
(***************************************************************************)
(* Proofs about the parts of rawobjstr below the object store: the commit  *)
(* of the index and the reader that follows it, the extent allocator, and  *)
(* the block codec, for any number of shards, versions, transactions and   *)
(* blocks and for all sizes.  The index rests on what every behaviour      *)
(* keeps (FlushTypes, Commits) and, each with the faults it tolerates as   *)
(* its hypothesis, has three results:                                      *)
(*   CleanDevice    a clean index is on the device (flush_index and its    *)
(*                  retries),                                              *)
(*   CrashSafe      slots and superblocks implement DurableIndex,          *)
(*   ReaderFollows  a subscribed reader ends with the writer's index.      *)
(* The allocator's result rests on AllocInv, the codec's on CodecInv:      *)
(*   FreeListImplementsFreeSpace  the free list implements FreeSpace,      *)
(*   ReadsAreExact  a read returns what was written, or fails as it may.   *)
(***************************************************************************)
EXTENDS IndexReader, ExtentAllocator, BlockCodec, InductionLemmas, FiniteSetTheorems, TLAPS

Index == [Shards -> Versions]

\* The types, what Corrupt means, and the room for one more transaction.
FlushTypes ==
    /\ slot \in [Slots -> Versions \cup {Torn}]
    /\ slotMedia \in [Slots -> SUBSET (Versions \cup {Torn})]
    /\ sb \in [{0, 1} -> Superblock \cup {Torn}]
    /\ sbMedia \in [{0, 1} -> SUBSET (Superblock \cup {Torn})]
    /\ mem \in Index \cup {Corrupt}
    /\ dirty \subseteq Shards
    /\ msb \in Superblock
    /\ pc \in {"idle", "shards", "sync0", "sb0", "sync1", "sb1", "sync2", "down"}
    /\ shard \in 0..NumShards
    /\ plan \in [errors : Nat, kills : Nat, losses : Nat, torn : BOOLEAN]
    /\ durable \subseteq Index
    /\ mem = Corrupt => pc = "down"
    /\ pc \in {"shards", "sync0"} => msb.txn < MaxTxn

\* ChosenSuperblock as a function of what the two superblocks hold.
Pick(a, b) ==
    CASE a = Torn -> b
      [] b = Torn -> a
      [] OTHER -> IF a.txn >= b.txn THEN a ELSE b

\* open_impl takes the valid one, or the one with the higher txn_id.
LEMMA Picked ==
    ASSUME NEW a, NEW b
    PROVE  /\ a = Torn => Pick(a, b) = b
           /\ b = Torn => Pick(a, b) = a
           /\ a # Torn /\ b # Torn => Pick(a, b) = IF a.txn >= b.txn THEN a ELSE b
           /\ Pick(a, b) \in {a, b}
  BY Zenon DEF Pick

\* What open_impl takes depends on the two superblocks alone.
LEMMA ChosenIsPick == ChosenSuperblock = Pick(sb[0], sb[1])
  BY Zenon DEF ChosenSuperblock, Pick

\* It takes a superblock, or finds none.
LEMMA ChosenTyped ==
    ASSUME FlushTypes PROVE ChosenSuperblock \in Superblock \cup {Torn}
  BY ChosenIsPick, Picked DEF FlushTypes

\* WriteShard field by field: it flips the slot of one shard of the in-memory
\* superblock, to the slot it has written, and touches no other shard.
LEMMA WriteShardFields ==
    ASSUME FlushTypes, WriteShard
    PROVE  /\ shard \in Shards /\ mem \in Index /\ mem[shard] \in Versions
           /\ TargetSlot(shard) \in Slots
           /\ msb' \in Superblock
           /\ msb'.txn = msb.txn
           /\ msb'.active[shard] = 1 - msb.active[shard]
           /\ msb'.crc[shard] = mem[shard]
           /\ \A s \in Shards \ {shard} :
                 msb'.active[s] = msb.active[s] /\ msb'.crc[s] = msb.crc[s]
  <1>1. shard \in Shards /\ mem \in Index
    BY IndexFlushAssumption DEF FlushTypes, WriteShard, Shards
  <1>2. mem[shard] \in Versions
    BY <1>1 DEF Index
  <1>3. msb \in [txn : 1..MaxTxn, active : [Shards -> {0, 1}], crc : [Shards -> Versions]]
    BY DEF FlushTypes, Superblock
  <1>4. 1 - msb.active[shard] \in {0, 1}
    BY <1>1, <1>3
  <1>5. TargetSlot(shard) \in Slots
    BY <1>1, <1>4 DEF TargetSlot, Slots
  <1>6. msb' = [msb EXCEPT !.active[shard] = 1 - msb.active[shard], !.crc[shard] = mem[shard]]
    BY DEF WriteShard, TargetSlot
  <1>7. msb' \in Superblock
    BY <1>1, <1>2, <1>3, <1>4, <1>6 DEF Superblock
  <1> QED
    BY <1>1, <1>2, <1>3, <1>5, <1>6, <1>7

\* A formatted device has the types.
LEMMA TypesInit == FlushInit => FlushTypes
  <1> SUFFICES ASSUME FlushInit PROVE FlushTypes
    OBVIOUS
  <1>1. FirstSuperblock \in Superblock /\ 0 \in Versions
    BY IndexFlushAssumption DEF FirstSuperblock, Superblock, Versions
  <1>2. mem \in Index /\ mem # Corrupt
    BY <1>1, IndexFlushAssumption DEF FlushInit, Index
  <1>3. slot \in [Slots -> Versions \cup {Torn}]
    BY <1>1 DEF FlushInit
  <1>4. slotMedia \in [Slots -> SUBSET (Versions \cup {Torn})]
    BY <1>3 DEF FlushInit
  <1> QED
    BY <1>1, <1>2, <1>3, <1>4, IndexFlushAssumption DEF FlushInit, FlushTypes

\* Every step of flush_index, open_impl and the faults keeps them.
LEMMA TypesStep == FlushTypes /\ [FlushNext]_flushVars => FlushTypes'
  <1> SUFFICES ASSUME FlushTypes, [FlushNext]_flushVars PROVE FlushTypes'
    OBVIOUS
  <1> USE IndexFlushAssumption
  <1>1. ASSUME NEW s \in Shards, Change(s) PROVE FlushTypes'
    BY <1>1 DEF Change, FlushTypes, device, Index, Versions
  <1>2. CASE BeginFlush
    BY <1>2 DEF BeginFlush, FlushTypes, device
  <1>3. CASE SkipShard
    BY <1>3 DEF SkipShard, FlushTypes, device
  <1>4. CASE WriteShard
    <2>1. slot' \in [Slots -> Versions \cup {Torn}]
      BY <1>4, WriteShardFields DEF WriteShard, FlushTypes
    <2>2. slotMedia' \in [Slots -> SUBSET (Versions \cup {Torn})]
      BY <1>4, WriteShardFields DEF WriteShard, FlushTypes
    <2> QED
      BY <1>4, <2>1, <2>2, WriteShardFields DEF WriteShard, FlushTypes
  <1>5. CASE ShardsDone
    BY <1>5 DEF ShardsDone, FlushTypes, device
  <1>6. CASE SyncShards
    <2>1. msb' \in Superblock
      BY <1>6 DEF SyncShards, FlushTypes, Superblock
    <2> QED
      BY <1>6, <2>1 DEF SyncShards, SyncAll, FlushTypes
  <1>7. CASE WritePrimary
    BY <1>7 DEF WritePrimary, WriteSuperblock, FlushTypes
  <1>8. CASE SyncPrimary
    BY <1>8 DEF SyncPrimary, SyncAll, FlushTypes
  <1>9. CASE WriteBackup
    BY <1>9 DEF WriteBackup, WriteSuperblock, FlushTypes
  <1>10. CASE SyncBackup
    BY <1>10 DEF SyncBackup, SyncAll, FlushTypes
  <1>11. CASE FlushError
    <2>1. plan' \in [errors : Nat, kills : Nat, losses : Nat, torn : BOOLEAN]
      BY <1>11 DEF FlushError, FlushTypes
    <2>2. /\ slot' \in [Slots -> Versions \cup {Torn}]
          /\ slotMedia' \in [Slots -> SUBSET (Versions \cup {Torn})]
      BY <1>11 DEF FlushError, FlushTypes, device
    <2>3. /\ sb' \in [{0, 1} -> Superblock \cup {Torn}]
          /\ sbMedia' \in [{0, 1} -> SUBSET (Superblock \cup {Torn})]
      BY <1>11 DEF FlushError, FlushTypes, device
    <2> QED
      BY <1>11, <2>1, <2>2, <2>3 DEF FlushError, FlushTypes
  <1>12. CASE Kill
    <2>1. plan' \in [errors : Nat, kills : Nat, losses : Nat, torn : BOOLEAN]
      BY <1>12 DEF Kill, FlushTypes
    <2> QED
      BY <1>12, <2>1 DEF Kill, Die, FlushTypes, device
  <1>13. CASE PowerLoss
    <2>1. plan' \in [errors : Nat, kills : Nat, losses : Nat, torn : BOOLEAN]
      BY <1>13 DEF PowerLoss, FlushTypes
    <2> QED
      BY <1>13, <2>1 DEF PowerLoss, Die, FlushTypes
  <1>14. CASE OpenIndex
    <2>1. CASE Loads(ChosenSuperblock)
      <3>1. ChosenSuperblock \in Superblock
        BY <2>1, ChosenTyped DEF Loads
      <3>2. ChosenSuperblock.crc \in Index /\ ChosenSuperblock.crc # Corrupt
        BY <3>1 DEF Superblock, Index
      <3>3. /\ mem' = ChosenSuperblock.crc /\ msb' = ChosenSuperblock
            /\ dirty' = {} /\ pc' = "idle"
        BY <1>14, <2>1 DEF OpenIndex
      <3> QED
        BY <1>14, <3>1, <3>2, <3>3 DEF OpenIndex, FlushTypes, device
    <2>2. CASE ~ Loads(ChosenSuperblock)
      BY <1>14, <2>2 DEF OpenIndex, FlushTypes, device
    <2> QED
      BY <2>1, <2>2
  <1>15. CASE UNCHANGED flushVars
    BY <1>15 DEF flushVars, FlushTypes
  <1> QED
    BY <1>1, <1>2, <1>3, <1>4, <1>5, <1>6, <1>7, <1>8, <1>9, <1>10, <1>11,
       <1>12, <1>13, <1>14, <1>15 DEF FlushNext, FlushStep

----------------------------------------------------------------------------
(* What every behaviour keeps, whatever the faults.                        *)

\* A superblock and the one in memory have the same entry for shard s.
Agrees(b, s) == b.active[s] = msb.active[s] /\ b.crc[s] = msb.crc[s]

\* Before and after the primary superblock is written.
Before == {"idle", "shards", "sync0", "sb0"}
After == {"sync1", "sb1", "sync2"}

\* The content of shard s in memory is what the in-memory superblock names.
Written(s) == \/ s \notin dirty
              \/ pc = "shards" /\ s < shard
              \/ pc \in {"sync0", "sb0"} \cup After

\* The slots named by the in-memory superblock hold what its crc fields say
\* (a write goes to the other slot, and the entry is flipped with it); its
\* transaction is the newest, strictly so once it is taken; and from the write
\* of the primary on the superblocks on the device are the one in memory.
Commits ==
    pc # "down" =>
        /\ \A s \in Shards : slot[<<s, msb.active[s]>>] = msb.crc[s]
        /\ \A s \in Shards : Written(s) => mem[s] = msb.crc[s]
        /\ \A i \in {0, 1} : sb[i] # Torn => sb[i].txn <= msb.txn
        /\ \A i \in {0, 1} : pc = "sb0" /\ sb[i] # Torn => sb[i].txn < msb.txn
        /\ pc \in {"sync1", "sb1"} /\ sb[1] # Torn => sb[1].txn < msb.txn
        /\ pc \in After => sb[0] = msb
        /\ pc = "sync2" => sb[1] = msb

\* format_with_options.
LEMMA CommitsInit == FlushInit => Commits
  <1> SUFFICES ASSUME FlushInit PROVE Commits
    OBVIOUS
  <1>1. 1 \in Int /\ 1 <= 1
    OBVIOUS
  <1>2. ASSUME NEW s \in Shards PROVE slot[<<s, msb.active[s]>>] = msb.crc[s]
    <2>1. msb.active[s] = 0 /\ msb.crc[s] = 0
      BY DEF FlushInit, FirstSuperblock
    <2>2. <<s, 0>> \in Slots
      BY DEF Slots
    <2> QED
      BY <2>1, <2>2 DEF FlushInit
  <1> QED
    BY <1>2 DEF FlushInit, FirstSuperblock, Commits, After

\* The target of a shard write is never a slot that the superblock names.
LEMMA ActiveSlots ==
    ASSUME FlushTypes, NEW s \in Shards
    PROVE  /\ <<s, msb.active[s]>> \in Slots
           /\ msb.active[s] \in {0, 1}
           /\ TargetSlot(s) \in Slots
           /\ \A t \in Shards : TargetSlot(s) # <<t, msb.active[t]>>
  BY DEF FlushTypes, Superblock, Slots, TargetSlot

\* No superblock on the device is newer than the one open_impl takes.
LEMMA ChosenNewest ==
    ASSUME FlushTypes, ChosenSuperblock # Torn
    PROVE  \A i \in {0, 1} : sb[i] # Torn => sb[i].txn <= ChosenSuperblock.txn
  BY ChosenIsPick, Picked DEF FlushTypes, Superblock

\* Every step keeps Commits, failed device calls and crashes included.
LEMMA CommitsStep == FlushTypes /\ Commits /\ [FlushNext]_flushVars => Commits'
  <1> SUFFICES ASSUME FlushTypes, Commits, [FlushNext]_flushVars PROVE Commits'
    OBVIOUS
  <1> USE IndexFlushAssumption DEF After
  <1>1. ASSUME NEW s \in Shards, Change(s) PROVE Commits'
    BY <1>1 DEF Change, FlushTypes, device, Index, Commits, Written
  <1>2. CASE BeginFlush
    BY <1>2 DEF BeginFlush, Commits, Written, device, Shards
  <1>3. CASE SkipShard
    BY <1>3 DEF SkipShard, Commits, Written, device, Shards, FlushTypes
  <1>4. CASE WriteShard
    <2>1. ASSUME NEW s \in Shards PROVE slot'[<<s, msb'.active[s]>>] = msb'.crc[s]
      <3>1. CASE s = shard
        BY <1>4, <3>1, WriteShardFields DEF WriteShard, FlushTypes, TargetSlot
      <3>2. CASE s # shard
        <4>1. TargetSlot(shard) # <<s, msb.active[s]>>
          BY <1>4, WriteShardFields, ActiveSlots
        <4> QED
          BY <1>4, <3>2, <4>1, WriteShardFields, ActiveSlots DEF WriteShard, FlushTypes, Commits
      <3> QED
        BY <3>1, <3>2
    <2>2. ASSUME NEW s \in Shards, Written(s)' PROVE mem'[s] = msb'.crc[s]
      <3>1. s = shard \/ Written(s)
        BY <1>4, <2>2, WriteShardFields DEF WriteShard, Written, Shards, FlushTypes
      <3> QED
        BY <1>4, <3>1, WriteShardFields DEF WriteShard, Commits
    <2> QED
      BY <1>4, <2>1, <2>2, WriteShardFields DEF WriteShard, Commits
  <1>5. CASE ShardsDone
    BY <1>5 DEF ShardsDone, Commits, Written, device, Shards
  <1>6. CASE SyncShards
    <2>1. msb' = [msb EXCEPT !.txn = @ + 1] /\ msb.txn \in Int
      BY <1>6 DEF SyncShards, FlushTypes, Superblock
    <2>2. msb'.txn = msb.txn + 1 /\ msb'.active = msb.active /\ msb'.crc = msb.crc
      BY <2>1 DEF FlushTypes, Superblock
    <2>3. ASSUME NEW i \in {0, 1}, sb[i] # Torn PROVE sb[i].txn < msb'.txn /\ sb[i].txn <= msb'.txn
      <3>1. sb[i].txn \in Int /\ sb[i].txn <= msb.txn
        BY <1>6, <2>3 DEF SyncShards, Commits, FlushTypes, Superblock
      <3> QED
        BY <2>1, <2>2, <3>1
    <2> QED
      BY <1>6, <2>2, <2>3 DEF SyncShards, SyncAll, Commits, Written
  <1>7. CASE WritePrimary
    BY <1>7 DEF WritePrimary, WriteSuperblock, Commits, Written, FlushTypes, Superblock
  <1>8. CASE SyncPrimary
    BY <1>8 DEF SyncPrimary, SyncAll, Commits, Written
  <1>9. CASE WriteBackup
    BY <1>9 DEF WriteBackup, WriteSuperblock, Commits, Written, FlushTypes, Superblock
  <1>10. CASE SyncBackup
    BY <1>10 DEF SyncBackup, SyncAll, Commits, Written
  <1>11. CASE FlushError
    <2>1. ASSUME NEW s \in Shards PROVE slot'[<<s, msb.active[s]>>] = msb.crc[s]
      <3>1. slot[<<s, msb.active[s]>>] = msb.crc[s]
        BY <1>11 DEF FlushError, Commits
      <3>2. CASE slot' = slot
        BY <3>1, <3>2
      <3>3. CASE /\ shard \in dirty
                 /\ slot' = [slot EXCEPT ![TargetSlot(shard)] = Torn]
        <4>1. TargetSlot(shard) # <<s, msb.active[s]>>
          BY <3>3, ActiveSlots DEF FlushTypes
        <4> QED
          BY <3>1, <3>3, <4>1, ActiveSlots DEF FlushTypes
      <3> QED
        BY <1>11, <3>2, <3>3 DEF FlushError, device
    <2>2. ASSUME NEW i \in {0, 1} PROVE sb'[i] = Torn \/ sb'[i] = sb[i]
      BY <1>11 DEF FlushError, device, FlushTypes
    <2> QED
      BY <1>11, <2>1, <2>2 DEF FlushError, Commits, Written
  <1>12. CASE Kill
    BY <1>12 DEF Kill, Die, Commits
  <1>13. CASE PowerLoss
    BY <1>13 DEF PowerLoss, Die, Commits
  <1>14. CASE OpenIndex
    <2>1. CASE Loads(ChosenSuperblock)
      <3>1. ChosenSuperblock # Torn
        BY <2>1 DEF Loads
      <3>2. \A i \in {0, 1} : sb[i] # Torn => sb[i].txn <= ChosenSuperblock.txn
        BY <3>1, ChosenNewest
      <3>3. /\ mem' = ChosenSuperblock.crc /\ msb' = ChosenSuperblock
            /\ dirty' = {} /\ pc' = "idle" /\ sb' = sb /\ slot' = slot
        BY <1>14, <2>1 DEF OpenIndex, device
      <3> QED
        BY <2>1, <3>2, <3>3 DEF Commits, Loads, Written
    <2>2. CASE ~ Loads(ChosenSuperblock)
      BY <1>14, <2>2 DEF OpenIndex, Commits
    <2> QED
      BY <2>1, <2>2
  <1>15. CASE UNCHANGED flushVars
    BY <1>15 DEF flushVars, Commits, Written
  <1> QED
    BY <1>1, <1>2, <1>3, <1>4, <1>5, <1>6, <1>7, <1>8, <1>9, <1>10, <1>11,
       <1>12, <1>13, <1>14, <1>15 DEF FlushNext, FlushStep

----------------------------------------------------------------------------
(* CleanIsOnDevice.                                                        *)

\* If a write of a superblock may tear, one device call fails at most, and then
\* nothing else goes wrong.  Without tearing any number of failed calls, deaths
\* and power losses may happen.
ErrorPlan(p) == p.torn => p.errors = 0 \/ (p.errors = 1 /\ p.kills = 0 /\ p.losses = 0)

\* The superblock that open_impl would take agrees with the one in memory on
\* every shard that is not dirty; while a torn superblock is still to come, so
\* do both.
CleanShards ==
    /\ ErrorPlan(plan)
    /\ pc \in Before =>
        /\ ChosenSuperblock # Torn
        /\ \A s \in Shards \ dirty : Agrees(ChosenSuperblock, s)
        /\ plan.torn /\ plan.errors > 0 =>
              \A i \in {0, 1} : sb[i] # Torn /\ \A s \in Shards \ dirty : Agrees(sb[i], s)
    /\ plan.torn /\ plan.errors > 0 => pc # "down"

CleanInv == FlushTypes /\ Commits /\ CleanShards

\* format_with_options leaves both superblocks the same.
LEMMA CleanInit ==
    ASSUME \A p \in FaultPlans : ErrorPlan(p) PROVE FlushInit => CleanShards
  <1> SUFFICES ASSUME FlushInit PROVE CleanShards
    OBVIOUS
  <1>1. FirstSuperblock # Torn
    BY TypesInit, IndexFlushAssumption DEF FlushInit, FlushTypes
  <1>2. ChosenSuperblock = FirstSuperblock
    BY ChosenIsPick, Picked DEF FlushInit
  <1> QED
    BY <1>1, <1>2 DEF FlushInit, CleanShards, Agrees

\* Once the primary is written it is the one that open_impl would take.
LEMMA CommittedIsChosen ==
    ASSUME FlushTypes, Commits, pc \in After
    PROVE  ChosenSuperblock = msb /\ msb # Torn
  <1>1. msb # Torn /\ sb[0] = msb /\ (sb[1] # Torn => sb[1].txn <= msb.txn)
    BY IndexFlushAssumption DEF FlushTypes, Commits, After
  <1>2. msb.txn \in Int /\ (sb[1] # Torn => sb[1].txn \in Int)
    BY DEF FlushTypes, Superblock
  <1> QED
    BY <1>1, <1>2, ChosenIsPick, Picked

\* Every step keeps CleanShards; a failed call keeps it because the shards it
\* leaves half written stay dirty.
LEMMA CleanStep ==
    CleanInv /\ [FlushNext]_flushVars => CleanShards'
  <1> SUFFICES ASSUME FlushTypes, Commits, CleanShards, [FlushNext]_flushVars
               PROVE  CleanShards'
    BY DEF CleanInv
  <1> USE IndexFlushAssumption DEF Before, After
  <1>a. ASSUME sb' = sb PROVE ChosenSuperblock' = ChosenSuperblock
    BY <1>a, ChosenIsPick DEF Pick, ChosenSuperblock
  <1>1. ASSUME NEW s \in Shards, Change(s) PROVE CleanShards'
    BY <1>1, <1>a DEF Change, device, CleanShards, Agrees
  <1>2. CASE BeginFlush
    BY <1>2, <1>a DEF BeginFlush, device, CleanShards, Agrees
  <1>3. CASE SkipShard
    BY <1>3, <1>a DEF SkipShard, device, CleanShards, Agrees
  <1>4. CASE WriteShard
    <2>1. \A s \in Shards \ dirty : msb'.active[s] = msb.active[s] /\ msb'.crc[s] = msb.crc[s]
      BY <1>4, WriteShardFields DEF WriteShard
    <2> QED
      BY <1>4, <1>a, <2>1 DEF WriteShard, CleanShards, Agrees
  <1>5. CASE ShardsDone
    BY <1>5, <1>a DEF ShardsDone, device, CleanShards, Agrees
  <1>6. CASE SyncShards
    <2>1. msb'.active = msb.active /\ msb'.crc = msb.crc
      BY <1>6 DEF SyncShards, FlushTypes, Superblock
    <2> QED
      BY <1>6, <1>a, <2>1 DEF SyncShards, SyncAll, CleanShards, Agrees
  <1>7. CASE WritePrimary
    BY <1>7 DEF WritePrimary, CleanShards
  <1>8. CASE SyncPrimary
    BY <1>8 DEF SyncPrimary, CleanShards
  <1>9. CASE WriteBackup
    BY <1>9 DEF WriteBackup, CleanShards
  <1>10. CASE SyncBackup
    <2>1. ChosenSuperblock = msb /\ msb # Torn
      BY <1>10, CommittedIsChosen DEF SyncBackup
    <2>2. sb[0] = msb /\ sb[1] = msb
      BY <1>10 DEF SyncBackup, Commits
    <2>3. \A i \in {0, 1} : sb[i] = msb
      BY <2>2
    <2> QED
      BY <1>10, <1>a, <2>1, <2>3 DEF SyncBackup, SyncAll, CleanShards, Agrees
  <1>11. CASE FlushError
    <2>1. ErrorPlan(plan') /\ ~ (plan'.torn /\ plan'.errors > 0)
      BY <1>11 DEF FlushError, CleanShards, ErrorPlan, FlushTypes
    <2>2. CASE pc \in Before /\ sb' = sb
      BY <1>11, <1>a, <2>1, <2>2 DEF FlushError, CleanShards, Agrees
    <2>3. CASE pc \in After /\ sb'[0] = sb[0] /\ sb'[1] \in {sb[1], Torn}
      <3>1. msb # Torn /\ sb'[0] = msb /\ (sb'[1] # Torn => sb'[1].txn <= msb.txn)
        BY <2>3 DEF FlushTypes, Commits
      <3>2. msb.txn \in Int /\ (sb'[1] # Torn => sb'[1].txn \in Int)
        BY <2>3 DEF FlushTypes, Superblock
      <3>3. ChosenSuperblock' = Pick(sb'[0], sb'[1])
        BY Zenon DEF ChosenSuperblock, Pick
      <3>4. ChosenSuperblock' = msb
        BY <3>1, <3>2, <3>3, Picked
      <3> QED
        BY <1>11, <2>1, <3>1, <3>4 DEF FlushError, CleanShards, Agrees
    <2>4. CASE plan.torn /\ pc = "sb0" /\ sb' = [sb EXCEPT ![0] = Torn]
      <3>1. plan.errors > 0
        BY <1>11 DEF FlushError
      <3>2. sb[1] # Torn /\ \A s \in Shards \ dirty : Agrees(sb[1], s)
        BY <2>4, <3>1 DEF CleanShards
      <3>3. ChosenSuperblock' = Pick(sb'[0], sb'[1])
        BY Zenon DEF ChosenSuperblock, Pick
      <3>4. ChosenSuperblock' = sb[1]
        BY <2>4, <3>3, Picked DEF FlushTypes
      <3> QED
        BY <1>11, <2>1, <3>2, <3>4 DEF FlushError, CleanShards, Agrees
    <2> QED
      BY <1>11, <2>2, <2>3, <2>4 DEF FlushError, device, FlushTypes
  <1>12. CASE Kill
    BY <1>12 DEF Kill, Die, CleanShards, ErrorPlan, FlushTypes
  <1>13. CASE PowerLoss
    BY <1>13 DEF PowerLoss, Die, CleanShards, ErrorPlan, FlushTypes
  <1>14. CASE OpenIndex
    <2>1. CASE Loads(ChosenSuperblock)
      <3>1. ChosenSuperblock # Torn
        BY <2>1 DEF Loads
      <3>3. /\ msb' = ChosenSuperblock /\ sb' = sb /\ plan' = plan /\ pc' = "idle"
        BY <1>14, <2>1 DEF OpenIndex, device
      <3>4. ~ (plan.torn /\ plan.errors > 0)
        BY <1>14 DEF OpenIndex, CleanShards
      <3> QED
        BY <3>1, <3>3, <3>4, <1>a DEF CleanShards, Agrees
    <2>2. CASE ~ Loads(ChosenSuperblock)
      BY <1>14, <2>2 DEF OpenIndex, CleanShards
    <2> QED
      BY <2>1, <2>2
  <1>15. CASE UNCHANGED flushVars
    BY <1>15, <1>a DEF flushVars, CleanShards, Agrees
  <1> QED
    BY <1>1, <1>2, <1>3, <1>4, <1>5, <1>6, <1>7, <1>8, <1>9, <1>10, <1>11,
       <1>12, <1>13, <1>14, <1>15 DEF FlushNext, FlushStep

\* When no shard is dirty and no flush is running the device holds the index
\* that is in memory: flush_index clears the dirty flags at its very end
\* (store.rs:1367), so the retry of one that failed writes all that is missing.
THEOREM CleanDevice ==
    ASSUME \A p \in FaultPlans : ErrorPlan(p)
    PROVE  FlushSpec => []CleanIsOnDevice
  <1>1. FlushInit => CleanInv
    BY TypesInit, CommitsInit, CleanInit DEF CleanInv
  <1>2. CleanInv /\ [FlushNext]_flushVars => CleanInv'
    BY TypesStep, CommitsStep, CleanStep DEF CleanInv
  <1>3. CleanInv => CleanIsOnDevice
    <2> SUFFICES ASSUME CleanInv, pc = "idle", dirty = {}
                 PROVE  Loads(ChosenSuperblock) /\ ChosenSuperblock.crc = mem
      BY DEF CleanIsOnDevice
    <2>1. ChosenSuperblock \in Superblock /\ msb \in Superblock /\ mem \in Index
      BY ChosenTyped DEF CleanInv, CleanShards, Before, FlushTypes
    <2>2. \A s \in Shards : Agrees(ChosenSuperblock, s)
      BY DEF CleanInv, CleanShards, Before
    <2>3. \A s \in Shards : slot[<<s, msb.active[s]>>] = msb.crc[s] /\ mem[s] = msb.crc[s]
      BY DEF CleanInv, Commits, Written
    <2>4. Loads(ChosenSuperblock)
      BY <2>1, <2>2, <2>3, IndexFlushAssumption DEF Loads, Agrees
    <2>5. \A s \in Shards : ChosenSuperblock.crc[s] = mem[s]
      BY <2>2, <2>3 DEF Agrees
    <2>6. ChosenSuperblock.crc \in [Shards -> Versions] /\ mem \in [Shards -> Versions]
      BY <2>1 DEF Superblock, Index
    <2> QED
      BY <2>4, <2>5, <2>6
  <1> QED
    BY <1>1, <1>2, <1>3, PTL DEF FlushSpec

----------------------------------------------------------------------------
(* The refinement of DurableIndex.                                         *)

\* One kind of fault in a behaviour: failed calls, or process deaths, or power
\* losses, of which one may tear a superblock.  Each two kinds together can lose
\* the index: a retry after a failed call, and a flush after a death that the
\* system's cache survived, write to slots that the superblock on the medium
\* still names.
CrashPlan(p) ==
    /\ p.errors > 0 => p.kills = 0 /\ p.losses = 0
    /\ p.kills = 0 \/ p.losses = 0
    /\ p.torn => p.losses <= 1

\* open_impl accepts b, and its index is one that may be found.
Found(b) == Loads(b) /\ b.crc \in durable

\* A process death now leaves a superblock that is Found; the shards that are
\* still to be written have their entry in common with it, so the write goes to
\* a slot that it does not name.
KillSafe ==
    (plan.kills > 0 \/ plan.losses > 0) /\ pc # "down" =>
        /\ pc # "idle" => mem \in durable
        /\ pc \in Before => Found(ChosenSuperblock)
        /\ \A s \in Shards : pc = "idle" \/ (pc = "shards" /\ s >= shard) => Agrees(ChosenSuperblock, s)

\* b is found whatever the slots settle on.
Kept(b) ==
    /\ b # Torn
    /\ \A s \in Shards : slotMedia[<<s, b.active[s]>>] = {b.crc[s]}
    /\ b.crc \in durable

\* A power loss now leaves a superblock that is Kept: between the syncs one
\* superblock at most is unsettled, and the other can stand in for it.
LossSafe ==
    plan.losses > 0 =>
        /\ pc \in {"idle", "down", "sb0"} \cup After => \A x \in Slots : slotMedia[x] = {slot[x]}
        /\ pc \in Before => Kept(ChosenSuperblock)
        /\ \A i \in {0, 1} : pc \notin {"sync1", "sync2"} => sbMedia[i] = {sb[i]}
        /\ pc = "sync1" => sbMedia[1] = {sb[1]} /\ \A a \in sbMedia[0] : Kept(Pick(a, sb[1]))
        /\ pc = "sync2" => sbMedia[0] = {sb[0]} /\ \A b \in sbMedia[1] \ {Torn, msb} : b.txn < msb.txn
        /\ plan.torn => pc # "down" /\ (pc \in Before => sb[0] = sb[1])

\* After a crash open_impl succeeds.
DownSafe == pc = "down" => mem # Corrupt /\ Found(ChosenSuperblock)

CrashInv ==
    /\ FlushTypes
    /\ Commits
    /\ CrashPlan(plan)
    /\ KillSafe
    /\ LossSafe
    /\ DownSafe

\* format_with_options syncs what it writes.
LEMMA CrashInit ==
    ASSUME \A p \in FaultPlans : CrashPlan(p) PROVE FlushInit => CrashInv
  <1> SUFFICES ASSUME FlushInit PROVE CrashInv
    OBVIOUS
  <1>1. FlushTypes /\ Commits
    BY TypesInit, CommitsInit
  <1>2. msb # Torn /\ sb[0] = msb /\ sb[1] = msb /\ mem = msb.crc /\ durable = {mem}
    BY <1>1, IndexFlushAssumption DEF FlushInit, FlushTypes, FirstSuperblock
  <1>3. ChosenSuperblock = msb
    BY <1>2, ChosenIsPick, Picked
  <1>4. Found(msb)
    BY <1>1, <1>2 DEF Found, Loads, Commits, FlushInit
  <1>5. Kept(msb)
    <2>1. ASSUME NEW s \in Shards PROVE slotMedia[<<s, msb.active[s]>>] = {msb.crc[s]}
      BY <1>1, <1>4, ActiveSlots DEF Found, Loads, FlushInit
    <2> QED
      BY <1>2, <2>1 DEF Kept
  <1>6. \A i \in {0, 1} : sbMedia[i] = {sb[i]}
    BY DEF FlushInit
  <1>7. \A x \in Slots : slotMedia[x] = {slot[x]}
    BY DEF FlushInit
  <1>8. pc = "idle" /\ CrashPlan(plan)
    BY DEF FlushInit
  <1>9. KillSafe /\ DownSafe
    BY <1>3, <1>4, <1>8 DEF KillSafe, DownSafe, Agrees
  <1>10. LossSafe
    BY <1>2, <1>3, <1>5, <1>6, <1>7, <1>8 DEF LossSafe, After
  <1> QED
    BY <1>1, <1>8, <1>9, <1>10 DEF CrashInv

\* After the sync of the shards the in-memory superblock can be committed.
LEMMA MsbKept ==
    ASSUME CrashInv, plan.losses > 0, pc \in {"sb0"} \cup After
    PROVE  Kept(msb) /\ Loads(msb) /\ msb.crc = mem /\ mem \in durable
  <1>1. \A s \in Shards : slot[<<s, msb.active[s]>>] = msb.crc[s] /\ mem[s] = msb.crc[s]
    BY DEF CrashInv, Commits, Written, After
  <1>2. mem \in [Shards -> Versions] /\ msb.crc \in [Shards -> Versions] /\ msb # Torn
    BY IndexFlushAssumption DEF CrashInv, FlushTypes, Superblock, Index, After
  <1>3. msb.crc = mem
    <2>1. \A s \in Shards : msb.crc[s] = mem[s]
      BY <1>1
    <2> QED
      BY <2>1, <1>2
  <1>4. mem \in durable
    BY DEF CrashInv, KillSafe, After, FlushTypes
  <1>5. ASSUME NEW s \in Shards PROVE slotMedia[<<s, msb.active[s]>>] = {msb.crc[s]}
    BY <1>1, ActiveSlots DEF CrashInv, LossSafe
  <1> QED
    BY <1>1, <1>2, <1>3, <1>4, <1>5 DEF Kept, Loads

\* The same for a process death.
LEMMA MsbFound ==
    ASSUME CrashInv, plan.kills > 0 \/ plan.losses > 0, pc \in {"sync0", "sb0"} \cup After
    PROVE  Found(msb) /\ msb.crc = mem
  <1>1. \A s \in Shards : slot[<<s, msb.active[s]>>] = msb.crc[s] /\ mem[s] = msb.crc[s]
    BY DEF CrashInv, Commits, Written, After
  <1>2. mem \in [Shards -> Versions] /\ msb.crc \in [Shards -> Versions] /\ msb # Torn
    BY IndexFlushAssumption DEF CrashInv, FlushTypes, Superblock, Index, After
  <1>3. msb.crc = mem
    <2>1. \A s \in Shards : msb.crc[s] = mem[s]
      BY <1>1
    <2> QED
      BY <2>1, <1>2
  <1>4. mem \in durable
    BY DEF CrashInv, KillSafe, After, FlushTypes
  <1> QED
    BY <1>1, <1>2, <1>3, <1>4 DEF Found, Loads

\* A process may die at any step of flush_index.
LEMMA FoundAnywhere ==
    ASSUME CrashInv, plan.kills > 0 \/ plan.losses > 0, pc # "down"
    PROVE  Found(ChosenSuperblock)
  <1>1. CASE pc \in Before
    BY <1>1 DEF CrashInv, KillSafe
  <1>2. CASE pc \in After
    BY <1>2, CommittedIsChosen, MsbFound DEF CrashInv
  <1> QED
    BY <1>1, <1>2 DEF CrashInv, FlushTypes, Before, After

\* Power may be lost at any step of flush_index.
LEMMA KeptAnywhere ==
    ASSUME CrashInv, plan.losses > 0, pc # "down",
           NEW a \in sbMedia[0], NEW b \in sbMedia[1]
    PROVE  Kept(Pick(a, b))
  <1>1. CASE pc \in Before
    BY <1>1, ChosenIsPick DEF CrashInv, LossSafe, Before
  <1>2. CASE pc = "sync1"
    BY <1>2 DEF CrashInv, LossSafe
  <1>3. CASE pc = "sb1"
    BY <1>3, ChosenIsPick, CommittedIsChosen, MsbKept DEF CrashInv, LossSafe, After
  <1>4. CASE pc = "sync2"
    <2>1. a = msb /\ msb # Torn /\ msb.txn \in Int
      BY <1>4, IndexFlushAssumption DEF CrashInv, LossSafe, Commits, After, FlushTypes, Superblock
    <2>2. b \in {Torn, msb} \/ (b.txn \in Int /\ b.txn < msb.txn)
      BY <1>4 DEF CrashInv, LossSafe, FlushTypes, Superblock
    <2>3. Pick(a, b) = msb
      BY <2>1, <2>2, Picked
    <2> QED
      BY <1>4, <2>3, MsbKept DEF After
  <1> QED
    BY <1>1, <1>2, <1>3, <1>4 DEF CrashInv, FlushTypes, Before

\* Every step keeps the invariant.
LEMMA CrashStep == CrashInv /\ [FlushNext]_flushVars => CrashInv'
  <1> SUFFICES ASSUME CrashInv, [FlushNext]_flushVars PROVE CrashInv'
    OBVIOUS
  <1> USE IndexFlushAssumption DEF Before, After
  <1>t. FlushTypes /\ FlushTypes' /\ Commits /\ Commits'
    BY TypesStep, CommitsStep DEF CrashInv
  <1> USE <1>t
  <1>a. ASSUME sb' = sb PROVE ChosenSuperblock' = ChosenSuperblock
    BY <1>a, ChosenIsPick DEF Pick, ChosenSuperblock
  <1>b. ChosenSuperblock' = Pick(sb'[0], sb'[1])
    BY Zenon DEF ChosenSuperblock, Pick
  <1>1. ASSUME NEW s \in Shards, Change(s) PROVE CrashInv'
    BY <1>1, <1>a DEF Change, device, CrashInv, KillSafe, LossSafe, DownSafe,
                      Found, Kept, Loads, Agrees
  <1>2. CASE BeginFlush
    BY <1>2, <1>a DEF BeginFlush, device, CrashInv, KillSafe, LossSafe, DownSafe,
                      Found, Kept, Loads, Agrees
  <1>3. CASE SkipShard
    BY <1>3, <1>a DEF SkipShard, device, CrashInv, KillSafe, LossSafe, DownSafe,
                      Found, Kept, Loads, Agrees, FlushTypes, Shards
  <1>4. CASE WriteShard
    <2> DEFINE c == ChosenSuperblock
    <2>1. ASSUME plan.kills > 0 \/ plan.losses > 0
          PROVE  /\ \A s \in Shards : TargetSlot(shard) # <<s, c.active[s]>>
                 /\ \A s \in Shards : <<s, c.active[s]>> \in Slots
      <3>1. c \in Superblock /\ Agrees(c, shard)
        BY <1>4, <2>1, ChosenTyped, WriteShardFields
           DEF WriteShard, CrashInv, KillSafe, Found, Loads, FlushTypes
      <3> QED
        BY <1>4, <3>1, WriteShardFields, ActiveSlots DEF TargetSlot, Agrees, Superblock, Slots
    <2>2. ASSUME plan.kills > 0 \/ plan.losses > 0
          PROVE  /\ \A s \in Shards : slot'[<<s, c.active[s]>>] = slot[<<s, c.active[s]>>]
                 /\ \A s \in Shards : slotMedia'[<<s, c.active[s]>>] = slotMedia[<<s, c.active[s]>>]
      BY <1>4, <2>1, <2>2 DEF WriteShard, FlushTypes
    <2>3. ASSUME NEW s \in Shards, s >= shard + 1
          PROVE  msb'.active[s] = msb.active[s] /\ msb'.crc[s] = msb.crc[s]
      BY <1>4, <2>3, WriteShardFields DEF Shards, FlushTypes
    <2>4. c' = c
      BY <1>4, <1>a DEF WriteShard
    <2>5. KillSafe'
      <3> SUFFICES ASSUME plan.kills > 0 \/ plan.losses > 0
                   PROVE  KillSafe'
        BY <1>4 DEF WriteShard, KillSafe
      <3>1. Found(c) /\ mem \in durable /\ \A s \in Shards : s >= shard => Agrees(c, s)
        BY <1>4 DEF WriteShard, CrashInv, KillSafe
      <3>2. Found(c)'
        BY <1>4, <2>2, <2>4, <3>1 DEF WriteShard, Found, Loads
      <3>3. ASSUME NEW s \in Shards, s >= shard + 1 PROVE Agrees(c, s)'
        <4>1. Agrees(c, s)
          BY <3>1, <3>3 DEF Shards, FlushTypes
        <4> QED
          BY <2>3, <2>4, <3>3, <4>1 DEF Agrees
      <3> QED
        BY <1>4, <3>1, <3>2, <3>3 DEF WriteShard, KillSafe
    <2>6. LossSafe'
      <3> SUFFICES ASSUME plan.losses > 0 PROVE LossSafe'
        BY <1>4 DEF WriteShard, LossSafe
      <3>1. Kept(c)'
        BY <1>4, <2>2, <2>4 DEF WriteShard, CrashInv, LossSafe, Kept
      <3> QED
        BY <1>4, <3>1 DEF WriteShard, CrashInv, LossSafe
    <2> QED
      BY <1>4, <2>5, <2>6 DEF WriteShard, CrashInv, DownSafe
  <1>5. CASE ShardsDone
    BY <1>5, <1>a DEF ShardsDone, device, CrashInv, KillSafe, LossSafe, DownSafe,
                      Found, Kept, Loads, Agrees
  <1>6. CASE SyncShards
    <2>1. CrashPlan(plan)' /\ DownSafe'
      BY <1>6 DEF SyncShards, CrashInv, DownSafe
    <2>2. KillSafe'
      BY <1>6, <1>a DEF SyncShards, SyncAll, CrashInv, KillSafe, Found, Loads
    <2>3. LossSafe'
      <3> SUFFICES ASSUME plan.losses > 0 PROVE LossSafe'
        BY <1>6 DEF SyncShards, LossSafe
      <3>1. Found(ChosenSuperblock) /\ ChosenSuperblock \in Superblock
        BY <1>6, ChosenTyped DEF SyncShards, CrashInv, KillSafe, Found, Loads
      <3>2. \A s \in Shards : <<s, ChosenSuperblock.active[s]>> \in Slots
        BY <3>1 DEF Superblock, Slots
      <3>3. \A x \in Slots : slotMedia'[x] = {slot'[x]}
        BY <1>6 DEF SyncShards, SyncAll
      <3>4. Kept(ChosenSuperblock)'
        BY <1>6, <1>a, <3>1, <3>2, <3>3 DEF SyncShards, SyncAll, Found, Loads, Kept
      <3> QED
        BY <1>6, <3>3, <3>4 DEF SyncShards, SyncAll, CrashInv, LossSafe
    <2> QED
      BY <2>1, <2>2, <2>3 DEF CrashInv
  <1>7. CASE WritePrimary
    <2>1. CrashPlan(plan)' /\ DownSafe' /\ KillSafe'
      BY <1>7 DEF WritePrimary, CrashInv, DownSafe, KillSafe
    <2>2. LossSafe'
      <3> SUFFICES ASSUME plan.losses > 0 PROVE LossSafe'
        BY <1>7 DEF WritePrimary, LossSafe
      <3>1. Kept(msb) /\ Kept(ChosenSuperblock)
        BY <1>7, MsbKept DEF WritePrimary, CrashInv, LossSafe
      <3>2. sbMedia[0] = {sb[0]} /\ sbMedia[1] = {sb[1]} /\ (plan.torn => sb[0] = sb[1])
        BY <1>7 DEF WritePrimary, CrashInv, LossSafe
      <3>3. sb'[1] = sb[1] /\ sbMedia'[1] = {sb[1]}
        BY <1>7, <3>2 DEF WritePrimary, WriteSuperblock, FlushTypes
      <3>4. ASSUME NEW a \in sbMedia'[0] PROVE Kept(Pick(a, sb[1]))
        <4>1. a = sb[0] \/ a = msb \/ (plan.torn /\ a = Torn)
          BY <1>7, <3>2 DEF WritePrimary, WriteSuperblock, FlushTypes
        <4>2. CASE a = sb[0]
          BY <4>2, <3>1, ChosenIsPick
        <4>3. CASE a = msb
          <5>1. sb[1] # Torn => sb[1].txn < msb.txn /\ sb[1].txn \in Int /\ msb.txn \in Int
            BY <1>7 DEF WritePrimary, Commits, FlushTypes, Superblock
          <5>2. Pick(a, sb[1]) = msb
            BY <4>3, <5>1, Picked, <3>1 DEF Kept
          <5> QED
            BY <5>2, <3>1
        <4>4. CASE plan.torn /\ a = Torn
          <5>1. Pick(a, sb[1]) = sb[1] /\ ChosenSuperblock = sb[1]
            BY <4>4, <3>2, Picked, ChosenIsPick
          <5> QED
            BY <5>1, <3>1
        <4> QED
          BY <4>1, <4>2, <4>3, <4>4
      <3>5. \A a \in sbMedia'[0] : Kept(Pick(a, sb[1]))'
        BY <1>7, <3>3, <3>4 DEF WritePrimary, WriteSuperblock, Kept, Pick
      <3> QED
        BY <1>7, <3>3, <3>5 DEF WritePrimary, WriteSuperblock, CrashInv, LossSafe
    <2> QED
      BY <2>1, <2>2 DEF CrashInv
  <1>8. CASE SyncPrimary
    BY <1>8 DEF SyncPrimary, SyncAll, CrashInv, KillSafe, LossSafe, DownSafe
  <1>9. CASE WriteBackup
    <2>1. CrashPlan(plan)' /\ DownSafe' /\ KillSafe'
      BY <1>9 DEF WriteBackup, CrashInv, DownSafe, KillSafe
    <2>2. LossSafe'
      <3> SUFFICES ASSUME plan.losses > 0 PROVE LossSafe'
        BY <1>9 DEF WriteBackup, LossSafe
      <3>1. sbMedia[0] = {sb[0]} /\ sbMedia[1] = {sb[1]} /\ (sb[1] # Torn => sb[1].txn < msb.txn)
        BY <1>9 DEF WriteBackup, CrashInv, LossSafe, Commits
      <3>2. sbMedia'[0] = {sb'[0]}
        BY <1>9, <3>1 DEF WriteBackup, WriteSuperblock, FlushTypes
      <3>3. \A b \in sbMedia'[1] \ {Torn, msb} : b.txn < msb.txn
        BY <1>9, <3>1 DEF WriteBackup, WriteSuperblock, FlushTypes
      <3> QED
        BY <1>9, <3>2, <3>3 DEF WriteBackup, WriteSuperblock, CrashInv, LossSafe
    <2> QED
      BY <2>1, <2>2 DEF CrashInv
  <1>10. CASE SyncBackup
    <2>1. CrashPlan(plan)' /\ DownSafe'
      BY <1>10 DEF SyncBackup, CrashInv, DownSafe
    <2>2. ChosenSuperblock' = msb /\ msb' = msb /\ sb[0] = msb /\ sb[1] = msb
      BY <1>10, <1>a, CommittedIsChosen DEF SyncBackup, SyncAll, Commits
    <2>3. KillSafe'
      <3> SUFFICES ASSUME plan.kills > 0 \/ plan.losses > 0 PROVE KillSafe'
        BY <1>10 DEF SyncBackup, KillSafe
      <3>1. Found(msb) /\ msb.crc = mem
        BY <1>10, MsbFound DEF SyncBackup
      <3> QED
        BY <1>10, <2>2, <3>1 DEF SyncBackup, SyncAll, KillSafe, Found, Loads, Agrees
    <2>4. LossSafe'
      <3> SUFFICES ASSUME plan.losses > 0 PROVE LossSafe'
        BY <1>10 DEF SyncBackup, LossSafe
      <3>1. Kept(msb) /\ msb.crc = mem
        BY <1>10, MsbKept DEF SyncBackup
      <3>2. \A x \in Slots : slotMedia'[x] = {slot'[x]} /\ slotMedia[x] = {slot[x]}
        BY <1>10 DEF SyncBackup, SyncAll, CrashInv, LossSafe
      <3>3. \A s \in Shards : slotMedia'[<<s, msb.active[s]>>] = {msb.crc[s]}
        BY <1>10, <3>1, <3>2, ActiveSlots DEF SyncBackup, SyncAll, Kept
      <3>4. Kept(ChosenSuperblock)'
        BY <1>10, <2>2, <3>1, <3>3 DEF SyncBackup, Kept
      <3> QED
        BY <1>10, <2>2, <3>2, <3>4 DEF SyncBackup, SyncAll, LossSafe
    <2> QED
      BY <2>1, <2>3, <2>4 DEF CrashInv
  <1>11. CASE FlushError
    <2>1. plan.kills = 0 /\ plan.losses = 0 /\ plan'.kills = 0 /\ plan'.losses = 0
      BY <1>11 DEF FlushError, CrashInv, CrashPlan, FlushTypes
    <2> QED
      BY <1>11, <2>1 DEF FlushError, CrashInv, CrashPlan, KillSafe, LossSafe, DownSafe, FlushTypes
  <1>12. CASE Kill
    <2>1. plan.kills > 0 /\ plan.losses = 0 /\ plan'.losses = 0 /\ plan'.errors = 0 /\ plan'.torn = plan.torn
      BY <1>12 DEF Kill, CrashInv, CrashPlan, FlushTypes
    <2>2. Found(ChosenSuperblock)'
      BY <1>12, <1>a, <2>1, FoundAnywhere DEF Kill, Die, device, Found, Loads
    <2> QED
      BY <1>12, <2>1, <2>2 DEF Kill, Die, CrashInv, CrashPlan, KillSafe, LossSafe, DownSafe, FlushTypes
  <1>13. CASE PowerLoss
    <2>1. PICK x \in [Slots -> Versions \cup {Torn}], a \in sbMedia[0], b \in sbMedia[1] :
            /\ \A y \in Slots : x[y] \in slotMedia[y]
            /\ slot' = x
            /\ slotMedia' = [y \in Slots |-> {x[y]}]
            /\ sb' = [i \in {0, 1} |-> IF i = 0 THEN a ELSE b]
            /\ sbMedia' = [i \in {0, 1} |-> IF i = 0 THEN {a} ELSE {b}]
      BY <1>13 DEF PowerLoss
    <2>2. plan.losses > 0 /\ pc # "down" /\ pc' = "down" /\ mem' = mem /\ durable' = durable
      BY <1>13 DEF PowerLoss, Die
    <2>3. Kept(Pick(a, b)) /\ Pick(a, b) \in Superblock
      BY <2>2, KeptAnywhere, Picked DEF Kept, FlushTypes
    <2>4. ChosenSuperblock' = Pick(a, b)
      BY <1>b, <2>1
    <2>5. ASSUME NEW s \in Shards
          PROVE  slot'[<<s, Pick(a, b).active[s]>>] = Pick(a, b).crc[s]
      <3>1. <<s, Pick(a, b).active[s]>> \in Slots
        BY <2>3 DEF Superblock, Slots
      <3> QED
        BY <2>1, <2>3, <3>1 DEF Kept
    <2>6. Found(ChosenSuperblock)'
      BY <2>2, <2>3, <2>4, <2>5 DEF Found, Loads, Kept
    <2>7. /\ plan'.losses = plan.losses - 1 /\ plan'.kills = plan.kills
          /\ plan'.errors = plan.errors /\ plan'.torn = plan.torn
      BY <1>13 DEF PowerLoss, FlushTypes
    <2>8. CrashPlan(plan') /\ (plan'.losses > 0 => ~ plan'.torn)
      BY <2>2, <2>7 DEF CrashInv, CrashPlan, FlushTypes
    <2>9. LossSafe'
      BY <2>1, <2>2, <2>8 DEF LossSafe
    <2> QED
      BY <2>2, <2>6, <2>8, <2>9 DEF CrashInv, KillSafe, DownSafe, FlushTypes
  <1>14. CASE OpenIndex
    <2>1. Loads(ChosenSuperblock) /\ ChosenSuperblock.crc \in durable
      BY <1>14 DEF OpenIndex, CrashInv, DownSafe, Found
    <2>2. /\ msb' = ChosenSuperblock /\ mem' = ChosenSuperblock.crc
          /\ pc' = "idle" /\ UNCHANGED <<slot, slotMedia, sb, sbMedia, plan, durable>>
          /\ pc = "down"
      BY <1>14, <2>1 DEF OpenIndex, device
    <2>3. KillSafe'
      BY <1>a, <2>1, <2>2 DEF KillSafe, Found, Loads, Agrees
    <2>4. LossSafe'
      <3> SUFFICES ASSUME plan.losses > 0 PROVE LossSafe'
        BY <2>2 DEF LossSafe
      <3>1. \A s \in Shards : <<s, ChosenSuperblock.active[s]>> \in Slots
        BY <2>1, ChosenTyped DEF Loads, Superblock, Slots
      <3>2. Kept(ChosenSuperblock)
        BY <2>1, <2>2, <3>1 DEF Kept, Loads, CrashInv, LossSafe
      <3>3. Kept(ChosenSuperblock)'
        BY <1>a, <2>2, <3>2 DEF Kept
      <3> QED
        BY <2>2, <3>3 DEF CrashInv, LossSafe
    <2> QED
      BY <2>2, <2>3, <2>4 DEF CrashInv, DownSafe
  <1>15. CASE UNCHANGED flushVars
    BY <1>15, <1>a DEF flushVars, CrashInv, KillSafe, LossSafe, DownSafe,
                      Found, Kept, Loads, Agrees, Pick
  <1> QED
    BY <1>1, <1>2, <1>3, <1>4, <1>5, <1>6, <1>7, <1>8, <1>9, <1>10, <1>11,
       <1>12, <1>13, <1>14, <1>15 DEF FlushNext, FlushStep

\* flush_index and open_impl implement the all-or-nothing index: whatever the
\* step at which the process dies or power is lost, open finds the last flushed
\* index or the one being flushed, whole, and never fails.
THEOREM CrashSafe ==
    ASSUME \A p \in FaultPlans : CrashPlan(p)
    PROVE  FlushSpec => ImplementsDurableIndex
  <1>1. FlushInit => CrashInv
    BY CrashInit
  <1>2. CrashInv /\ [FlushNext]_flushVars => CrashInv'
    BY CrashStep
  <1>3. FlushInit => Promise!Init
    BY TypesInit DEF FlushInit, FlushTypes, Promise!Init, Promise!Index, Index
  <1>4. CrashInv /\ [FlushNext]_flushVars => [Promise!Next]_<<mem, durable>>
    <2> SUFFICES ASSUME CrashInv, [FlushNext]_flushVars,
                        ~ UNCHANGED <<mem, durable>>
                 PROVE  Promise!Next
      OBVIOUS
    <2>1. CASE \E s \in Shards : Change(s)
      <3> PICK s \in Shards : Change(s)
        BY <2>1
      <3>1. mem[s] + 1 \in Versions
        BY IndexFlushAssumption DEF Change, CrashInv, FlushTypes, Index, Versions
      <3>2. Promise!Change(s)
        BY <3>1 DEF Change, Promise!Change
      <3> QED
        BY <3>2 DEF Promise!Next
    <2>2. CASE BeginFlush
      BY <2>2 DEF BeginFlush, Promise!Next, Promise!Begin
    <2>3. CASE SyncBackup
      BY <2>3 DEF SyncBackup, Promise!Next, Promise!Ack
    <2>4. CASE OpenIndex
      <3>1. Loads(ChosenSuperblock) /\ ChosenSuperblock.crc \in durable
        BY <2>4 DEF OpenIndex, CrashInv, DownSafe, Found
      <3> QED
        BY <2>4, <3>1 DEF OpenIndex, Promise!Next, Promise!Reopen
    <2> QED
      BY <2>1, <2>2, <2>3, <2>4
         DEF FlushNext, FlushStep, SkipShard, WriteShard, ShardsDone, SyncShards,
             WritePrimary, SyncPrimary, WriteBackup, FlushError, Kill, PowerLoss,
             Die, flushVars
  <1> QED
    BY <1>1, <1>2, <1>3, <1>4, PTL DEF FlushSpec, ImplementsDurableIndex, Promise!Spec

----------------------------------------------------------------------------
(* ReaderCurrent.                                                          *)

\* A failed call does not tear a superblock.
NoTornError(p) == p.torn => p.errors = 0

\* The reader's types.
ReaderTypes ==
    /\ made \in Index /\ rmem \in Index
    /\ rsb \in Superblock /\ rnew \in Superblock
    /\ rpc \in {"idle", "superblock", "shards"}
    /\ rshard \in 0..NumShards
    /\ notices \in Nat
    /\ subscribed \in BOOLEAN
    /\ reload \in [ok : BOOLEAN, failed : BOOLEAN]

\* The superblocks that a reload compares.
Seen == {sb[0], sb[1], rsb, rnew}

\* While the subscription is up the writer has not died, and both superblocks
\* agree with the one in memory on the shards that are not dirty.
WriterKept ==
    /\ NoTornError(plan)
    /\ pc # "down"
    /\ \A i \in {0, 1} : sb[i] # Torn
    /\ \A i \in {0, 1} : \A s \in Shards \ dirty : Agrees(sb[i], s)

\* A transaction id names one superblock: reload_index may compare the ids.
SeenOnce ==
    /\ \A b \in Seen : b.txn <= msb.txn
    /\ pc = "sb0" => \A b \in Seen : b.txn < msb.txn
    /\ \A b, c \in Seen : b.txn = c.txn => b = c

\* With no FLUSH on its way, what the reader has or is about to take is current
\* on every shard that is not dirty; a reload that failed met a dirty one.
Followed ==
    notices = 0 =>
        /\ rpc = "idle" /\ ~ reload.ok => dirty # {}
        /\ rpc = "idle" /\ ~ reload.failed => \A s \in Shards \ dirty : Agrees(rsb, s)
        /\ rpc = "shards" => \A s \in Shards \ dirty : Agrees(rnew, s)

\* Unless a reload has failed the reader's shards are those of its superblock,
\* the ones already reloaded those of the new one.
Contents ==
    ~ reload.failed =>
        \A s \in Shards :
            rmem[s] = IF rpc = "shards" /\ s < rshard THEN rnew.crc[s] ELSE rsb.crc[s]

ReaderInv ==
    /\ FlushTypes /\ Commits /\ ReaderTypes /\ Contents
    /\ NoTornError(plan)
    /\ subscribed => WriterKept /\ SeenOnce /\ Followed

\* The reader has opened a formatted device.
LEMMA ReaderStart ==
    ASSUME \A p \in FaultPlans : NoTornError(p) PROVE ReaderInit => ReaderInv
  <1> SUFFICES ASSUME ReaderInit PROVE ReaderInv
    OBVIOUS
  <1> USE IndexFlushAssumption
  <1>1. FlushTypes /\ Commits
    BY TypesInit, CommitsInit DEF ReaderInit
  <1>2. msb \in Superblock /\ sb[0] = msb /\ sb[1] = msb /\ pc = "idle" /\ NoTornError(plan)
    BY <1>1 DEF ReaderInit, FlushInit, FlushTypes
  <1>3. msb.crc \in Index /\ msb.txn \in Int
    BY <1>2 DEF Superblock, Index
  <1>4. ReaderTypes /\ Contents
    BY <1>2, <1>3 DEF ReaderInit, ReaderTypes, Contents, Index, Versions, Empty
  <1>5. WriterKept
    BY <1>2 DEF WriterKept, Agrees
  <1>6. SeenOnce /\ Followed
    BY <1>2, <1>3 DEF ReaderInit, SeenOnce, Seen, Followed, Agrees
  <1> QED
    BY <1>1, <1>2, <1>4, <1>5, <1>6 DEF ReaderInv

\* FlushTypes and Commits hold beside a reader too.
LEMMA WriterStep ==
    ASSUME ReaderInv, [ReaderNext]_<<flushVars, readerVars>>
    PROVE  FlushTypes' /\ Commits'
  <1> USE IndexFlushAssumption
  <1>1. ASSUME NEW s \in Shards, Rewrite(s) PROVE FlushTypes' /\ Commits'
    <2>1. mem \in Index /\ mem' \in Index /\ mem' # Corrupt /\ \A t \in Shards \ {s} : mem'[t] = mem[t]
      BY <1>1 DEF Rewrite, ReaderInv, FlushTypes, ReaderTypes, Index, Versions, Empty
    <2>2. FlushTypes'
      BY <1>1, <2>1 DEF Rewrite, ReaderInv, FlushTypes, device
    <2>3. Commits'
      BY <1>1, <2>1 DEF Rewrite, ReaderInv, Commits, Written, device, After
    <2> QED
      BY <2>2, <2>3
  <1>2. ASSUME [FlushNext]_flushVars PROVE FlushTypes' /\ Commits'
    BY <1>2, TypesStep, CommitsStep DEF ReaderInv
  <1>3. (\E s \in Shards : Rewrite(s)) \/ [FlushNext]_flushVars
    BY DEF ReaderNext, FlushNext, WriterFlush, WriterFails, WriterDies, WriterOpens,
           TakeNotice, ReadSuperblock, KeepShard, ReadShard, ReloadDone
  <1> QED
    BY <1>1, <1>2, <1>3

\* No step of the writer disturbs the reader: a flush that succeeds clears the
\* dirty flags and sends a FLUSH, one that fails keeps them.
LEMMA WriterSteps ==
    ASSUME ReaderInv, subscribed, UNCHANGED <<rsb, rnew, rpc, reload>>,
           \/ FlushStep /\ notices' = IF pc = "sync2" THEN notices + 1 ELSE notices
           \/ FlushError /\ notices' = notices
    PROVE  WriterKept' /\ SeenOnce' /\ Followed'
  <1> USE IndexFlushAssumption DEF Before, After
  <1>1. FlushTypes /\ Commits /\ ReaderTypes /\ WriterKept /\ SeenOnce /\ Followed
    BY DEF ReaderInv
  <1> USE <1>1
  <1>2. ASSUME UNCHANGED <<sb, msb, dirty, notices>>, pc' # "sb0", pc' # "down", NoTornError(plan')
        PROVE  WriterKept' /\ SeenOnce' /\ Followed'
    BY <1>2 DEF WriterKept, SeenOnce, Seen, Followed, Agrees
  <1>3. CASE BeginFlush
    BY <1>2, <1>3 DEF BeginFlush, device, WriterKept
  <1>4. CASE SkipShard
    BY <1>2, <1>4 DEF SkipShard, device, WriterKept
  <1>5. CASE WriteShard
    <2>1. \A s \in Shards \ dirty : msb'.active[s] = msb.active[s] /\ msb'.crc[s] = msb.crc[s]
      BY <1>5, WriteShardFields DEF WriteShard
    <2>2. msb'.txn = msb.txn
      BY <1>5, WriteShardFields
    <2>3. UNCHANGED <<sb, dirty, notices, plan, pc>> /\ pc = "shards"
      BY <1>5 DEF WriteShard
    <2> QED
      BY <2>1, <2>2, <2>3 DEF WriterKept, SeenOnce, Seen, Followed, Agrees
  <1>6. CASE ShardsDone
    BY <1>2, <1>6 DEF ShardsDone, device, WriterKept
  <1>7. CASE SyncShards
    <2>1. msb'.active = msb.active /\ msb'.crc = msb.crc /\ msb'.txn = msb.txn + 1 /\ msb.txn \in Int
      BY <1>7 DEF SyncShards, FlushTypes, Superblock
    <2>2. UNCHANGED <<sb, dirty, notices, plan>> /\ pc' = "sb0"
      BY <1>7 DEF SyncShards, SyncAll
    <2>3. \A b \in Seen : b.txn \in Int
      BY DEF Seen, WriterKept, FlushTypes, ReaderTypes, Superblock
    <2>4. WriterKept' /\ Followed'
      BY <2>1, <2>2 DEF WriterKept, Followed, Agrees
    <2>5. \A b \in Seen : b.txn < msb'.txn /\ b.txn <= msb'.txn
      BY <2>1, <2>3 DEF SeenOnce
    <2>6. Seen' = Seen
      BY <2>2 DEF Seen
    <2> QED
      BY <2>4, <2>5, <2>6 DEF SeenOnce
  <1>8. CASE WritePrimary
    <2>1. sb'[0] = msb /\ sb'[1] = sb[1] /\ UNCHANGED <<msb, dirty, notices, plan>> /\ pc = "sb0" /\ pc' = "sync1"
      BY <1>8 DEF WritePrimary, WriteSuperblock, FlushTypes
    <2>2. \A b \in Seen : b.txn < msb.txn /\ b.txn \in Int
      BY <2>1 DEF SeenOnce, Seen, WriterKept, FlushTypes, ReaderTypes, Superblock
    <2>3. msb # Torn /\ msb.txn \in Int
      BY DEF FlushTypes, Superblock
    <2>4. Seen' \subseteq Seen \cup {msb}
      BY <2>1 DEF Seen
    <2>5. SeenOnce'
      BY <2>1, <2>2, <2>3, <2>4 DEF SeenOnce
    <2> QED
      BY <2>1, <2>3, <2>5 DEF WriterKept, Followed, Agrees
  <1>9. CASE SyncPrimary
    BY <1>2, <1>9 DEF SyncPrimary, SyncAll, WriterKept
  <1>10. CASE WriteBackup
    <2>1. sb'[1] = sb[0] /\ sb'[0] = sb[0] /\ UNCHANGED <<msb, dirty, notices, plan>> /\ pc' = "sync2"
      BY <1>10 DEF WriteBackup, WriteSuperblock, FlushTypes, Commits
    <2>2. Seen' \subseteq Seen
      BY <2>1 DEF Seen
    <2>3. SeenOnce'
      BY <2>1, <2>2 DEF SeenOnce
    <2> QED
      BY <2>1, <2>3 DEF WriterKept, Followed, Agrees
  <1>11. CASE SyncBackup /\ notices' = notices + 1
    <2>1. sb[0] = msb /\ sb[1] = msb /\ UNCHANGED <<sb, msb, plan>> /\ pc' = "idle"
      BY <1>11 DEF SyncBackup, SyncAll, Commits
    <2>2. notices' # 0
      BY <1>11 DEF ReaderTypes
    <2> QED
      BY <2>1, <2>2 DEF WriterKept, SeenOnce, Seen, Followed, Agrees
  <1>12. CASE FlushError /\ notices' = notices
    <2>1. ~ plan.torn /\ ~ plan'.torn
      BY <1>12 DEF FlushError, WriterKept, NoTornError, FlushTypes
    <2>2. UNCHANGED <<sb, msb, dirty>> /\ pc' = "idle"
      BY <1>12, <2>1 DEF FlushError, device
    <2> QED
      BY <1>12, <2>1, <2>2 DEF WriterKept, SeenOnce, Seen, Followed, Agrees, NoTornError
  <1> QED
    BY <1>3, <1>4, <1>5, <1>6, <1>7, <1>8, <1>9, <1>10, <1>11, <1>12
       DEF FlushStep, SyncBackup

\* Every step of the writer and of reload_index keeps the invariant.
LEMMA ReaderStep ==
    ReaderInv /\ [ReaderNext]_<<flushVars, readerVars>> => ReaderInv'
  <1> SUFFICES ASSUME ReaderInv, [ReaderNext]_<<flushVars, readerVars>> PROVE ReaderInv'
    OBVIOUS
  <1> USE IndexFlushAssumption
  <1>t. FlushTypes /\ Commits /\ FlushTypes' /\ Commits' /\ ReaderTypes
    BY WriterStep DEF ReaderInv
  <1>f. Fails \in [ok : BOOLEAN, failed : BOOLEAN]
    BY DEF Fails
  <1>w. ASSUME UNCHANGED readerVars, NoTornError(plan'),
               subscribed => WriterKept' /\ SeenOnce' /\ Followed'
        PROVE  ReaderInv'
    BY <1>t, <1>w DEF ReaderInv, readerVars, ReaderTypes, Contents
  <1>1. ASSUME NEW s \in Shards, Rewrite(s) PROVE ReaderInv'
    <2>1. ReaderTypes'
      BY <1>1, <1>t DEF Rewrite, ReaderTypes, Index, Versions
    <2>2. Contents' /\ NoTornError(plan')
      BY <1>1 DEF Rewrite, ReaderInv, Contents
    <2>3. ASSUME subscribed PROVE WriterKept' /\ SeenOnce' /\ Followed'
      BY <1>1, <2>3 DEF Rewrite, device, ReaderInv, WriterKept, SeenOnce, Seen, Followed, Agrees
    <2> QED
      BY <1>1, <1>t, <2>1, <2>2, <2>3 DEF Rewrite, ReaderInv
  <1>2. CASE WriterFlush
    <2>1. ReaderTypes' /\ Contents'
      BY <1>2, <1>t DEF WriterFlush, ReaderInv, ReaderTypes, Contents
    <2>2. plan' = plan
      BY <1>2 DEF WriterFlush, FlushStep, BeginFlush, SkipShard, WriteShard, ShardsDone,
                  SyncShards, WritePrimary, SyncPrimary, WriteBackup, SyncBackup
    <2>3. ASSUME subscribed PROVE WriterKept' /\ SeenOnce' /\ Followed'
      BY <1>2, <2>3, WriterSteps DEF WriterFlush
    <2> QED
      BY <1>2, <1>t, <2>1, <2>2, <2>3 DEF WriterFlush, ReaderInv
  <1>3. CASE WriterFails
    <2>1. NoTornError(plan')
      BY <1>3, <1>t DEF WriterFails, FlushError, NoTornError, ReaderInv, FlushTypes
    <2>2. ASSUME subscribed PROVE WriterKept' /\ SeenOnce' /\ Followed'
      BY <1>3, <2>2, WriterSteps DEF WriterFails, readerVars
    <2> QED
      BY <1>3, <1>w, <2>1, <2>2 DEF WriterFails
  <1>4. CASE WriterDies
    <2>1. NoTornError(plan') /\ subscribed' = FALSE
      BY <1>4, <1>t DEF WriterDies, Kill, NoTornError, ReaderInv, FlushTypes
    <2>2. ReaderTypes' /\ Contents'
      BY <1>4, <1>t DEF WriterDies, ReaderInv, ReaderTypes, Contents
    <2> QED
      BY <1>t, <2>1, <2>2 DEF ReaderInv
  <1>5. CASE WriterOpens
    <2>1. ~ subscribed /\ plan' = plan
      BY <1>5 DEF WriterOpens, OpenIndex, ReaderInv, WriterKept
    <2> QED
      BY <1>5, <1>w, <2>1 DEF WriterOpens, ReaderInv
  <1>6. CASE TakeNotice
    <2>1. ReaderTypes'
      BY <1>6, <1>t DEF TakeNotice, ReaderTypes
    <2> QED
      BY <1>6, <1>t, <2>1 DEF TakeNotice, flushVars, ReaderInv, Contents,
                              WriterKept, SeenOnce, Seen, Followed, Agrees
  <1>7. CASE ReadSuperblock
    <2>1. PICK first \in ReadOf(sb[0], pc = "sb0"), second \in ReadOf(sb[1], pc = "sb1") :
            LET b == IF first # Torn THEN first ELSE second IN
            /\ reload' = CASE b = Torn -> Fails
                           [] b # Torn /\ b.txn = rsb.txn -> [reload EXCEPT !.ok = TRUE]
                           [] OTHER -> reload
            /\ rpc' = IF b = Torn \/ b.txn = rsb.txn THEN "idle" ELSE "shards"
            /\ rnew' = IF b = Torn THEN rnew ELSE b
      BY <1>7 DEF ReadSuperblock
    <2> DEFINE b == IF first # Torn THEN first ELSE second
    <2>2. b \in {sb[0], sb[1], Torn} /\ (b # Torn => b \in Superblock)
      BY <1>t DEF ReadOf, FlushTypes
    <2>3. /\ b = Torn => reload' = Fails
          /\ b # Torn /\ b.txn = rsb.txn => reload' = [reload EXCEPT !.ok = TRUE]
          /\ b # Torn /\ b.txn # rsb.txn => reload' = reload
      BY <2>1
    <2>4. /\ rpc' = IF b = Torn \/ b.txn = rsb.txn THEN "idle" ELSE "shards"
          /\ rnew' = IF b = Torn THEN rnew ELSE b
      BY <2>1
    <2>5. rpc = "superblock" /\ rshard' = 0 /\ UNCHANGED <<flushVars, made, rmem, rsb, notices, subscribed>>
      BY <1>7 DEF ReadSuperblock
    <2>6. subscribed => b \in {sb[0], sb[1]} /\ b # Torn
      BY <1>t DEF ReaderInv, WriterKept, ReadOf
    <2> HIDE DEF b
    <2>7. ReaderTypes'
      <3>0. [reload EXCEPT !.ok = TRUE] \in [ok : BOOLEAN, failed : BOOLEAN]
        BY <1>t DEF ReaderTypes
      <3>1. reload' \in [ok : BOOLEAN, failed : BOOLEAN]
        BY <1>t, <1>f, <2>3, <3>0 DEF ReaderTypes
      <3>2. rnew' \in Superblock /\ 0 \in 0..NumShards
        BY <1>t, <2>2, <2>4 DEF ReaderTypes
      <3> QED
        BY <1>t, <2>4, <2>5, <3>1, <3>2 DEF ReaderTypes
    <2>8. reload'.failed = TRUE \/ (reload'.failed = reload.failed)
      BY <1>t, <2>3 DEF Fails, ReaderTypes
    <2>9. Contents'
      BY <2>4, <2>5, <2>8 DEF ReaderInv, Contents, Shards
    <2>10. ASSUME subscribed PROVE WriterKept' /\ SeenOnce' /\ Followed'
      <3>1. WriterKept'
        BY <2>5, <2>10 DEF flushVars, ReaderInv, WriterKept, Agrees
      <3>2. Seen' \subseteq Seen
        BY <2>4, <2>5, <2>6, <2>10 DEF flushVars, Seen
      <3>3. SeenOnce'
        BY <2>5, <2>10, <3>2 DEF flushVars, ReaderInv, SeenOnce
      <3>4. \A s \in Shards \ dirty : Agrees(b, s)
        BY <2>6, <2>10 DEF ReaderInv, WriterKept
      <3>5. b.txn = rsb.txn => b = rsb /\ reload'.ok = TRUE
        BY <1>t, <2>3, <2>6, <2>10 DEF ReaderInv, SeenOnce, Seen, ReaderTypes
      <3> QED
        BY <2>4, <2>5, <2>6, <2>10, <3>1, <3>3, <3>4, <3>5 DEF flushVars, Followed, Agrees
    <2> QED
      BY <1>t, <2>5, <2>7, <2>9, <2>10 DEF ReaderInv, flushVars
  <1>8. CASE KeepShard
    <2>1. ReaderTypes'
      BY <1>8, <1>t DEF KeepShard, ReaderTypes
    <2>2. Contents'
      BY <1>8, <1>t DEF KeepShard, SameShard, ReaderInv, Contents, ReaderTypes, Shards
    <2> QED
      BY <1>8, <1>t, <2>1, <2>2 DEF KeepShard, flushVars, ReaderInv,
                              WriterKept, SeenOnce, Seen, Followed, Agrees
  <1>9. CASE ReadShard
    <2> DEFINE x == <<rshard, rnew.active[rshard]>>
               busy == pc = "shards" /\ shard < NumShards /\ shard \in dirty /\ TargetSlot(shard) = x
    <2>1. PICK content \in ReadOf(slot[x], busy) :
             \/ /\ content = rnew.crc[rshard]
                /\ rmem' = [rmem EXCEPT ![rshard] = content]
                /\ rshard' = rshard + 1
                /\ UNCHANGED <<rpc, reload>>
             \/ /\ content # rnew.crc[rshard]
                /\ rmem' = [rmem EXCEPT ![rshard] = Empty]
                /\ rpc' = "idle"
                /\ reload' = Fails
                /\ UNCHANGED rshard
      BY <1>9 DEF ReadShard
    <2>2. /\ rpc = "shards" /\ rshard \in Shards
          /\ UNCHANGED <<flushVars, made, rsb, rnew, notices, subscribed>>
      BY <1>9, <1>t DEF ReadShard, ReaderTypes, Shards
    <2>3. rnew.crc[rshard] \in Versions /\ Empty \in Versions
      BY <1>t, <2>2 DEF ReaderTypes, Superblock, Empty, Versions
    <2>4. ReaderTypes'
      <3>1. rmem' \in Index
        BY <1>t, <2>1, <2>2, <2>3 DEF ReaderTypes, Index
      <3>2. rshard' \in 0..NumShards
        BY <1>t, <2>1, <2>2 DEF ReaderTypes, Shards
      <3>3. reload' \in [ok : BOOLEAN, failed : BOOLEAN] /\ rpc' \in {"idle", "superblock", "shards"}
        BY <1>t, <1>f, <2>1, <2>2 DEF ReaderTypes
      <3> QED
        BY <1>t, <2>2, <3>1, <3>2, <3>3 DEF ReaderTypes
    <2>5. Contents'
      BY <1>t, <2>1, <2>2 DEF ReaderInv, Contents, ReaderTypes, Index, Fails, Shards
    <2>6. ASSUME subscribed PROVE WriterKept' /\ SeenOnce' /\ Followed'
      <3>1. WriterKept' /\ SeenOnce'
        BY <2>2, <2>6 DEF flushVars, ReaderInv, WriterKept, SeenOnce, Seen, Agrees
      <3>2. ASSUME notices = 0, rshard \notin dirty PROVE content = rnew.crc[rshard]
        <4>1. Agrees(rnew, rshard)
          BY <2>2, <2>6, <3>2 DEF ReaderInv, Followed
        <4>2. slot[x] = rnew.crc[rshard]
          BY <1>t, <2>2, <2>6, <4>1 DEF ReaderInv, WriterKept, Commits, Agrees
        <4>3. ~ busy
          BY <3>2 DEF TargetSlot
        <4> QED
          BY <4>2, <4>3 DEF ReadOf
      <3>3. Followed'
        BY <2>1, <2>2, <2>6, <3>2 DEF flushVars, ReaderInv, Followed, Fails, Agrees
      <3> QED
        BY <3>1, <3>3
    <2> QED
      BY <1>t, <2>2, <2>4, <2>5, <2>6 DEF ReaderInv, flushVars
  <1>10. CASE ReloadDone
    <2>1. ReaderTypes'
      BY <1>10, <1>t DEF ReloadDone, ReaderTypes
    <2>2. Contents'
      BY <1>10, <1>t DEF ReloadDone, ReaderInv, Contents, ReaderTypes, Shards
    <2>3. reload'.ok = TRUE /\ Seen' \subseteq Seen
      BY <1>10, <1>t DEF ReloadDone, ReaderTypes, Seen, flushVars
    <2> QED
      BY <1>10, <1>t, <2>1, <2>2, <2>3 DEF ReloadDone, flushVars, ReaderInv,
                              WriterKept, SeenOnce, Followed, Agrees
  <1>11. CASE UNCHANGED <<flushVars, readerVars>>
    BY <1>11, <1>t DEF flushVars, readerVars, ReaderInv, ReaderTypes, Contents,
                        WriterKept, SeenOnce, Seen, Followed, Agrees
  <1> QED
    BY <1>1, <1>2, <1>3, <1>4, <1>5, <1>6, <1>7, <1>8, <1>9, <1>10, <1>11 DEF ReaderNext

\* When all is flushed and the last FLUSH handled, the last reload_index has
\* succeeded, and if none failed the reader's index is the writer's, however the
\* reloads ran into flushes and failed calls.
THEOREM ReaderFollows ==
    ASSUME \A p \in FaultPlans : NoTornError(p)
    PROVE  ReaderSpec => []ReaderCurrent
  <1>1. ReaderInit => ReaderInv
    BY ReaderStart
  <1>2. ReaderInv /\ [ReaderNext]_<<flushVars, readerVars>> => ReaderInv'
    BY ReaderStep
  <1>3. ReaderInv => ReaderCurrent
    <2> SUFFICES ASSUME ReaderInv, subscribed, notices = 0, rpc = "idle", pc = "idle", dirty = {}
                 PROVE  reload.ok /\ (~ reload.failed => rmem = mem)
      BY DEF ReaderCurrent
    <2>1. reload.ok
      BY DEF ReaderInv, Followed
    <2>2. ASSUME ~ reload.failed PROVE rmem = mem
      <3>1. \A s \in Shards : rmem[s] = mem[s]
        BY <2>2 DEF ReaderInv, Contents, Followed, Agrees, Commits, Written
      <3>2. rmem \in [Shards -> Versions] /\ mem \in [Shards -> Versions]
        BY DEF ReaderInv, ReaderTypes, FlushTypes, Index
      <3> QED
        BY <3>1, <3>2
    <2> QED
      BY <2>1, <2>2
  <1> QED
    BY <1>1, <1>2, <1>3, PTL DEF ReaderSpec

-----------------------------------------------------------------------------
(* The extent allocator.  A list of extents is read as a set of blocks.    *)

\* An extent: its first block and its number of blocks.
Extents == Nat \X (Nat \ {0})

\* The block after an extent.
Beyond(e) == e[1] + e[2]

\* The extents of a list follow one another.
Chain(L) ==
    /\ L \in Seq(Extents)
    /\ \A i, j \in 1..Len(L) : i < j => Beyond(L[i]) <= L[j][1]

\* Places at which two neighbours of the list touch.
Touching(L) == {i \in 1..(Len(L) - 1) : Beyond(L[i]) = L[i + 1][1]}

\* The blocks of a list and of a set of extents.
Covered(L) == UNION {Run(L[i][1], L[i][2]) : i \in DOMAIN L}
Used(S) == UNION {Run(e[1], e[2]) : e \in S}

\* The index's extents lie in the data area and do not overlap.
HeldApart ==
    /\ held \subseteq Extents /\ IsFiniteSet(held)
    /\ \A e \in held : Beyond(e) <= NBlocks
    /\ \A d, e \in held : d # e => Beyond(d) <= e[1] \/ Beyond(e) <= d[1]

\* The inductive invariant of the allocator: the list is sorted, its extents do
\* not touch, and it has exactly the blocks that no object has.
AllocInv ==
    /\ Chain(free_list) /\ Touching(free_list) = {}
    /\ HeldApart
    /\ FreeBlocks = (0..(NBlocks - 1)) \ Used(held)

\* What extents, lists and sets of them have.
LEMMA ExtentIs ==
    ASSUME NEW e \in Extents
    PROVE  /\ e[1] \in Nat /\ e[2] \in Nat /\ e[2] > 0 /\ Beyond(e) \in Nat /\ e[1] < Beyond(e) /\ e = <<e[1], e[2]>>
           /\ \A x \in Int : x \in Run(e[1], e[2]) <=> e[1] <= x /\ x < Beyond(e)
  BY DEF Extents, Beyond, Run

LEMMA CoveredIs ==
    ASSUME NEW L \in Seq(Extents)
    PROVE  /\ Covered(L) \subseteq Nat
           /\ \A x \in Int : x \in Covered(L) <=> \E i \in 1..Len(L) : L[i][1] <= x /\ x < Beyond(L[i])
  <1>1. \A i \in 1..Len(L) : L[i] \in Extents
    BY ElementOfSeq
  <1>2. DOMAIN L = 1..Len(L)
    BY LenProperties
  <1>3. \A x : x \in Covered(L) <=> \E i \in 1..Len(L) : x \in Run(L[i][1], L[i][2])
    BY <1>2 DEF Covered
  <1>4. \A i \in 1..Len(L) : Run(L[i][1], L[i][2]) \subseteq Nat
    BY <1>1, ExtentIs DEF Run
  <1> QED
    BY <1>1, <1>3, <1>4, ExtentIs

LEMMA UsedIs ==
    ASSUME NEW S \in SUBSET Extents
    PROVE  /\ Used(S) \subseteq Nat
           /\ \A x \in Int : x \in Used(S) <=> \E e \in S : e[1] <= x /\ x < Beyond(e)
  <1>1. \A x : x \in Used(S) <=> \E e \in S : x \in Run(e[1], e[2])
    BY DEF Used
  <1>2. \A e \in S : Run(e[1], e[2]) \subseteq Nat
    BY ExtentIs DEF Run
  <1> QED
    BY <1>1, <1>2, ExtentIs

\* An entry inserted into a list, or removed from it.
LEMMA InsertIs ==
    ASSUME NEW S, NEW L \in Seq(S), NEW p \in 1..(Len(L) + 1), NEW e \in S
    PROVE  /\ InsertAt(L, p, e) \in Seq(S) /\ Len(InsertAt(L, p, e)) = Len(L) + 1
           /\ \A i \in 1..(Len(L) + 1) :
                InsertAt(L, p, e)[i] = IF i < p THEN L[i] ELSE IF i = p THEN e ELSE L[i - 1]
  <1> DEFINE a == SubSeq(L, 1, p - 1)
             b == SubSeq(L, p, Len(L))
             ae == a \o <<e>>
  <1>1. Len(L) \in Nat /\ p \in Nat /\ 1 \in 1..(Len(L) + 1) /\ p - 1 \in (1 - 1)..Len(L)
        /\ Len(L) \in (p - 1)..Len(L)
    OBVIOUS
  <1>2. a \in Seq(S) /\ Len(a) = (p - 1) - 1 + 1 /\ \A i \in 1..((p - 1) - 1 + 1) : a[i] = L[1 + i - 1]
    BY <1>1, PieceIs
  <1>3. b \in Seq(S) /\ Len(b) = Len(L) - p + 1 /\ \A i \in 1..(Len(L) - p + 1) : b[i] = L[p + i - 1]
    BY <1>1, PieceIs
  <1>4. InsertAt(L, p, e) = ae \o b
    BY DEF InsertAt
  <1> HIDE DEF a, b
  <1>5. ae \in Seq(S) /\ Len(ae) = p /\ ae[p] = e /\ \A i \in 1..(p - 1) : ae[i] = L[i]
    BY <1>1, <1>2
  <1> HIDE DEF ae
  <1>6. /\ ae \o b \in Seq(S) /\ Len(ae \o b) = Len(ae) + Len(b)
        /\ \A i \in 1..(Len(ae) + Len(b)) : (ae \o b)[i] = IF i <= Len(ae) THEN ae[i] ELSE b[i - Len(ae)]
    BY <1>3, <1>5, ConcatProperties
  <1>7. Len(ae) + Len(b) = Len(L) + 1
    BY <1>1, <1>3, <1>5
  <1>8. ASSUME NEW i \in 1..(Len(L) + 1)
        PROVE  (ae \o b)[i] = IF i < p THEN L[i] ELSE IF i = p THEN e ELSE L[i - 1]
    <2>1. CASE i < p
      <3>1. i \in 1..(p - 1) /\ i <= p
        BY <1>1, <2>1
      <3>2. (ae \o b)[i] = ae[i]
        BY <1>5, <1>6, <1>7, <3>1
      <3> QED
        BY <1>5, <2>1, <3>1, <3>2
    <2>2. CASE i = p
      BY <1>1, <1>5, <1>6, <1>7, <2>2
    <2>3. CASE i > p
      <3>1. i - p \in 1..(Len(L) - p + 1) /\ p + (i - p) - 1 = i - 1 /\ ~ (i <= p)
        BY <1>1, <2>3
      <3>2. (ae \o b)[i] = b[i - p]
        BY <1>5, <1>6, <1>7, <3>1
      <3>3. b[i - p] = L[i - 1]
        BY <1>3, <3>1
      <3>4. ~ (i < p) /\ i # p
        BY <1>1, <2>3
      <3> QED
        BY <3>2, <3>3, <3>4, Zenon
    <2>4. i < p \/ i = p \/ i > p
      BY <1>1
    <2> QED
      BY <2>1, <2>2, <2>3, <2>4, Zenon
  <1> QED
    BY <1>4, <1>6, <1>7, <1>8

LEMMA RemoveIs ==
    ASSUME NEW S, NEW L \in Seq(S), NEW p \in 1..Len(L)
    PROVE  /\ RemoveAt(L, p) \in Seq(S) /\ Len(RemoveAt(L, p)) = Len(L) - 1
           /\ \A i \in 1..(Len(L) - 1) : RemoveAt(L, p)[i] = IF i < p THEN L[i] ELSE L[i + 1]
  <1> DEFINE a == SubSeq(L, 1, p - 1)
             b == SubSeq(L, p + 1, Len(L))
  <1>1. Len(L) \in Nat /\ p \in Nat /\ 1 \in 1..(Len(L) + 1) /\ p - 1 \in (1 - 1)..Len(L)
        /\ p + 1 \in 1..(Len(L) + 1) /\ Len(L) \in ((p + 1) - 1)..Len(L)
    OBVIOUS
  <1>2. a \in Seq(S) /\ Len(a) = (p - 1) - 1 + 1 /\ \A i \in 1..((p - 1) - 1 + 1) : a[i] = L[1 + i - 1]
    BY <1>1, PieceIs
  <1>3. /\ b \in Seq(S) /\ Len(b) = Len(L) - (p + 1) + 1
        /\ \A i \in 1..(Len(L) - (p + 1) + 1) : b[i] = L[(p + 1) + i - 1]
    BY <1>1, PieceIs
  <1>4. RemoveAt(L, p) = a \o b
    BY DEF RemoveAt
  <1> HIDE DEF a, b
  <1>5. /\ a \o b \in Seq(S) /\ Len(a \o b) = Len(a) + Len(b)
        /\ \A i \in 1..(Len(a) + Len(b)) : (a \o b)[i] = IF i <= Len(a) THEN a[i] ELSE b[i - Len(a)]
    BY <1>2, <1>3, ConcatProperties
  <1>6. Len(a) = p - 1 /\ Len(a) + Len(b) = Len(L) - 1
    BY <1>1, <1>2, <1>3
  <1>7. ASSUME NEW i \in 1..(Len(L) - 1)
        PROVE  (a \o b)[i] = IF i < p THEN L[i] ELSE L[i + 1]
    <2>1. CASE i < p
      BY <1>1, <1>2, <1>5, <1>6, <2>1
    <2>2. CASE ~ (i < p)
      <3>1. i - (p - 1) \in 1..(Len(L) - (p + 1) + 1) /\ (p + 1) + (i - (p - 1)) - 1 = i + 1 /\ ~ (i <= p - 1)
        BY <1>1, <2>2
      <3>2. (a \o b)[i] = b[i - (p - 1)]
        BY <1>5, <1>6, <3>1
      <3>3. b[i - (p - 1)] = L[i + 1]
        BY <1>3, <3>1
      <3> QED
        BY <2>2, <3>2, <3>3
    <2> QED
      BY <2>1, <2>2
  <1> QED
    BY <1>4, <1>5, <1>6, <1>7

\* Neighbours that touch become one extent; nothing else changes.
LEMMA MergeIs ==
    ASSUME NEW L, Chain(L), NEW p \in Nat, p \in Touching(L)
    PROVE  LET M == MergeWithNext(L, p)
           IN  /\ M \in Seq(Extents) /\ Len(M) = Len(L) - 1
               /\ \A i \in 1..(Len(L) - 1) :
                    /\ i < p => M[i] = L[i]
                    /\ i > p => M[i] = L[i + 1]
                    /\ i = p => M[i][1] = L[p][1] /\ Beyond(M[i]) = Beyond(L[p + 1])
  <1> DEFINE e == <<L[p][1], L[p][2] + L[p + 1][2]>>
             K == [L EXCEPT ![p] = e]
  <1>1. Len(L) \in Nat /\ p \in 1..(Len(L) - 1) /\ p + 1 \in 1..Len(L) /\ Beyond(L[p]) = L[p + 1][1] /\ L \in Seq(Extents)
    BY DEF Touching, Chain
  <1>2. L[p] \in Extents /\ L[p + 1] \in Extents
    BY <1>1, ElementOfSeq
  <1>3. e \in Extents /\ e[1] = L[p][1] /\ Beyond(e) = Beyond(L[p + 1])
    <2>1. /\ L[p][1] \in Nat /\ L[p][2] \in Nat \ {0} /\ L[p + 1][2] \in Nat \ {0}
          /\ L[p][1] + L[p][2] = L[p + 1][1]
      BY <1>1, <1>2 DEF Extents, Beyond
    <2>2. L[p][2] + L[p + 1][2] \in Nat \ {0}
      BY <2>1
    <2>3. e[1] = L[p][1] /\ e[2] = L[p][2] + L[p + 1][2]
      OBVIOUS
    <2>4. e \in Extents
      BY <2>1, <2>2 DEF Extents
    <2>5. e[1] + e[2] = L[p + 1][1] + L[p + 1][2]
      BY <2>1, <2>3
    <2> QED
      BY <2>3, <2>4, <2>5 DEF Beyond
  <1>4. MergeWithNext(L, p) = RemoveAt(K, p + 1)
    BY <1>1 DEF MergeWithNext, Touching, Beyond
  <1> HIDE DEF e
  <1>5. K \in Seq(Extents) /\ Len(K) = Len(L) /\ \A i \in 1..Len(L) : K[i] = IF i = p THEN e ELSE L[i]
    BY <1>1, <1>3
  <1> HIDE DEF K
  <1>6. /\ RemoveAt(K, p + 1) \in Seq(Extents) /\ Len(RemoveAt(K, p + 1)) = Len(K) - 1
        /\ \A i \in 1..(Len(K) - 1) : RemoveAt(K, p + 1)[i] = IF i < p + 1 THEN K[i] ELSE K[i + 1]
    <2>1. p + 1 \in 1..Len(K)
      BY <1>1, <1>5
    <2> QED
      BY <1>5, <2>1, RemoveIs
  <1>7. ASSUME NEW i \in 1..(Len(L) - 1)
        PROVE  RemoveAt(K, p + 1)[i] = IF i = p THEN e ELSE IF i < p THEN L[i] ELSE L[i + 1]
    <2>1. i \in 1..Len(L) /\ i + 1 \in 1..Len(L) /\ i \in 1..(Len(K) - 1) /\ (i < p + 1 <=> i < p \/ i = p) /\ i \in Nat
      BY <1>1, <1>5
    <2>2. i >= p + 1 => i + 1 # p
      BY <1>1, <2>1
    <2> QED
      BY <1>1, <1>5, <1>6, <2>1, <2>2
  <1> QED
    BY <1>1, <1>3, <1>4, <1>5, <1>6, <1>7

\* It stays a chain over the same blocks, and if the other places at which the
\* list touches lie before, they still do.
LEMMA MergeKeeps ==
    ASSUME NEW L, Chain(L), NEW p \in Nat, Touching(L) \subseteq 0..p
    PROVE  LET M == MergeWithNext(L, p)
           IN  Chain(M) /\ Covered(M) = Covered(L) /\ Touching(M) \subseteq Touching(L) \cap 0..(p - 1)
  <1> DEFINE M == MergeWithNext(L, p)
  <1>1. CASE p \notin Touching(L)
    <2>1. M = L
      BY <1>1 DEF MergeWithNext, Touching, Beyond
    <2>2. Touching(L) \subseteq 0..(p - 1)
      BY <1>1 DEF Touching
    <2> QED
      BY <2>1, <2>2
  <1>2. CASE p \in Touching(L)
    <2>1. /\ M \in Seq(Extents) /\ Len(M) = Len(L) - 1
          /\ \A i \in 1..(Len(L) - 1) :
                /\ i < p => M[i] = L[i]
                /\ i > p => M[i] = L[i + 1]
                /\ i = p => M[i][1] = L[p][1] /\ Beyond(M[i]) = Beyond(L[p + 1])
      BY <1>2, MergeIs
    <2>2. /\ Len(L) \in Nat /\ p \in 1..(Len(L) - 1) /\ Beyond(L[p]) = L[p + 1][1] /\ L \in Seq(Extents)
          /\ \A i, j \in 1..Len(L) : i < j => Beyond(L[i]) <= L[j][1]
      BY <1>2 DEF Touching, Chain
    <2>3. \A i \in 1..Len(L) : L[i][1] \in Nat /\ Beyond(L[i]) \in Nat /\ L[i][1] < Beyond(L[i])
      BY <2>2, ElementOfSeq, ExtentIs
    <2> HIDE DEF M
    <2>4. ASSUME NEW i \in 1..(Len(L) - 1)
          PROVE  /\ M[i][1] = IF i <= p THEN L[i][1] ELSE L[i + 1][1]
                 /\ Beyond(M[i]) = IF i < p THEN Beyond(L[i]) ELSE Beyond(L[i + 1])
      BY <2>1, <2>2
    <2>5. Chain(M)
      <3>1. ASSUME NEW i \in 1..(Len(L) - 1), NEW j \in 1..(Len(L) - 1), i < j PROVE Beyond(M[i]) <= M[j][1]
        <4> DEFINE a == IF i < p THEN i ELSE i + 1
                   b == IF j <= p THEN j ELSE j + 1
        <4>1. a \in 1..Len(L) /\ b \in 1..Len(L) /\ a < b
          BY <2>2, <3>1
        <4>2. Beyond(M[i]) = Beyond(L[a]) /\ M[j][1] = L[b][1]
          BY <2>4
        <4> HIDE DEF a, b
        <4> QED
          BY <2>2, <4>1, <4>2
      <3> QED
        BY <2>1, <3>1 DEF Chain
    <2>6. ASSUME NEW x \in Int
          PROVE  x \in Covered(M) <=> x \in Covered(L)
      <3>1. x \in Covered(M) <=> \E i \in 1..Len(M) : M[i][1] <= x /\ x < Beyond(M[i])
        BY <2>1, CoveredIs
      <3>2. x \in Covered(L) <=> \E i \in 1..Len(L) : L[i][1] <= x /\ x < Beyond(L[i])
        BY <2>2, CoveredIs
      <3>3. ASSUME NEW i \in 1..Len(M), M[i][1] <= x, x < Beyond(M[i])
            PROVE  \E j \in 1..Len(L) : L[j][1] <= x /\ x < Beyond(L[j])
        <4>1. i \in 1..(Len(L) - 1) /\ i \in 1..Len(L) /\ i + 1 \in 1..Len(L)
          BY <2>1, <2>2
        <4>2. CASE i < p
          BY <2>2, <2>4, <3>3, <4>1, <4>2
        <4>3. CASE i > p
          BY <2>2, <2>4, <3>3, <4>1, <4>3
        <4>4. CASE i = p
          <5>1. L[p][1] <= x /\ x < Beyond(L[p + 1])
            BY <2>2, <2>4, <3>3, <4>1, <4>4
          <5>2. x < Beyond(L[p]) \/ L[p + 1][1] <= x
            BY <2>2, <2>3, <4>1, <4>4
          <5> QED
            BY <4>1, <4>4, <5>1, <5>2
        <4> QED
          BY <2>2, <4>2, <4>3, <4>4
      <3>4. ASSUME NEW j \in 1..Len(L), L[j][1] <= x, x < Beyond(L[j])
            PROVE  \E i \in 1..Len(M) : M[i][1] <= x /\ x < Beyond(M[i])
        <4> DEFINE i == IF j <= p THEN j ELSE j - 1
        <4>1. i \in 1..(Len(L) - 1) /\ i \in 1..Len(M)
          BY <2>1, <2>2
        <4>2. p \in 1..Len(L) /\ p + 1 \in 1..Len(L) /\ Beyond(L[p]) <= L[p + 1][1] /\ L[p + 1][1] < Beyond(L[p + 1])
          BY <2>2, <2>3
        <4>3. L[p][1] < L[p + 1][1] /\ Beyond(L[p]) < Beyond(L[p + 1])
          BY <2>2, <2>3, <4>2
        <4>4. CASE j < p
          BY <2>2, <2>4, <3>4, <4>1, <4>4
        <4>5. CASE j = p
          <5>1. M[i][1] = L[p][1] /\ Beyond(M[i]) = Beyond(L[p + 1])
            BY <2>2, <2>4, <4>1, <4>5
          <5> QED
            BY <2>3, <3>4, <4>1, <4>2, <4>3, <4>5, <5>1
        <4>6. CASE j = p + 1
          <5>1. M[i][1] = L[p][1] /\ Beyond(M[i]) = Beyond(L[p + 1])
            BY <2>2, <2>4, <4>1, <4>6
          <5> QED
            BY <2>3, <3>4, <4>1, <4>2, <4>3, <4>6, <5>1
        <4>7. CASE j > p + 1
          <5>1. i = j - 1 /\ i > p /\ i + 1 = j
            BY <2>2, <4>7
          <5>2. M[i] = L[j]
            BY <2>1, <4>1, <5>1
          <5> QED
            BY <3>4, <4>1, <5>2
        <4> QED
          BY <2>2, <4>4, <4>5, <4>6, <4>7
      <3> QED
        BY <3>1, <3>2, <3>3, <3>4
    <2>7. Covered(M) = Covered(L)
      <3>1. Covered(M) \subseteq Nat /\ Covered(L) \subseteq Nat
        BY <2>1, <2>2, CoveredIs
      <3>2. \A x : x \in Covered(M) <=> x \in Covered(L)
        BY <2>6, <3>1
      <3> QED
        BY <3>2
    <2>8. ASSUME NEW i \in Touching(M)
          PROVE  i \in Touching(L) \cap 0..(p - 1)
      <3>1. i \in 1..(Len(L) - 2) /\ Beyond(M[i]) = M[i + 1][1] /\ i \in 1..(Len(L) - 1) /\ i + 1 \in 1..(Len(L) - 1)
        BY <2>1, <2>2 DEF Touching
      <3>2. CASE i < p
        <4>1. Beyond(M[i]) = Beyond(L[i]) /\ M[i + 1][1] = L[i + 1][1]
          BY <2>2, <2>4, <3>1, <3>2
        <4> QED
          BY <2>2, <3>1, <3>2, <4>1 DEF Touching
      <3>3. CASE i >= p
        <4>1. Beyond(M[i]) = Beyond(L[i + 1]) /\ M[i + 1][1] = L[i + 2][1]
          BY <2>2, <2>4, <3>1, <3>3
        <4>2. i + 1 \in Touching(L)
          BY <2>2, <3>1, <4>1 DEF Touching
        <4> QED
          BY <2>2, <3>1, <3>3, <4>2
      <3> QED
        BY <2>2, <3>1, <3>2, <3>3
    <2> QED
      BY <2>5, <2>7, <2>8 DEF M
  <1> QED
    BY <1>1, <1>2

\* partition_point: the entries of a chain that begin before block o come first.
LEMMA PartitionPoint ==
    ASSUME NEW L, Chain(L), NEW o \in Nat
    PROVE  LET p == Cardinality({i \in DOMAIN L : L[i][1] < o}) + 1
           IN  /\ p \in 1..(Len(L) + 1)
               /\ \A i \in 1..Len(L) : IF i < p THEN L[i][1] < o ELSE o <= L[i][1]
  <1>1. /\ L \in Seq(Extents) /\ Len(L) \in Nat /\ DOMAIN L = 1..Len(L)
        /\ \A i, j \in 1..Len(L) : i < j => Beyond(L[i]) <= L[j][1]
    BY DEF Chain
  <1>2. \A i \in 1..Len(L) : L[i][1] \in Nat /\ Beyond(L[i]) \in Nat /\ L[i][1] < Beyond(L[i])
    BY <1>1, ElementOfSeq, ExtentIs
  <1> DEFINE C == {i \in 1..(Len(L) + 1) : i = Len(L) + 1 \/ o <= L[i][1]}
             B == {i \in DOMAIN L : L[i][1] < o}
  <1>3. C \subseteq Nat /\ Len(L) + 1 \in C
    BY <1>1
  <1>4. PICK m \in C : \A i \in C : m <= i
    BY <1>3, LeastNat
  <1>5. m \in 1..(Len(L) + 1) /\ m \in Nat
    BY <1>1
  <1>6. ASSUME NEW i \in 1..Len(L)
        PROVE  IF i < m THEN L[i][1] < o ELSE o <= L[i][1]
    <2>1. CASE i < m
      <3>1. i \notin C
        BY <1>1, <1>4, <1>5, <2>1
      <3> QED
        BY <1>1, <1>2, <2>1, <3>1
    <2>2. CASE i = m
      BY <1>1, <1>5, <2>2
    <2>3. CASE i > m
      <3>1. m \in 1..Len(L) /\ o <= L[m][1]
        BY <1>1, <1>5, <2>3
      <3>2. Beyond(L[m]) <= L[i][1]
        BY <1>1, <2>3, <3>1
      <3> QED
        BY <1>1, <1>2, <1>5, <2>3, <3>1, <3>2
    <2> QED
      BY <1>1, <1>5, <2>1, <2>2, <2>3
  <1>7. B = 1..(m - 1)
    BY <1>1, <1>2, <1>5, <1>6
  <1>8. Cardinality(B) = m - 1
    <2>1. 1 \in Int /\ m - 1 \in Int
      BY <1>5
    <2>2. Cardinality(1..(m - 1)) = IF 1 > m - 1 THEN 0 ELSE (m - 1) - 1 + 1
      BY <2>1, FS_Interval
    <2>3. Cardinality(1..(m - 1)) = m - 1
      BY <1>5, <2>2
    <2> HIDE DEF B
    <2> QED
      BY <1>7, <2>3
  <1> HIDE DEF B, C
  <1>9. Cardinality(B) + 1 = m
    BY <1>5, <1>8
  <1> QED
    BY <1>5, <1>6, <1>9 DEF B

\* Freed blocks are in the list, which stays sorted without neighbours that
\* touch.
LEMMA FreeIntoIs ==
    ASSUME NEW L, Chain(L), Touching(L) = {}, NEW e \in Extents,
           \A i \in 1..Len(L) : Beyond(L[i]) <= e[1] \/ Beyond(e) <= L[i][1]
    PROVE  LET M == FreeInto(L, e[1], e[2])
           IN  Chain(M) /\ Touching(M) = {} /\ Covered(M) = Covered(L) \cup Run(e[1], e[2])
  <1> DEFINE p == Cardinality({i \in DOMAIN L : L[i][1] < e[1]}) + 1
             K == InsertAt(L, p, e)
             N == MergeWithNext(K, p)
             M == MergeWithNext(N, p - 1)
  <1>0. e[1] \in Nat /\ e = <<e[1], e[2]>> /\ Beyond(e) \in Nat /\ e[1] < Beyond(e)
    BY ExtentIs
  <1>1. FreeInto(L, e[1], e[2]) = M
    BY <1>0 DEF FreeInto
  <1>2. p \in 1..(Len(L) + 1) /\ \A i \in 1..Len(L) : IF i < p THEN L[i][1] < e[1] ELSE e[1] <= L[i][1]
    BY <1>0, PartitionPoint
  <1>3. /\ L \in Seq(Extents) /\ Len(L) \in Nat
        /\ \A i, j \in 1..Len(L) : i < j => Beyond(L[i]) <= L[j][1]
    BY DEF Chain
  <1>4. \A i \in 1..Len(L) : L[i][1] \in Nat /\ Beyond(L[i]) \in Nat /\ L[i][1] < Beyond(L[i])
    BY <1>3, ElementOfSeq, ExtentIs
  <1> HIDE DEF p
  <1>5. /\ K \in Seq(Extents) /\ Len(K) = Len(L) + 1
        /\ \A i \in 1..(Len(L) + 1) : K[i] = IF i < p THEN L[i] ELSE IF i = p THEN e ELSE L[i - 1]
    BY <1>2, <1>3, InsertIs
  <1> HIDE DEF K
  <1>6. \A i \in 1..Len(L) : IF i < p THEN Beyond(L[i]) <= e[1] ELSE Beyond(e) <= L[i][1]
    BY <1>0, <1>2, <1>4
  <1>7. Chain(K)
    <2>1. ASSUME NEW i \in 1..Len(K), NEW j \in 1..Len(K), i < j PROVE Beyond(K[i]) <= K[j][1]
      <3>0. i \in 1..(Len(L) + 1) /\ j \in 1..(Len(L) + 1) /\ p \in Nat
        BY <1>2, <1>3, <1>5
      <3>1. CASE i = p
        <4>1. K[i] = e /\ K[j] = L[j - 1] /\ j - 1 \in 1..Len(L) /\ ~ (j - 1 < p)
          BY <1>3, <1>5, <2>1, <3>0, <3>1
        <4> QED
          BY <1>6, <4>1
      <3>2. CASE j = p
        <4>1. K[j] = e /\ K[i] = L[i] /\ i \in 1..Len(L) /\ i < p
          BY <1>3, <1>5, <2>1, <3>0, <3>2
        <4> QED
          BY <1>6, <4>1
      <3>3. CASE i # p /\ j # p
        <4> DEFINE a == IF i < p THEN i ELSE i - 1
                   b == IF j < p THEN j ELSE j - 1
        <4>1. a \in 1..Len(L) /\ b \in 1..Len(L) /\ a < b
          BY <1>2, <1>3, <2>1, <3>0, <3>3
        <4>2. K[i] = L[a] /\ K[j] = L[b]
          BY <1>5, <3>0, <3>3
        <4> HIDE DEF a, b
        <4> QED
          BY <1>3, <4>1, <4>2
      <3> QED
        BY <3>1, <3>2, <3>3
    <2> QED
      BY <1>5, <2>1 DEF Chain
  <1>8. Touching(K) \subseteq {p - 1, p}
    <2>1. ASSUME NEW i \in Touching(K), i # p - 1, i # p PROVE FALSE
      <3>1. i \in 1..Len(L) /\ Beyond(K[i]) = K[i + 1][1] /\ i \in 1..(Len(L) + 1) /\ i + 1 \in 1..(Len(L) + 1)
        BY <1>3, <1>5 DEF Touching
      <3> DEFINE a == IF i < p THEN i ELSE i - 1
      <3>2. a \in 1..(Len(L) - 1) /\ K[i] = L[a] /\ K[i + 1] = L[a + 1]
        BY <1>2, <1>3, <1>5, <2>1, <3>1
      <3> HIDE DEF a
      <3>3. a \in Touching(L)
        BY <3>1, <3>2 DEF Touching
      <3> QED
        BY <3>3
    <2> QED
      BY <2>1
  <1>9. ASSUME NEW x \in Int
        PROVE  x \in Covered(K) <=> x \in Covered(L) \/ (e[1] <= x /\ x < Beyond(e))
    <2>1. x \in Covered(K) <=> \E i \in 1..Len(K) : K[i][1] <= x /\ x < Beyond(K[i])
      BY <1>5, CoveredIs
    <2>2. x \in Covered(L) <=> \E i \in 1..Len(L) : L[i][1] <= x /\ x < Beyond(L[i])
      BY <1>3, CoveredIs
    <2>3. ASSUME NEW i \in 1..Len(K), K[i][1] <= x, x < Beyond(K[i])
          PROVE  x \in Covered(L) \/ (e[1] <= x /\ x < Beyond(e))
      <3>0. i \in 1..(Len(L) + 1) /\ p \in Nat
        BY <1>2, <1>3, <1>5
      <3>1. CASE i = p
        <4>1. K[i] = e
          BY <1>5, <3>0, <3>1
        <4> QED
          BY <2>3, <4>1
      <3>2. CASE i # p
        <4> DEFINE a == IF i < p THEN i ELSE i - 1
        <4>1. a \in 1..Len(L) /\ K[i] = L[a]
          BY <1>2, <1>3, <1>5, <3>0, <3>2
        <4> HIDE DEF a
        <4> QED
          BY <2>2, <2>3, <4>1
      <3> QED
        BY <3>1, <3>2
    <2>4. ASSUME NEW j \in 1..Len(L), L[j][1] <= x, x < Beyond(L[j])
          PROVE  \E i \in 1..Len(K) : K[i][1] <= x /\ x < Beyond(K[i])
      <3> DEFINE a == IF j < p THEN j ELSE j + 1
      <3>1. a \in 1..Len(K) /\ K[a] = L[j]
        BY <1>2, <1>3, <1>5
      <3> HIDE DEF a
      <3> QED
        BY <2>4, <3>1
    <2>5. p \in 1..Len(K) /\ K[p] = e
      BY <1>2, <1>3, <1>5
    <2> QED
      BY <2>1, <2>2, <2>3, <2>4, <2>5
  <1>10. Covered(K) = Covered(L) \cup Run(e[1], e[2])
    <2>1. Covered(K) \subseteq Nat /\ Covered(L) \subseteq Nat
      BY <1>3, <1>5, CoveredIs
    <2>2. Run(e[1], e[2]) \subseteq Nat /\ \A x \in Int : x \in Run(e[1], e[2]) <=> e[1] <= x /\ x < Beyond(e)
      BY <1>0, ExtentIs DEF Run
    <2>3. \A x : x \in Covered(K) <=> x \in Covered(L) \/ x \in Run(e[1], e[2])
      BY <1>9, <2>1, <2>2
    <2> QED
      BY <2>3
  <1>11. p \in Nat /\ p - 1 \in Nat /\ Touching(K) \subseteq 0..p
    BY <1>2, <1>8
  <1>12. Chain(N) /\ Covered(N) = Covered(K) /\ Touching(N) \subseteq Touching(K) \cap 0..(p - 1)
    BY <1>7, <1>11, MergeKeeps
  <1> HIDE DEF N
  <1>13. Chain(M) /\ Covered(M) = Covered(N) /\ Touching(M) \subseteq Touching(N) \cap 0..((p - 1) - 1)
    BY <1>11, <1>12, MergeKeeps
  <1> HIDE DEF M
  <1>14. Touching(M) = {}
    <2>1. ASSUME NEW i \in Touching(M) PROVE FALSE
      <3>1. i \in {p - 1, p} /\ i \in 0..((p - 1) - 1)
        BY <1>8, <1>12, <1>13
      <3> QED
        BY <1>11, <3>1
    <2> QED
      BY <2>1
  <1> QED
    BY <1>1, <1>10, <1>12, <1>13, <1>14

\* Extents without a common block lie one after the other.
LEMMA ApartExtents ==
    ASSUME NEW d \in Extents, NEW e \in Extents,
           \A x \in Nat : ~ (d[1] <= x /\ x < Beyond(d) /\ e[1] <= x /\ x < Beyond(e))
    PROVE  Beyond(d) <= e[1] \/ Beyond(e) <= d[1]
  <1>1. /\ d[1] \in Nat /\ e[1] \in Nat /\ Beyond(d) \in Nat /\ Beyond(e) \in Nat
        /\ d[1] < Beyond(d) /\ e[1] < Beyond(e)
    BY ExtentIs
  <1>2. /\ ~ (d[1] <= d[1] /\ d[1] < Beyond(d) /\ e[1] <= d[1] /\ d[1] < Beyond(e))
        /\ ~ (d[1] <= e[1] /\ e[1] < Beyond(d) /\ e[1] <= e[1] /\ e[1] < Beyond(e))
    BY <1>1
  <1> QED
    BY <1>1, <1>2

\* Blocks side by side in a list whose extents do not touch are in one extent.
LEMMA RunInEntry ==
    ASSUME NEW L, Chain(L), Touching(L) = {}, NEW q \in Nat, NEW n \in Nat \ {0}, Run(q, n) \subseteq Covered(L)
    PROVE  \E k \in 1..Len(L) : L[k][1] <= q /\ q + n <= Beyond(L[k])
  <1>1. /\ L \in Seq(Extents) /\ Len(L) \in Nat
        /\ \A i, j \in 1..Len(L) : i < j => Beyond(L[i]) <= L[j][1]
    BY DEF Chain
  <1>2. \A i \in 1..Len(L) : L[i][1] \in Nat /\ Beyond(L[i]) \in Nat /\ L[i][1] < Beyond(L[i])
    BY <1>1, ElementOfSeq, ExtentIs
  <1>3. \A x \in Int : x \in Covered(L) <=> \E i \in 1..Len(L) : L[i][1] <= x /\ x < Beyond(L[i])
    BY <1>1, CoveredIs
  <1>4. q \in Run(q, n)
    BY DEF Run
  <1>5. PICK k \in 1..Len(L) : L[k][1] <= q /\ q < Beyond(L[k])
    BY <1>3, <1>4
  <1> DEFINE x == Beyond(L[k])
  <1>6. x \in Nat /\ q < x
    BY <1>2, <1>5
  <1>7. ASSUME x < q + n PROVE FALSE
    <2>1. x \in Run(q, n)
      BY <1>6, <1>7 DEF Run
    <2>2. PICK m \in 1..Len(L) : L[m][1] <= x /\ x < Beyond(L[m])
      BY <1>3, <1>6, <2>1
    <2>3. CASE m < k
      <3>1. Beyond(L[m]) <= L[k][1]
        BY <1>1, <2>3
      <3> QED
        BY <1>2, <1>5, <2>2, <3>1
    <2>4. CASE m = k
      BY <1>2, <2>2, <2>4
    <2>5. CASE m > k
      <3>1. k + 1 \in 1..Len(L) /\ k \in 1..(Len(L) - 1)
        BY <1>1, <2>5
      <3>2. Beyond(L[k]) <= L[k + 1][1] /\ Beyond(L[k]) # L[k + 1][1]
        <4>1. k < k + 1 /\ k \notin Touching(L)
          OBVIOUS
        <4>2. Beyond(L[k]) # L[k + 1][1]
          BY <3>1, <4>1 DEF Touching
        <4> QED
          BY <1>1, <3>1, <4>1, <4>2
      <3>3. L[k + 1][1] <= L[m][1]
        <4>1. CASE m = k + 1
          BY <1>2, <4>1
        <4>2. CASE m > k + 1
          <5>1. Beyond(L[k + 1]) <= L[m][1]
            BY <1>1, <3>1, <4>2
          <5> QED
            BY <1>2, <3>1, <5>1
        <4> QED
          BY <1>1, <2>5, <4>1, <4>2
      <3> QED
        BY <1>2, <2>2, <3>1, <3>2, <3>3
    <2> QED
      BY <1>1, <2>3, <2>4, <2>5
  <1> QED
    BY <1>5, <1>6, <1>7

\* The first n blocks of an entry leave the list.
LEMMA TakeFromIs ==
    ASSUME NEW i \in 1..Len(free_list), Chain(free_list), Touching(free_list) = {},
           NEW n \in Nat \ {0}, n <= free_list[i][2]
    PROVE  LET M == TakeFrom(i, n)
           IN  /\ Chain(M) /\ Touching(M) = {}
               /\ \A x \in Int : x \in Covered(M) <=>
                     x \in Covered(free_list) /\ ~ (free_list[i][1] <= x /\ x < free_list[i][1] + n)
  <1> DEFINE L == free_list
             M == TakeFrom(i, n)
             o == L[i][1]
  <1>1. /\ L \in Seq(Extents) /\ Len(L) \in Nat /\ i \in 1..Len(L)
        /\ \A j, k \in 1..Len(L) : j < k => Beyond(L[j]) <= L[k][1]
    BY DEF Chain
  <1>2. \A j \in 1..Len(L) : L[j][1] \in Nat /\ Beyond(L[j]) \in Nat /\ L[j][1] < Beyond(L[j])
    BY <1>1, ElementOfSeq, ExtentIs
  <1>3. L[i] \in Extents /\ L[i][2] \in Nat /\ Beyond(L[i]) = o + L[i][2] /\ o \in Nat
    BY <1>1, ElementOfSeq, ExtentIs DEF Beyond
  <1>4. \A j \in 1..(Len(L) - 1) : Beyond(L[j]) # L[j + 1][1]
    BY DEF Touching
  <1>5. \A x \in Int : x \in Covered(L) <=> \E j \in 1..Len(L) : L[j][1] <= x /\ x < Beyond(L[j])
    BY <1>1, CoveredIs
  <1>6. ASSUME NEW x \in Int, NEW j \in 1..Len(L), j # i, L[j][1] <= x, x < Beyond(L[j])
        PROVE  x < o \/ Beyond(L[i]) <= x
    <2>1. CASE j < i
      BY <1>1, <1>2, <1>6, <2>1
    <2>2. CASE j > i
      BY <1>1, <1>2, <1>6, <2>2
    <2> QED
      BY <1>1, <1>6, <2>1, <2>2
  <1>7. CASE L[i][2] - n > 0
    <2> DEFINE e == <<o + n, L[i][2] - n>>
    <2>1. M = [L EXCEPT ![i] = e]
      BY <1>7 DEF TakeFrom
    <2>2. e \in Extents /\ e[1] = o + n /\ Beyond(e) = Beyond(L[i])
      <3>1. o + n \in Nat /\ L[i][2] - n \in Nat \ {0} /\ (o + n) + (L[i][2] - n) = o + L[i][2]
        BY <1>3, <1>7
      <3>2. e[1] = o + n /\ e[2] = L[i][2] - n
        OBVIOUS
      <3>3. e \in Extents
        BY <3>1 DEF Extents
      <3> QED
        BY <1>3, <3>1, <3>2, <3>3 DEF Beyond
    <2> HIDE DEF e
    <2>3. M \in Seq(Extents) /\ Len(M) = Len(L) /\ \A j \in 1..Len(L) : M[j] = IF j = i THEN e ELSE L[j]
      BY <1>1, <2>1, <2>2
    <2>a. L[i][1] = o /\ o \in Nat /\ o + n \in Nat /\ o <= o + n /\ Beyond(L[i]) \in Nat /\ o + n <= Beyond(L[i])
      <3> DEFINE z == L[i][2]
                 y == Beyond(L[i])
      <3>1. o \in Nat /\ z \in Nat /\ y = o + z /\ z - n > 0
        BY <1>3, <1>7
      <3> HIDE DEF o, z, y
      <3>2. o \in Nat /\ o + n \in Nat /\ o <= o + n /\ y \in Nat /\ o + n <= y
        BY <3>1
      <3> QED
        BY <3>2 DEF o, y
    <2> HIDE DEF M, L, o
    <2>4. \A j \in 1..Len(L) : Beyond(M[j]) = Beyond(L[j]) /\ M[j][1] = IF j = i THEN o + n ELSE L[j][1]
      BY <2>2, <2>3
    <2>b. ASSUME NEW k \in 1..Len(L) PROVE L[k][1] <= M[k][1] /\ M[k][1] \in Nat
      <3>1. CASE k = i
        BY <2>4, <2>a, <3>1
      <3>2. CASE k # i
        <4>1. M[k][1] = L[k][1] /\ L[k][1] \in Nat
          BY <1>2, <2>4, <3>2
        <4> QED
          BY <4>1
      <3> QED
        BY <3>1, <3>2
    <2>5. Chain(M)
      <3>1. ASSUME NEW j \in 1..Len(L), NEW k \in 1..Len(L), j < k PROVE Beyond(M[j]) <= M[k][1]
        <4>1. Beyond(L[j]) <= L[k][1]
          BY <1>1, <3>1
        <4>2. L[k][1] <= M[k][1] /\ M[k][1] \in Nat
          BY <2>b
        <4> QED
          BY <1>2, <2>4, <4>1, <4>2
      <3> QED
        BY <2>3, <3>1 DEF Chain
    <2>6. Touching(M) = {}
      <3>1. ASSUME NEW j \in 1..(Len(L) - 1) PROVE Beyond(M[j]) # M[j + 1][1]
        <4>1. j \in 1..Len(L) /\ j + 1 \in 1..Len(L) /\ j < j + 1
          BY <1>1
        <4>2. Beyond(L[j]) < L[j + 1][1]
          BY <1>1, <1>2, <1>4, <4>1
        <4>3. L[j + 1][1] <= M[j + 1][1] /\ M[j + 1][1] \in Nat
          BY <2>b, <4>1
        <4> QED
          BY <1>2, <2>4, <4>1, <4>2, <4>3
      <3> QED
        BY <2>3, <3>1 DEF Touching
    <2>7. ASSUME NEW x \in Int
          PROVE  x \in Covered(M) <=> x \in Covered(L) /\ ~ (o <= x /\ x < o + n)
      <3>1. x \in Covered(M) <=> \E j \in 1..Len(L) : M[j][1] <= x /\ x < Beyond(M[j])
        BY <2>3, CoveredIs
      <3>2. ASSUME NEW j \in 1..Len(L)
            PROVE  M[j][1] <= x /\ x < Beyond(M[j]) <=>
                     L[j][1] <= x /\ x < Beyond(L[j]) /\ ~ (o <= x /\ x < o + n)
        <4>1. CASE j = i
          BY <2>4, <2>a, <4>1
        <4>2. CASE j # i
          <5>1. ASSUME L[j][1] <= x, x < Beyond(L[j]) PROVE ~ (o <= x /\ x < o + n)
            <6>1. x < o \/ Beyond(L[i]) <= x
              BY <1>6, <4>2, <5>1
            <6> QED
              BY <2>a, <6>1
          <5> QED
            BY <2>4, <4>2, <5>1
        <4> QED
          BY <4>1, <4>2
      <3> QED
        BY <1>5, <3>1, <3>2
    <2> QED
      BY <2>5, <2>6, <2>7 DEF M, L, o
  <1>8. CASE ~ (L[i][2] - n > 0)
    <2>1. M = RemoveAt(L, i) /\ o + n = Beyond(L[i])
      BY <1>3, <1>8 DEF TakeFrom
    <2>2. /\ M \in Seq(Extents) /\ Len(M) = Len(L) - 1
          /\ \A j \in 1..(Len(L) - 1) : M[j] = IF j < i THEN L[j] ELSE L[j + 1]
      BY <1>1, <2>1, RemoveIs
    <2> HIDE DEF M, L, o
    <2>3. Chain(M)
      <3>1. ASSUME NEW j \in 1..(Len(L) - 1), NEW k \in 1..(Len(L) - 1), j < k PROVE Beyond(M[j]) <= M[k][1]
        <4> DEFINE a == IF j < i THEN j ELSE j + 1
                   b == IF k < i THEN k ELSE k + 1
        <4>1. a \in 1..Len(L) /\ b \in 1..Len(L) /\ a < b
          BY <1>1, <3>1
        <4>2. M[j] = L[a] /\ M[k] = L[b]
          BY <2>2
        <4> HIDE DEF a, b
        <4> QED
          BY <1>1, <4>1, <4>2
      <3> QED
        BY <2>2, <3>1 DEF Chain
    <2>4. Touching(M) = {}
      <3>1. ASSUME NEW j \in 1..((Len(L) - 1) - 1) PROVE Beyond(M[j]) # M[j + 1][1]
        <4>0. j \in 1..(Len(L) - 1) /\ j + 1 \in 1..(Len(L) - 1) /\ j + 2 \in 1..Len(L)
          BY <1>1
        <4>1. CASE j + 1 < i \/ j >= i
          <5> DEFINE a == IF j < i THEN j ELSE j + 1
          <5>1. a \in 1..(Len(L) - 1) /\ M[j] = L[a] /\ M[j + 1] = L[a + 1]
            BY <1>1, <2>2, <4>0, <4>1
          <5> HIDE DEF a
          <5> QED
            BY <1>4, <5>1
        <4>2. CASE j + 1 = i
          <5>1. M[j] = L[j] /\ M[j + 1] = L[j + 2]
            BY <1>1, <2>2, <4>0, <4>2
          <5>2. Beyond(L[j]) <= L[i][1] /\ Beyond(L[i]) <= L[j + 2][1]
            <6>1. j \in 1..Len(L) /\ j + 2 \in 1..Len(L) /\ j < i /\ i < j + 2
              BY <1>1, <4>0, <4>2
            <6> QED
              BY <1>1, <6>1
          <5>3. /\ L[i][1] \in Nat /\ Beyond(L[i]) \in Nat /\ L[i][1] < Beyond(L[i]) /\ Beyond(L[j]) \in Nat
                /\ L[j + 2][1] \in Nat
            BY <1>1, <1>2, <4>0
          <5>4. Beyond(L[j]) # L[j + 2][1]
            BY <5>2, <5>3
          <5> QED
            BY <5>1, <5>4
        <4> QED
          BY <1>1, <4>0, <4>1, <4>2
      <3> QED
        BY <2>2, <3>1 DEF Touching
    <2>5. ASSUME NEW x \in Int
          PROVE  x \in Covered(M) <=> x \in Covered(L) /\ ~ (o <= x /\ x < o + n)
      <3>1. x \in Covered(M) <=> \E j \in 1..Len(M) : M[j][1] <= x /\ x < Beyond(M[j])
        BY <2>2, CoveredIs
      <3>2. ASSUME NEW j \in 1..Len(M), M[j][1] <= x, x < Beyond(M[j])
            PROVE  x \in Covered(L) /\ ~ (o <= x /\ x < o + n)
        <4> DEFINE a == IF j < i THEN j ELSE j + 1
        <4>1. a \in 1..Len(L) /\ a # i /\ M[j] = L[a]
          BY <1>1, <2>2
        <4> HIDE DEF a
        <4>2. L[a][1] <= x /\ x < Beyond(L[a])
          BY <3>2, <4>1
        <4>3. x \in Covered(L)
          BY <1>5, <4>1, <4>2
        <4>4. x < o \/ Beyond(L[i]) <= x
          BY <1>6, <4>1, <4>2
        <4>5. o \in Nat /\ Beyond(L[i]) \in Nat
          BY <1>1, <1>2, <1>3
        <4> QED
          BY <2>1, <4>3, <4>4, <4>5
      <3>3. ASSUME NEW k \in 1..Len(L), L[k][1] <= x, x < Beyond(L[k]), ~ (o <= x /\ x < o + n)
            PROVE  \E j \in 1..Len(M) : M[j][1] <= x /\ x < Beyond(M[j])
        <4>1. k # i
          BY <2>1, <3>3 DEF o
        <4> DEFINE a == IF k < i THEN k ELSE k - 1
        <4>2. a \in 1..Len(M) /\ M[a] = L[k]
          BY <1>1, <2>2, <4>1
        <4> HIDE DEF a
        <4> QED
          BY <3>3, <4>2
      <3> QED
        BY <1>5, <3>1, <3>2, <3>3
    <2> QED
      BY <2>3, <2>4, <2>5 DEF M, L, o
  <1> QED
    BY <1>7, <1>8

\* In the invariant a block is free or in one extent of the index.
LEMMA FreeIs ==
    ASSUME AllocInv
    PROVE  /\ NBlocks \in Nat /\ FreeBlocks = Covered(free_list)
           /\ \A x \in Int : x \in FreeBlocks <=>
                x \in 0..(NBlocks - 1) /\ ~ \E e \in held : e[1] <= x /\ x < Beyond(e)
           /\ \A x \in Int : x \in FreeBlocks <=>
                \E i \in 1..Len(free_list) : free_list[i][1] <= x /\ x < Beyond(free_list[i])
           /\ \A i \in 1..Len(free_list) : free_list[i] \in Extents
  <1>1. NBlocks \in Nat
    BY AllocatorAssumption
  <1>2. FreeBlocks = Covered(free_list)
    BY DEF FreeBlocks, Covered
  <1>3. free_list \in Seq(Extents) /\ \A i \in 1..Len(free_list) : free_list[i] \in Extents
    BY ElementOfSeq DEF AllocInv, Chain
  <1>4. \A x \in Int : x \in Covered(free_list) <=>
            \E i \in 1..Len(free_list) : free_list[i][1] <= x /\ x < Beyond(free_list[i])
    BY <1>3, CoveredIs
  <1>5. held \in SUBSET Extents /\ FreeBlocks = (0..(NBlocks - 1)) \ Used(held)
    BY DEF AllocInv, HeldApart
  <1>6. \A x \in Int : x \in Used(held) <=> \E e \in held : e[1] <= x /\ x < Beyond(e)
    BY <1>5, UsedIs
  <1> QED
    BY <1>1, <1>2, <1>3, <1>4, <1>5, <1>6

\* The invariant from what the list and the index become.
LEMMA AllocInvFrom ==
    ASSUME NEW M, free_list' = M, Chain(M), Touching(M) = {}, HeldApart',
           \A x \in Int : x \in Covered(M) <=>
                x \in 0..(NBlocks - 1) /\ ~ \E e \in held' : e[1] <= x /\ x < Beyond(e)
    PROVE  AllocInv' /\ FreeBlocks' = Covered(M)
  <1>1. FreeBlocks' = Covered(M)
    BY DEF FreeBlocks, Covered
  <1>2. M \in Seq(Extents) /\ held' \in SUBSET Extents /\ NBlocks \in Nat
    BY AllocatorAssumption DEF Chain, HeldApart
  <1>3. Covered(M) \subseteq Nat /\ Used(held') \subseteq Nat
        /\ \A x \in Int : x \in Used(held') <=> \E e \in held' : e[1] <= x /\ x < Beyond(e)
    BY <1>2, CoveredIs, UsedIs
  <1>4. \A x : x \in Covered(M) <=> x \in (0..(NBlocks - 1)) \ Used(held')
    BY <1>2, <1>3
  <1>5. FreeBlocks' = (0..(NBlocks - 1)) \ Used(held')
    BY <1>1, <1>4
  <1>6. Chain(free_list)' /\ Touching(free_list)' = {}
    BY DEF Chain, Touching, Beyond
  <1>7. Used(held)' = Used(held')
    BY DEF Used
  <1> QED
    BY <1>1, <1>5, <1>6, <1>7 DEF AllocInv

\* alloc takes the lowest run of free blocks that is long enough.
LEMMA AllocStep ==
    ASSUME AllocInv, NEW n \in 1..MaxExtent, Alloc(n)
    PROVE  AllocInv' /\ Abstract!Alloc(n)
  <1> DEFINE L == free_list
  <1>1. PICK i \in Fitting(n) : /\ \A k \in Fitting(n) : i <= k
                                /\ last' = L[i][1] /\ held' = held \cup {<<L[i][1], n>>}
                                /\ L' = TakeFrom(i, n)
    <2>1. Fitting(n) \subseteq Nat /\ Fitting(n) # {}
      BY DEF AllocInv, Chain, Fitting, Alloc
    <2>2. \E i \in Fitting(n) : \A k \in Fitting(n) : i <= k
      BY <2>1, LeastNat
    <2> QED
      BY <2>2 DEF Alloc
  <1>2. n \in Nat \ {0} /\ i \in 1..Len(L) /\ n <= L[i][2] /\ Chain(L) /\ Touching(L) = {}
    BY AllocatorAssumption DEF AllocInv, Fitting, Chain
  <1> DEFINE o == L[i][1]
             e == <<o, n>>
  <1>3. /\ L[i] \in Extents /\ o \in Nat /\ L[i][2] \in Nat /\ Beyond(L[i]) = o + L[i][2]
    BY <1>2, FreeIs, ExtentIs DEF Beyond
  <1>4. e \in Extents /\ e[1] = o /\ e[2] = n /\ Beyond(e) = o + n
    BY <1>2, <1>3 DEF Extents, Beyond
  <1> DEFINE M == TakeFrom(i, n)
  <1>5. /\ free_list' = M /\ Chain(M) /\ Touching(M) = {}
        /\ \A x \in Int : x \in Covered(M) <=> x \in FreeBlocks /\ ~ (o <= x /\ x < o + n)
    <2>1. /\ Chain(M) /\ Touching(M) = {}
          /\ \A x \in Int : x \in Covered(M) <=> x \in Covered(L) /\ ~ (L[i][1] <= x /\ x < L[i][1] + n)
      BY <1>2, TakeFromIs
    <2> QED
      BY <1>1, <2>1, FreeIs
  <1>6. \A x \in Int : o <= x /\ x < o + n => x \in FreeBlocks
    BY <1>2, <1>3, FreeIs
  <1>h. held' = held \cup {e}
    BY <1>1
  <1> HIDE DEF e, o, M
  <1>7. HeldApart'
    <2>0. held \subseteq Extents /\ IsFiniteSet(held)
          /\ (\A d \in held : Beyond(d) <= NBlocks)
          /\ \A c, d \in held : d # c => Beyond(d) <= c[1] \/ Beyond(c) <= d[1]
      BY DEF AllocInv, HeldApart
    <2>1. held' \subseteq Extents /\ IsFiniteSet(held')
      BY <1>4, <1>h, <2>0, FS_AddElement
    <2>2. Beyond(e) <= NBlocks
      <3>1. o + n - 1 \in FreeBlocks /\ o + n - 1 \in Int
        BY <1>2, <1>3, <1>6
      <3>2. o + n - 1 \in 0..(NBlocks - 1) /\ NBlocks \in Nat
        BY <3>1, FreeIs
      <3> QED
        BY <1>2, <1>3, <1>4, <3>2 DEF o
    <2>3. ASSUME NEW d \in held PROVE Beyond(d) <= e[1] \/ Beyond(e) <= d[1]
      <3>1. ASSUME NEW x \in Nat, d[1] <= x, x < Beyond(d), e[1] <= x, x < Beyond(e) PROVE FALSE
        <4>1. x \in FreeBlocks
          BY <1>4, <1>6, <3>1
        <4> QED
          BY <2>3, <3>1, <4>1, FreeIs
      <3> QED
        BY <1>4, <2>0, <3>1, ApartExtents
    <2> QED
      BY <1>h, <2>0, <2>1, <2>2, <2>3 DEF HeldApart
  <1>8. AllocInv' /\ FreeBlocks' = Covered(M)
    <2>1. ASSUME NEW x \in Int
          PROVE  x \in Covered(M) <=> x \in 0..(NBlocks - 1) /\ ~ \E d \in held' : d[1] <= x /\ x < Beyond(d)
      BY <1>4, <1>5, <1>h, FreeIs
    <2> QED
      BY <1>5, <1>7, <2>1, AllocInvFrom
  <1>9. Abstract!Alloc(n)
    <2>1. o \in 0..(NBlocks - 1)
      <3>1. o \in Int /\ o <= o /\ o < o + n
        BY <1>2, <1>3 DEF o
      <3>2. o \in FreeBlocks
        BY <1>6, <3>1
      <3> QED
        BY <3>1, <3>2, FreeIs
    <2>2. Run(o, n) \subseteq FreeBlocks
      BY <1>2, <1>3, <1>6 DEF Run, o
    <2>3. ASSUME NEW q \in 0..(o - 1), Run(q, n) \subseteq FreeBlocks PROVE FALSE
      <3>1. q \in Nat /\ q < o /\ o \in Nat
        BY <1>3 DEF o
      <3>2. PICK k \in 1..Len(L) : L[k][1] <= q /\ q + n <= Beyond(L[k])
        BY <1>2, <2>3, <3>1, RunInEntry, FreeIs
      <3>3. L[k][1] \in Nat /\ L[k][2] \in Nat /\ Beyond(L[k]) = L[k][1] + L[k][2]
        BY FreeIs, ExtentIs DEF Beyond
      <3>4. k \in Fitting(n)
        BY <1>2, <3>1, <3>2, <3>3 DEF Fitting, Chain
      <3>5. i <= k
        BY <1>1, <3>4
      <3>6. o <= L[k][1]
        <4>1. CASE i = k
          BY <1>3, <4>1 DEF o
        <4>2. CASE i < k
          <5>1. Beyond(L[i]) <= L[k][1]
            BY <1>2, <4>2 DEF Chain
          <5> QED
            BY <1>3, <3>3, <5>1
        <4> QED
          BY <1>2, <3>5, <4>1, <4>2
      <3> QED
        BY <3>1, <3>2, <3>3, <3>6
    <2>4. FreeBlocks' = FreeBlocks \ Run(o, n)
      <3>1. \A x \in Int : x \in FreeBlocks' <=> x \in FreeBlocks \ Run(o, n)
        BY <1>2, <1>3, <1>5, <1>8 DEF Run, o
      <3>2. FreeBlocks \subseteq Int /\ FreeBlocks' \subseteq Int
        BY <1>8, AllocatorAssumption DEF AllocInv
      <3> QED
        BY <3>1, <3>2
    <2> QED
      BY <1>1, <2>1, <2>2, <2>3, <2>4 DEF Abstract!Alloc, Abstract!Blocks, Abstract!Fits, Abstract!Run, Run, o
  <1> QED
    BY <1>8, <1>9

\* alloc refuses only when no run of free blocks is long enough.
LEMMA RefuseStep ==
    ASSUME AllocInv, NEW n \in 1..MaxExtent, AllocNoSpace(n)
    PROVE  AllocInv' /\ Abstract!Refuse(n)
  <1>1. UNCHANGED <<free_list, held>> /\ last' = NoSpace /\ Fitting(n) = {}
    BY DEF AllocNoSpace
  <1>2. FreeBlocks' = FreeBlocks
    BY <1>1 DEF FreeBlocks
  <1>3. AllocInv'
    BY <1>1, <1>2 DEF AllocInv, Chain, Touching, HeldApart, Used, Beyond, Run
  <1>4. n \in Nat \ {0} /\ Chain(free_list) /\ Touching(free_list) = {}
    BY AllocatorAssumption DEF AllocInv
  <1>5. ASSUME NEW q \in 0..(NBlocks - 1), Run(q, n) \subseteq FreeBlocks PROVE FALSE
    <2>1. q \in Nat
      BY AllocatorAssumption
    <2>2. PICK k \in 1..Len(free_list) : free_list[k][1] <= q /\ q + n <= Beyond(free_list[k])
      BY <1>4, <1>5, <2>1, RunInEntry, FreeIs
    <2>3. /\ free_list[k][1] \in Nat /\ free_list[k][2] \in Nat
          /\ Beyond(free_list[k]) = free_list[k][1] + free_list[k][2]
      BY FreeIs, ExtentIs DEF Beyond
    <2>4. k \in Fitting(n)
      BY <1>4, <2>1, <2>2, <2>3 DEF Fitting, Chain
    <2> QED
      BY <1>1, <2>4
  <1> QED
    BY <1>1, <1>2, <1>3, <1>5 DEF Abstract!Refuse, Abstract!Blocks, Abstract!Fits, Abstract!Run, Run,
       Abstract!NoSpace, NoSpace

\* free gives the blocks of one extent back.
LEMMA FreeStep ==
    ASSUME AllocInv, NEW e \in held, Free(e[1], e[2])
    PROVE  AllocInv' /\ Abstract!Free(e[1], e[2])
  <1> DEFINE L == free_list
             M == FreeInto(L, e[1], e[2])
  <1>1. /\ held \subseteq Extents /\ IsFiniteSet(held)
        /\ (\A d \in held : Beyond(d) <= NBlocks)
        /\ \A c, d \in held : d # c => Beyond(d) <= c[1] \/ Beyond(c) <= d[1]
    BY DEF AllocInv, HeldApart
  <1>2. /\ e \in Extents /\ e = <<e[1], e[2]>> /\ e[1] \in Nat /\ Beyond(e) \in Nat
        /\ \A x \in Int : x \in Run(e[1], e[2]) <=> e[1] <= x /\ x < Beyond(e)
    BY <1>1, ExtentIs
  <1>3. free_list' = M /\ held' = held \ {e} /\ last' = last
    BY <1>2 DEF Free
  <1>4. ASSUME NEW i \in 1..Len(L) PROVE Beyond(L[i]) <= e[1] \/ Beyond(e) <= L[i][1]
    <2>1. L[i] \in Extents
      BY FreeIs
    <2>2. \A x \in Nat : ~ (L[i][1] <= x /\ x < Beyond(L[i]) /\ e[1] <= x /\ x < Beyond(e))
      BY FreeIs
    <2> QED
      BY <1>2, <2>1, <2>2, ApartExtents
  <1>5. Chain(M) /\ Touching(M) = {} /\ Covered(M) = Covered(L) \cup Run(e[1], e[2])
    BY <1>2, <1>4, FreeIntoIs DEF AllocInv
  <1> HIDE DEF M
  <1>6. HeldApart'
    <2>1. held' \subseteq held /\ IsFiniteSet(held')
      BY <1>1, <1>3, FS_Subset
    <2> QED
      BY <1>1, <2>1 DEF HeldApart
  <1>7. ASSUME NEW x \in Int
        PROVE  x \in Covered(M) <=> x \in 0..(NBlocks - 1) /\ ~ \E d \in held' : d[1] <= x /\ x < Beyond(d)
    <2>1. x \in Covered(M) <=> x \in FreeBlocks \/ (e[1] <= x /\ x < Beyond(e))
      BY <1>2, <1>5, FreeIs
    <2>2. x \in FreeBlocks <=> x \in 0..(NBlocks - 1) /\ ~ \E d \in held : d[1] <= x /\ x < Beyond(d)
      BY FreeIs
    <2>3. CASE e[1] <= x /\ x < Beyond(e)
      <3>1. x \in 0..(NBlocks - 1)
        <4>1. Beyond(e) <= NBlocks /\ NBlocks \in Nat
          BY <1>1, FreeIs
        <4> QED
          BY <1>2, <2>3, <4>1
      <3>2. ASSUME NEW d \in held, d # e, d[1] <= x, x < Beyond(d) PROVE FALSE
        <4>1. Beyond(d) <= e[1] \/ Beyond(e) <= d[1]
          BY <1>1, <3>2
        <4>2. d[1] \in Nat /\ Beyond(d) \in Nat
          BY <1>1, ExtentIs
        <4> QED
          BY <1>2, <2>3, <3>2, <4>1, <4>2
      <3> QED
        BY <1>3, <2>1, <2>3, <3>1, <3>2
    <2>4. CASE ~ (e[1] <= x /\ x < Beyond(e))
      BY <1>3, <2>1, <2>2, <2>4
    <2> QED
      BY <2>3, <2>4
  <1>8. AllocInv' /\ FreeBlocks' = Covered(M)
    BY <1>3, <1>5, <1>6, <1>7, AllocInvFrom
  <1>9. FreeBlocks' = FreeBlocks \cup Run(e[1], e[2])
    BY <1>5, <1>8, FreeIs
  <1> QED
    BY <1>2, <1>3, <1>8, <1>9 DEF Abstract!Free, Abstract!Run, Run

\* Extents that lie apart, in the order of their offsets: a chain of them all.
LEMMA ByOffsetIs ==
    ASSUME NEW S \in SUBSET Extents, IsFiniteSet(S),
           \A d, e \in S : d # e => Beyond(d) <= e[1] \/ Beyond(e) <= d[1]
    PROVE  LET q == ByOffset(S)
           IN  Chain(q) /\ q \in Seq(S) /\ \A e \in S : \E i \in 1..Len(q) : q[i] = e
  <1> DEFINE n == Cardinality(S)
             Below(s) == {d \in S : d[1] < s[1]}
             rank == [s \in S |-> Cardinality(Below(s))]
             T == 0..(n - 1)
             q == ByOffset(S)
  <1>0. \A e \in S : e[1] \in Nat /\ Beyond(e) \in Nat /\ e[1] < Beyond(e)
    BY ExtentIs
  <1>1. n \in Nat
    BY FS_CardinalityType
  <1>2. ASSUME NEW s \in S
        PROVE  IsFiniteSet(Below(s)) /\ Cardinality(Below(s)) \in T
    <2>1. Below(s) \in SUBSET S /\ s \notin Below(s)
      BY <1>0
    <2> HIDE DEF Below
    <2>2. IsFiniteSet(Below(s)) /\ Cardinality(Below(s)) <= n /\ (n = Cardinality(Below(s)) => S = Below(s))
      BY <2>1, FS_Subset
    <2>3. Cardinality(Below(s)) \in Nat
      BY <2>2, FS_CardinalityType
    <2>4. Cardinality(Below(s)) # n
      BY <2>1, <2>2
    <2> HIDE DEF n
    <2> QED
      BY <1>1, <2>2, <2>3, <2>4
  <1>3. ASSUME NEW r \in S, NEW s \in S, r[1] < s[1]
        PROVE  Cardinality(Below(r)) < Cardinality(Below(s))
    <2>1. Below(r) \in SUBSET Below(s) /\ r \in Below(s) /\ r \notin Below(r)
      BY <1>0, <1>3
    <2> HIDE DEF Below
    <2>2. /\ Cardinality(Below(r)) <= Cardinality(Below(s))
          /\ Cardinality(Below(s)) = Cardinality(Below(r)) => Below(s) = Below(r)
      BY <1>2, <2>1, FS_Subset
    <2>3. Cardinality(Below(r)) \in Nat /\ Cardinality(Below(s)) \in Nat
      BY <1>2, FS_CardinalityType
    <2>4. Cardinality(Below(s)) # Cardinality(Below(r))
      BY <2>1, <2>2
    <2> QED
      BY <2>2, <2>3, <2>4
  <1>4. rank \in [S -> T] /\ \A s \in S : rank[s] = Cardinality(Below(s))
    BY <1>2
  <1>5. ASSUME NEW r \in S, NEW s \in S, r # s
        PROVE  r[1] < s[1] \/ s[1] < r[1]
    BY <1>0, <1>5
  <1>6. ASSUME NEW r \in S, NEW s \in S, rank[r] = rank[s] PROVE r = s
    <2>1. rank[r] \in Int /\ rank[s] \in Int
      <3>1. rank[r] \in T /\ rank[s] \in T
        BY <1>4
      <3> HIDE DEF rank
      <3> QED
        BY <3>1
    <2>2. r[1] < s[1] => rank[r] < rank[s]
      BY <1>3, <1>4
    <2>3. s[1] < r[1] => rank[s] < rank[r]
      BY <1>3, <1>4
    <2> HIDE DEF rank
    <2>4. ~ (r[1] < s[1]) /\ ~ (s[1] < r[1])
      BY <1>6, <2>1, <2>2, <2>3
    <2> QED
      BY <1>5, <2>4
  <1>7. IsFiniteSet(T) /\ Cardinality(T) = n
    <2> HIDE DEF n
    <2>1. 0 \in Int /\ n - 1 \in Int
      BY <1>1
    <2>2. IsFiniteSet(T) /\ Cardinality(T) = IF 0 > n - 1 THEN 0 ELSE n - 1 - 0 + 1
      BY <2>1, FS_Interval
    <2> HIDE DEF T
    <2> QED
      BY <1>1, <2>2
  <1> HIDE DEF rank, T
  <1>8. rank \in Injection(S, T)
    BY <1>4, <1>6 DEF Injection, IsInjective
  <1>9. rank \in Surjection(S, T)
    BY <1>7, <1>8, FS_Injection
  <1>10. \A t \in T : \E s \in S : rank[s] = t
    BY <1>9 DEF Surjection
  <1>11. ASSUME NEW i \in 1..n
         PROVE  q[i] \in S /\ rank[q[i]] = i - 1
    <2>1. q[i] = CHOOSE e \in S : Cardinality({d \in S : d[1] < e[1]}) = i - 1
      BY DEF ByOffset
    <2>2. i - 1 \in T
      <3> HIDE DEF n
      <3> QED
        BY <1>1 DEF T
    <2>3. \E e \in S : Cardinality({d \in S : d[1] < e[1]}) = i - 1
      BY <1>4, <1>10, <2>2
    <2>4. q[i] \in S /\ Cardinality({d \in S : d[1] < q[i][1]}) = i - 1
      BY <2>1, <2>3
    <2> HIDE DEF q
    <2> QED
      BY <1>4, <2>4
  <1>12. q = [i \in 1..n |-> q[i]]
    <2> DEFINE op(i) == CHOOSE e \in S : Cardinality({d \in S : d[1] < e[1]}) = i - 1
    <2>1. q = [i \in 1..n |-> op(i)]
      BY Zenon DEF ByOffset
    <2> HIDE DEF op, n, q
    <2> QED
      BY <2>1
  <1> HIDE DEF n, q
  <1>13. q \in Seq(S) /\ Len(q) = n /\ q \in Seq(Extents)
    BY <1>1, <1>11, <1>12
  <1>14. ASSUME NEW i \in 1..n, NEW j \in 1..n, i < j
         PROVE  Beyond(q[i]) <= q[j][1]
    <2>1. /\ q[i] \in S /\ rank[q[i]] = i - 1 /\ q[j] \in S /\ rank[q[j]] = j - 1
      BY <1>11
    <2>2. i - 1 < j - 1 /\ i - 1 # j - 1 /\ ~ (j - 1 < i - 1)
      BY <1>1, <1>14
    <2>3. q[i] # q[j] /\ ~ (q[j][1] < q[i][1])
      BY <1>3, <1>4, <2>1, <2>2
    <2>4. Beyond(q[i]) <= q[j][1] \/ Beyond(q[j]) <= q[i][1]
      BY <2>1, <2>3
    <2> QED
      BY <1>0, <2>1, <2>3, <2>4
  <1>15. Chain(q)
    BY <1>13, <1>14 DEF Chain
  <1>16. ASSUME NEW e \in S PROVE \E i \in 1..Len(q) : q[i] = e
    <2>1. rank[e] \in T
      BY <1>4
    <2>2. rank[e] + 1 \in 1..n /\ (rank[e] + 1) - 1 = rank[e]
      BY <1>1, <2>1 DEF T
    <2>3. q[rank[e] + 1] \in S /\ rank[q[rank[e] + 1]] = rank[e]
      BY <1>11, <2>2
    <2> QED
      BY <1>6, <1>13, <2>2, <2>3
  <1> QED
    BY <1>13, <1>15, <1>16 DEF q

\* The gaps between the extents of the index are extents inside the data area
\* that do not even touch, and they have the blocks that no object has.
LEMMA GapsAre ==
    ASSUME AllocInv
    PROVE  /\ Gaps \subseteq Extents /\ IsFiniteSet(Gaps)
           /\ \A g \in Gaps : Beyond(g) <= NBlocks
           /\ \A g, h \in Gaps : g # h => Beyond(g) < h[1] \/ Beyond(h) < g[1]
           /\ \A x \in Int : (\E g \in Gaps : g[1] <= x /\ x < Beyond(g)) <=>
                x \in 0..(NBlocks - 1) /\ ~ \E e \in held : e[1] <= x /\ x < Beyond(e)
  <1> DEFINE q == ByOffset(held)
             m == Len(q)
             start(i) == IF i = 1 THEN 0 ELSE q[i - 1][1] + q[i - 1][2]
             stop(i) == IF i > m THEN NBlocks ELSE q[i][1]
             J == {j \in 1..(m + 1) : stop(j) > start(j)}
             gap(i) == <<start(i), stop(i) - start(i)>>
  <1>1. /\ held \in SUBSET Extents /\ IsFiniteSet(held)
        /\ (\A d \in held : Beyond(d) <= NBlocks)
        /\ \A d, e \in held : d # e => Beyond(d) <= e[1] \/ Beyond(e) <= d[1]
    BY DEF AllocInv, HeldApart
  <1>2. Chain(q) /\ q \in Seq(held) /\ \A e \in held : \E i \in 1..Len(q) : q[i] = e
    BY <1>1, ByOffsetIs
  <1>3. Gaps = {gap(i) : i \in J}
    BY DEF Gaps
  <1> HIDE DEF q
  <1>4. m \in Nat /\ NBlocks \in Nat
    BY <1>2, AllocatorAssumption
  <1>5. \A i \in 1..m : /\ q[i] \in held /\ q[i][1] \in Nat /\ Beyond(q[i]) \in Nat /\ q[i][1] < Beyond(q[i])
                        /\ Beyond(q[i]) = q[i][1] + q[i][2] /\ Beyond(q[i]) <= NBlocks
    BY <1>1, <1>2, ElementOfSeq, ExtentIs DEF Beyond
  <1>6. \A i, j \in 1..m : i < j => Beyond(q[i]) <= q[j][1]
    BY <1>2 DEF Chain
  <1> HIDE DEF m
  <1>7. /\ start(1) = 0 /\ stop(m + 1) = NBlocks
        /\ \A i \in 2..(m + 1) : i - 1 \in 1..m /\ start(i) = Beyond(q[i - 1])
        /\ \A i \in 1..m : stop(i) = q[i][1]
    BY <1>4, <1>5
  <1> HIDE DEF start, stop
  <1>8. \A i \in 1..(m + 1) : start(i) \in Nat /\ stop(i) \in Nat /\ stop(i) <= NBlocks
    <2>1. ASSUME NEW i \in 1..(m + 1) PROVE start(i) \in Nat
      <3>1. i = 1 \/ i \in 2..(m + 1)
        BY <1>4
      <3> QED
        BY <1>5, <1>7, <3>1
    <2>2. ASSUME NEW i \in 1..(m + 1) PROVE stop(i) \in Nat /\ stop(i) <= NBlocks
      <3>1. i = m + 1 \/ i \in 1..m
        BY <1>4
      <3>2. CASE i = m + 1
        BY <1>4, <1>7, <3>2
      <3>3. CASE i \in 1..m
        <4>1. stop(i) = q[i][1]
          BY <1>7, <3>3
        <4> QED
          BY <1>4, <1>5, <3>3, <4>1
      <3> QED
        BY <3>1, <3>2, <3>3
    <2> QED
      BY <2>1, <2>2
  <1>9. ASSUME NEW i \in 1..(m + 1), NEW j \in 1..(m + 1), i < j PROVE stop(i) < start(j)
    <2>1. i \in 1..m /\ j \in 2..(m + 1) /\ j - 1 \in 1..m
      BY <1>4, <1>9
    <2>2. stop(i) = q[i][1] /\ start(j) = Beyond(q[j - 1])
      BY <1>7, <2>1
    <2>3. CASE i = j - 1
      BY <1>5, <2>1, <2>2, <2>3
    <2>4. CASE i < j - 1
      <3>1. Beyond(q[i]) <= q[j - 1][1]
        BY <1>6, <2>1, <2>4
      <3> QED
        BY <1>5, <2>1, <2>2, <3>1
    <2> QED
      BY <1>4, <1>9, <2>3, <2>4
  <1>10. \A i \in J : i \in 1..(m + 1) /\ start(i) < stop(i)
    BY <1>8
  <1>11. ASSUME NEW i \in J
         PROVE  gap(i) \in Extents /\ gap(i)[1] = start(i) /\ Beyond(gap(i)) = stop(i)
    <2>1. start(i) \in Nat /\ stop(i) \in Nat /\ start(i) < stop(i)
      BY <1>8, <1>10
    <2>2. stop(i) - start(i) \in Nat \ {0} /\ start(i) + (stop(i) - start(i)) = stop(i)
      BY <2>1
    <2>3. gap(i)[1] = start(i) /\ gap(i)[2] = stop(i) - start(i)
      OBVIOUS
    <2>4. gap(i) \in Extents
      BY <2>1, <2>2 DEF Extents
    <2> QED
      BY <2>2, <2>3, <2>4 DEF Beyond
  <1>12. IsFiniteSet(Gaps)
    <2>1. 1 \in Int /\ m + 1 \in Int
      BY <1>4
    <2>2. IsFiniteSet(1..(m + 1))
      BY <2>1, FS_Interval
    <2>3. IsFiniteSet(J)
      <3>1. J \in SUBSET (1..(m + 1))
        OBVIOUS
      <3> HIDE DEF J
      <3> QED
        BY <2>2, <3>1, FS_Subset
    <2> DEFINE f == [i \in J |-> gap(i)]
    <2>4. f \in Surjection(J, Gaps)
      <3> HIDE DEF J, gap
      <3> QED
        BY <1>3 DEF Surjection
    <2> QED
      BY <2>3, <2>4, FS_Surjection
  <1>13. \A g \in Gaps : \E i \in J : g = gap(i)
    BY <1>3
  <1>14. \A i \in J : gap(i) \in Gaps
    BY <1>3
  <1> HIDE DEF gap, J
  <1>15. ASSUME NEW g \in Gaps, NEW h \in Gaps, g # h PROVE Beyond(g) < h[1] \/ Beyond(h) < g[1]
    <2>1. PICK i \in J : g = gap(i)
      BY <1>13
    <2>2. PICK j \in J : h = gap(j)
      BY <1>13
    <2>3. i \in 1..(m + 1) /\ j \in 1..(m + 1) /\ i # j
      BY <1>10, <1>15, <2>1, <2>2
    <2>4. i < j \/ j < i
      BY <1>4, <2>3
    <2> QED
      BY <1>9, <1>11, <2>1, <2>2, <2>3, <2>4
  <1>16. \A g \in Gaps : g \in Extents /\ Beyond(g) <= NBlocks
    BY <1>8, <1>10, <1>11, <1>13
  <1>17. ASSUME NEW x \in Int, NEW g \in Gaps, g[1] <= x, x < Beyond(g)
         PROVE  x \in 0..(NBlocks - 1) /\ ~ \E e \in held : e[1] <= x /\ x < Beyond(e)
    <2>1. PICK i \in J : g = gap(i)
      BY <1>13
    <2>2. /\ i \in 1..(m + 1) /\ start(i) <= x /\ x < stop(i)
          /\ start(i) \in Nat /\ stop(i) \in Nat /\ stop(i) <= NBlocks
      BY <1>8, <1>10, <1>11, <1>17, <2>1
    <2>3. x \in 0..(NBlocks - 1)
      BY <1>4, <2>2
    <2>4. ASSUME NEW k \in 1..m, q[k][1] <= x, x < Beyond(q[k]) PROVE FALSE
      <3>1. CASE k < i
        <4>1. i \in 2..(m + 1) /\ i - 1 \in 1..m
          BY <1>4, <2>2, <3>1
        <4>2. start(i) = Beyond(q[i - 1])
          BY <1>7, <4>1
        <4>3. CASE k = i - 1
          BY <1>5, <2>2, <2>4, <4>2, <4>3
        <4>4. CASE k < i - 1
          <5>1. Beyond(q[k]) <= q[i - 1][1]
            BY <1>6, <4>1, <4>4
          <5> QED
            BY <1>5, <2>2, <2>4, <4>1, <4>2, <5>1
        <4> QED
          BY <1>4, <2>2, <3>1, <4>3, <4>4
      <3>2. CASE k = i
        BY <1>5, <1>7, <2>2, <2>4, <3>2
      <3>3. CASE k > i
        <4>1. i \in 1..m
          BY <1>4, <2>2, <3>3
        <4>2. stop(i) = q[i][1] /\ Beyond(q[i]) <= q[k][1]
          BY <1>6, <1>7, <3>3, <4>1
        <4> QED
          BY <1>5, <2>2, <2>4, <4>1, <4>2
      <3> QED
        BY <1>4, <2>2, <3>1, <3>2, <3>3
    <2>5. \A e \in held : ~ (e[1] <= x /\ x < Beyond(e))
      BY <1>2, <2>4 DEF m
    <2> QED
      BY <2>3, <2>5
  <1>18. ASSUME NEW x \in 0..(NBlocks - 1), ~ \E e \in held : e[1] <= x /\ x < Beyond(e)
         PROVE  \E g \in Gaps : g[1] <= x /\ x < Beyond(g)
    <2> DEFINE U == {i \in 1..(m + 1) : x < stop(i)}
    <2>1. U \subseteq Nat /\ m + 1 \in U /\ x \in Nat
      BY <1>4, <1>7
    <2>2. PICK i \in U : \A k \in U : i <= k
      BY <2>1, LeastNat
    <2>3. i \in 1..(m + 1) /\ x < stop(i)
      OBVIOUS
    <2>4. start(i) <= x
      <3>1. CASE i = 1
        BY <1>7, <2>1, <3>1
      <3>2. CASE i # 1
        <4>1. i \in 2..(m + 1) /\ i - 1 \in 1..m /\ i - 1 \in 1..(m + 1) /\ ~ (i <= i - 1)
          BY <1>4, <2>3, <3>2
        <4>2. i - 1 \notin U
          BY <2>2, <4>1
        <4>3. ~ (x < stop(i - 1))
          BY <4>1, <4>2
        <4>4. stop(i - 1) = q[i - 1][1] /\ start(i) = Beyond(q[i - 1]) /\ q[i - 1] \in held
          BY <1>5, <1>7, <4>1
        <4>5. ~ (q[i - 1][1] <= x /\ x < Beyond(q[i - 1])) /\ q[i - 1][1] \in Nat /\ Beyond(q[i - 1]) \in Nat
          BY <1>5, <1>18, <4>1, <4>4
        <4> QED
          BY <2>1, <4>3, <4>4, <4>5
      <3> QED
        BY <3>1, <3>2
    <2>5. i \in J
      BY <1>8, <2>1, <2>3, <2>4 DEF J
    <2> QED
      BY <1>11, <1>14, <2>3, <2>4, <2>5
  <1> QED
    BY <1>12, <1>15, <1>16, <1>17, <1>18

\* open and repair derive the list that the calls have kept.
LEMMA RebuildStep ==
    ASSUME AllocInv, Rebuild
    PROVE  AllocInv' /\ UNCHANGED Abstract!fvars
  <1> DEFINE M == ByOffset(Gaps)
  <1>1. /\ Gaps \in SUBSET Extents /\ IsFiniteSet(Gaps)
        /\ \A g \in Gaps : Beyond(g) <= NBlocks
        /\ \A g, h \in Gaps : g # h => Beyond(g) < h[1] \/ Beyond(h) < g[1]
        /\ \A x \in Int : (\E g \in Gaps : g[1] <= x /\ x < Beyond(g)) <=>
             x \in 0..(NBlocks - 1) /\ ~ \E e \in held : e[1] <= x /\ x < Beyond(e)
    BY GapsAre
  <1>2. \A g \in Gaps : g[1] \in Nat /\ g[2] \in Nat /\ g[2] > 0 /\ Beyond(g) \in Nat /\ Beyond(g) = g[1] + g[2]
                        /\ g[1] < Beyond(g)
    BY <1>1, ExtentIs DEF Beyond
  <1>3. Gaps = {g \in Gaps : g[2] > 0 /\ g[1] >= 0 /\ g[1] + g[2] <= NBlocks}
    BY <1>1, <1>2
  <1>4. free_list' = M /\ held' = held /\ last' = last
    BY <1>3, Zenon DEF Rebuild, Restored
  <1>5. \A g, h \in Gaps : g # h => Beyond(g) <= h[1] \/ Beyond(h) <= g[1]
    BY <1>1, <1>2
  <1>6. Chain(M) /\ M \in Seq(Gaps) /\ \A g \in Gaps : \E i \in 1..Len(M) : M[i] = g
    BY <1>1, <1>5, ByOffsetIs
  <1> HIDE DEF M
  <1>7. Len(M) \in Nat /\ M \in Seq(Extents) /\ \A i \in 1..Len(M) : M[i] \in Gaps
    BY <1>6, ElementOfSeq DEF Chain
  <1>8. Touching(M) = {}
    <2>1. ASSUME NEW i \in Touching(M) PROVE FALSE
      <3>1. i \in 1..Len(M) /\ i + 1 \in 1..Len(M) /\ i < i + 1 /\ Beyond(M[i]) = M[i + 1][1]
        BY <1>7 DEF Touching
      <3>2. M[i] \in Gaps /\ M[i + 1] \in Gaps
        BY <1>7, <3>1
      <3>3. M[i] # M[i + 1]
        BY <1>2, <3>1, <3>2
      <3>4. Beyond(M[i]) < M[i + 1][1] \/ Beyond(M[i + 1]) < M[i][1]
        BY <1>1, <3>2, <3>3
      <3> QED
        BY <1>2, <3>1, <3>2, <3>4
    <2> QED
      BY <2>1
  <1>9. ASSUME NEW x \in Int
        PROVE  x \in Covered(M) <=> x \in 0..(NBlocks - 1) /\ ~ \E e \in held' : e[1] <= x /\ x < Beyond(e)
    <2>1. x \in Covered(M) <=> \E i \in 1..Len(M) : M[i][1] <= x /\ x < Beyond(M[i])
      BY <1>7, CoveredIs
    <2>2. x \in Covered(M) <=> \E g \in Gaps : g[1] <= x /\ x < Beyond(g)
      BY <1>6, <1>7, <2>1
    <2> QED
      BY <1>1, <1>4, <2>2
  <1>10. HeldApart'
    BY <1>4 DEF AllocInv, HeldApart, Beyond
  <1>11. AllocInv' /\ FreeBlocks' = Covered(M)
    BY <1>4, <1>6, <1>8, <1>9, <1>10, AllocInvFrom
  <1>12. FreeBlocks' = FreeBlocks
    <2>1. \A x \in Int : x \in FreeBlocks' <=> x \in FreeBlocks
      BY <1>4, <1>9, <1>11, FreeIs
    <2>2. FreeBlocks \subseteq Int /\ FreeBlocks' \subseteq Int
      BY <1>11, AllocatorAssumption DEF AllocInv
    <2> QED
      BY <2>1, <2>2
  <1> QED
    BY <1>4, <1>11, <1>12 DEF Abstract!fvars

\* A new allocator has one extent, the whole data area.
LEMMA AllocStart == AllocInit => AllocInv /\ Abstract!Init
  <1> SUFFICES ASSUME AllocInit PROVE AllocInv /\ Abstract!Init
    OBVIOUS
  <1> DEFINE e == <<0, NBlocks>>
  <1>1. free_list = <<e>> /\ held = {} /\ last = NoSpace
    BY DEF AllocInit
  <1>2. e \in Extents /\ NBlocks \in Nat
    BY AllocatorAssumption DEF Extents
  <1>3. e[1] = 0 /\ e[2] = NBlocks
    OBVIOUS
  <1> HIDE DEF e
  <1>4. free_list \in Seq(Extents) /\ Len(free_list) = 1 /\ free_list[1] = e /\ DOMAIN free_list = {1}
    BY <1>1, <1>2
  <1>5. Chain(free_list) /\ Touching(free_list) = {}
    BY <1>4 DEF Chain, Touching
  <1>6. HeldApart
    BY <1>1, FS_EmptySet DEF HeldApart
  <1>7. FreeBlocks = Run(0, NBlocks)
    BY <1>3, <1>4 DEF FreeBlocks
  <1>8. Run(0, NBlocks) = 0..(NBlocks - 1) /\ Used(held) = {}
    BY <1>1, <1>2 DEF Run, Used
  <1>9. AllocInv
    BY <1>5, <1>6, <1>7, <1>8 DEF AllocInv
  <1> QED
    BY <1>1, <1>7, <1>8, <1>9 DEF Abstract!Init, Abstract!Blocks, Abstract!NoSpace, NoSpace

\* Every step of the allocator is a step of the set of free blocks, or, for the
\* rebuild of the list, no step of it at all.
LEMMA AllocKeeps == AllocInv /\ [AllocNext]_avars => AllocInv' /\ [Abstract!Next]_(Abstract!fvars)
  <1> SUFFICES ASSUME AllocInv, [AllocNext]_avars
               PROVE  AllocInv' /\ [Abstract!Next]_(Abstract!fvars)
    OBVIOUS
  <1>1. ASSUME NEW n \in 1..MaxExtent, Alloc(n)
        PROVE  AllocInv' /\ Abstract!Next
    BY <1>1, AllocStep DEF Abstract!Next
  <1>2. ASSUME NEW n \in 1..MaxExtent, AllocNoSpace(n)
        PROVE  AllocInv' /\ Abstract!Next
    BY <1>2, RefuseStep DEF Abstract!Next
  <1>3. ASSUME NEW e \in held, Free(e[1], e[2])
        PROVE  AllocInv' /\ Abstract!Next
    BY <1>3, FreeStep DEF Abstract!Next
  <1>4. CASE Rebuild
    BY <1>4, RebuildStep
  <1>5. CASE UNCHANGED avars
    BY <1>5 DEF avars, AllocInv, HeldApart, Chain, Touching, Used, FreeBlocks, Run, Beyond, Abstract!fvars
  <1> QED
    BY <1>1, <1>2, <1>3, <1>4, <1>5 DEF AllocNext

\* The free list of rawobjstr/src/allocator.rs implements the set-of-blocks
\* allocator that store.rs is written against: alloc takes the lowest run of
\* free blocks that is long enough and refuses only when there is none, free
\* returns exactly the extent's blocks, and the list that open and repair derive
\* from the index has the blocks the calls have kept.
THEOREM FreeListImplementsFreeSpace == AllocSpec => ImplementsFreeSpace
  <1>1. AllocInit => AllocInv /\ Abstract!Init
    BY AllocStart
  <1>2. AllocInv /\ [AllocNext]_avars => AllocInv' /\ [Abstract!Next]_(Abstract!fvars)
    BY AllocKeeps
  <1> QED
    BY <1>1, <1>2, PTL DEF AllocSpec, ImplementsFreeSpace, Abstract!Spec

-----------------------------------------------------------------------------
(* The block codec.  Cell r of block k is cell (k - 1) * BlockData + r of   *)
(* what is written.                                                         *)

\* Products by the size of a block.
LEMMA Multiples ==
    ASSUME NEW b \in Nat \ {0}, NEW j \in Nat, NEW k \in Nat
    PROVE  /\ j * b \in Nat /\ (j + 1) * b = j * b + b
           /\ j <= k => j * b <= k * b
           /\ j < k => j * b + b <= k * b
  OBVIOUS

LEMMA Place ==
    ASSUME NEW b \in Nat \ {0}, NEW k \in Nat, NEW r \in 0..(b - 1)
    PROVE  (k * b + r) \div b = k /\ (k * b + r) % b = r
  <1> DEFINE x == k * b + r
             q == x \div b
             s == x % b
  <1>1. x \in Nat
    BY Multiples
  <1>2. q \in Nat /\ s \in 0..(b - 1) /\ x = q * b + s
    BY <1>1, Quotient
  <1>3. q * b + s = k * b + r
    BY <1>2
  <1> HIDE DEF q, s, x
  <1>4. ~ (q < k)
    BY <1>2, <1>3, Multiples
  <1>5. ~ (k < q)
    BY <1>2, <1>3, Multiples
  <1>6. q = k
    BY <1>2, <1>4, <1>5
  <1>7. q * b = k * b /\ q * b \in Nat /\ k * b \in Nat
    BY <1>2, <1>6, Multiples
  <1>8. s = r
    BY <1>2, <1>3, <1>7
  <1> QED
    BY <1>6, <1>8 DEF q, s, x

\* num_blocks: as many blocks as begin inside the payload.
LEMMA BlocksOf ==
    ASSUME NEW n \in Nat
    PROVE  /\ NumBlocks(n) \in Nat /\ n <= NumBlocks(n) * BlockData
           /\ \A k \in Nat : k < NumBlocks(n) <=> k * BlockData < n
  <1> DEFINE b == BlockData
             x == n + b - 1
             q == x \div b
             s == x % b
  <1>0. b \in Nat \ {0}
    BY CodecAssumption
  <1>1. x \in Nat
    BY <1>0
  <1>2. q \in Nat /\ s \in 0..(b - 1) /\ x = q * b + s
    BY <1>0, <1>1, Quotient
  <1>3. NumBlocks(n) = q
    BY DEF NumBlocks
  <1>4. n + b - 1 = q * b + s /\ q * b \in Nat
    BY <1>0, <1>2, Multiples
  <1> HIDE DEF q, s, x
  <1>5. n <= q * b /\ q * b < n + b
    BY <1>0, <1>2, <1>4
  <1>6. ASSUME NEW k \in Nat PROVE k < q <=> k * b < n
    <2>1. k * b \in Nat /\ (k < q => k * b + b <= q * b) /\ (q <= k => q * b <= k * b)
      BY <1>0, <1>2, Multiples
    <2> HIDE DEF b
    <2>2. CASE k < q
      BY <1>0, <1>2, <1>4, <1>5, <2>1, <2>2
    <2>3. CASE q <= k
      BY <1>0, <1>2, <1>4, <1>5, <2>1, <2>3
    <2> QED
      BY <1>2, <2>2, <2>3
  <1> QED
    BY <1>2, <1>3, <1>5, <1>6

\* What the writer has of the payload c: full blocks f, the block being filled,
\* the rest of the chunk being fed, and what has not been fed.
Laid(T, c, f, part, data, left) ==
    /\ f \in Seq([1..BlockData -> T]) /\ part \in Seq(T) /\ data \in Seq(T) /\ left \in Seq(T)
    /\ Len(part) < BlockData
    /\ Len(f) * BlockData + Len(part) + Len(data) + Len(left) = Len(c)
    /\ \A k \in 1..Len(f) : \A r \in 1..BlockData : f[k][r] = c[(k - 1) * BlockData + r]
    /\ \A i \in 1..Len(part) : part[i] = c[Len(f) * BlockData + i]
    /\ \A i \in 1..Len(data) : data[i] = c[Len(f) * BlockData + Len(part) + i]
    /\ \A i \in 1..Len(left) : left[i] = c[Len(f) * BlockData + Len(part) + Len(data) + i]

\* The payload c is at the beginning of the blocks d.
Stored(T, c, d) ==
    /\ Len(d) \in Nat /\ NumBlocks(Len(c)) < Len(d)
    /\ \A k \in 1..NumBlocks(Len(c)) : d[k] \in [1..BlockData -> T]
    /\ \A x \in 0..(Len(c) - 1) : d[(x \div BlockData) + 1][(x % BlockData) + 1] = c[x + 1]

\* write_chunk is called with the next n cells.
LEMMA LaidChunk ==
    ASSUME NEW T, NEW c \in Seq(T), NEW f, NEW part, NEW left, Laid(T, c, f, part, <<>>, left),
           NEW n \in Nat, n <= Len(left)
    PROVE  Laid(T, c, f, part, SubSeq(left, 1, n), SubSeq(left, n + 1, Len(left)))
  <1> DEFINE b == Len(f) * BlockData
             d == SubSeq(left, 1, n)
             e == SubSeq(left, n + 1, Len(left))
  <1>1. /\ f \in Seq([1..BlockData -> T]) /\ part \in Seq(T) /\ left \in Seq(T) /\ Len(part) < BlockData
        /\ Len(f) \in Nat /\ Len(part) \in Nat /\ Len(left) \in Nat /\ Len(<<>>) = 0
        /\ b + Len(part) + Len(<<>>) + Len(left) = Len(c)
        /\ \A i \in 1..Len(left) : left[i] = c[b + Len(part) + Len(<<>>) + i]
    BY DEF Laid
  <1>2. b \in Nat
    BY <1>1, CodecAssumption, Multiples
  <1>3. 1 \in 1..(Len(left) + 1) /\ n \in (1 - 1)..Len(left) /\ n + 1 \in 1..(Len(left) + 1)
        /\ Len(left) \in ((n + 1) - 1)..Len(left)
    BY <1>1
  <1>4. d \in Seq(T) /\ Len(d) = n - 1 + 1 /\ \A i \in 1..(n - 1 + 1) : d[i] = left[1 + i - 1]
    BY <1>1, <1>3, PieceIs
  <1>5. /\ e \in Seq(T) /\ Len(e) = Len(left) - (n + 1) + 1
        /\ \A i \in 1..(Len(left) - (n + 1) + 1) : e[i] = left[(n + 1) + i - 1]
    BY <1>1, <1>3, PieceIs
  <1> HIDE DEF b, d, e
  <1>6. Len(d) = n /\ Len(e) = Len(left) - n
    BY <1>1, <1>4, <1>5
  <1>7. \A i \in 1..n : d[i] = c[b + Len(part) + i]
    BY <1>1, <1>2, <1>4
  <1>8. ASSUME NEW i \in 1..(Len(left) - n) PROVE e[i] = c[b + Len(part) + n + i]
    <2>1. e[i] = left[n + i] /\ n + i \in 1..Len(left)
      BY <1>1, <1>5
    <2>2. b + Len(part) + 0 + (n + i) = b + Len(part) + n + i
      BY <1>1, <1>2
    <2> QED
      BY <1>1, <2>1, <2>2
  <1>9. b + Len(part) + n + (Len(left) - n) = Len(c)
    <2>1. Len(part) \in Nat /\ Len(left) \in Nat /\ Len(c) \in Nat
      BY <1>1
    <2>2. b + Len(part) + 0 + Len(left) = Len(c)
      BY <1>1
    <2> QED
      BY <1>2, <2>1, <2>2
  <1> QED
    BY <1>1, <1>4, <1>5, <1>6, <1>7, <1>8, <1>9 DEF Laid, b, d, e

\* One turn of write_chunk: the block in hand grows, or is full and sealed.
LEMMA LaidFill ==
    ASSUME NEW T, NEW c \in Seq(T), NEW f, NEW part, NEW data, NEW left, Laid(T, c, f, part, data, left),
           data # <<>>
    PROVE  LET take == Least(Len(data), BlockData - Len(part))
               p    == part \o SubSeq(data, 1, take)
               rest == SubSeq(data, take + 1, Len(data))
           IN  /\ Len(p) = BlockData => Laid(T, c, Append(f, p), <<>>, rest, left)
               /\ Len(p) # BlockData => Laid(T, c, f, p, rest, left)
  <1> DEFINE b == Len(f) * BlockData
             take == Least(Len(data), BlockData - Len(part))
             h == SubSeq(data, 1, take)
             p == part \o h
             rest == SubSeq(data, take + 1, Len(data))
             g == Append(f, p)
  <1>1. /\ f \in Seq([1..BlockData -> T]) /\ part \in Seq(T) /\ data \in Seq(T) /\ left \in Seq(T)
        /\ Len(part) < BlockData /\ BlockData \in Nat \ {0}
        /\ Len(f) \in Nat /\ Len(part) \in Nat /\ Len(data) \in Nat /\ Len(left) \in Nat
        /\ b + Len(part) + Len(data) + Len(left) = Len(c)
    BY CodecAssumption DEF Laid
  <1>2. /\ \A k \in 1..Len(f) : \A r \in 1..BlockData : f[k][r] = c[(k - 1) * BlockData + r]
        /\ \A i \in 1..Len(part) : part[i] = c[b + i]
        /\ \A i \in 1..Len(data) : data[i] = c[b + Len(part) + i]
        /\ \A i \in 1..Len(left) : left[i] = c[b + Len(part) + Len(data) + i]
    BY DEF Laid
  <1>3. b \in Nat /\ (Len(f) + 1) * BlockData = b + BlockData
    BY <1>1, Multiples
  <1>4. take \in Nat /\ take <= Len(data) /\ take <= BlockData - Len(part)
    BY <1>1 DEF Least
  <1>5. 1 \in 1..(Len(data) + 1) /\ take \in (1 - 1)..Len(data) /\ take + 1 \in 1..(Len(data) + 1)
        /\ Len(data) \in ((take + 1) - 1)..Len(data)
    BY <1>1, <1>4
  <1> HIDE DEF take
  <1>6. h \in Seq(T) /\ Len(h) = take - 1 + 1 /\ \A i \in 1..(take - 1 + 1) : h[i] = data[1 + i - 1]
    BY <1>1, <1>5, PieceIs
  <1>7. /\ rest \in Seq(T) /\ Len(rest) = Len(data) - (take + 1) + 1
        /\ \A i \in 1..(Len(data) - (take + 1) + 1) : rest[i] = data[(take + 1) + i - 1]
    BY <1>1, <1>5, PieceIs
  <1> HIDE DEF h, rest
  <1>8. /\ p \in Seq(T) /\ Len(p) = Len(part) + Len(h)
        /\ \A i \in 1..(Len(part) + Len(h)) : p[i] = IF i <= Len(part) THEN part[i] ELSE h[i - Len(part)]
    BY <1>1, <1>6, ConcatProperties
  <1> HIDE DEF p, b
  <1>9. Len(h) = take /\ Len(rest) = Len(data) - take /\ Len(p) = Len(part) + take /\ Len(p) <= BlockData
    BY <1>1, <1>4, <1>6, <1>7, <1>8
  <1>10. ASSUME NEW i \in 1..Len(p) PROVE p[i] = c[b + i]
    <2>1. CASE i <= Len(part)
      <3>1. i \in 1..(Len(part) + Len(h)) /\ i \in 1..Len(part)
        BY <1>1, <1>8, <1>9, <2>1
      <3>2. p[i] = part[i]
        BY <1>8, <2>1, <3>1
      <3> QED
        BY <1>2, <3>1, <3>2
    <2>2. CASE ~ (i <= Len(part))
      <3>1. i - Len(part) \in 1..take /\ i - Len(part) \in 1..Len(data) /\ i \in 1..(Len(part) + Len(h))
        BY <1>1, <1>4, <1>9, <2>2
      <3>2. p[i] = h[i - Len(part)]
        BY <1>8, <2>2, <3>1
      <3>3. h[i - Len(part)] = data[i - Len(part)]
        BY <1>4, <1>6, <3>1
      <3>4. b + Len(part) + (i - Len(part)) = b + i
        BY <1>1, <1>3, <1>9
      <3> QED
        BY <1>2, <3>1, <3>2, <3>3, <3>4
    <2> QED
      BY <2>1, <2>2
  <1>11. ASSUME NEW i \in 1..Len(rest) PROVE rest[i] = c[b + Len(p) + i]
    <2>1. rest[i] = data[take + i] /\ take + i \in 1..Len(data)
      BY <1>1, <1>4, <1>7, <1>9
    <2>2. b + Len(part) + (take + i) = b + Len(p) + i
      BY <1>1, <1>3, <1>4, <1>9
    <2> QED
      BY <1>2, <2>1, <2>2
  <1>12. ASSUME NEW i \in 1..Len(left) PROVE left[i] = c[b + Len(p) + Len(rest) + i]
    <2>1. b + Len(part) + Len(data) + i = b + Len(p) + Len(rest) + i
      BY <1>1, <1>3, <1>4, <1>9
    <2> QED
      BY <1>2, <2>1
  <1>13. b + Len(p) + Len(rest) + Len(left) = Len(c)
    <2>1. /\ Len(part) \in Nat /\ Len(data) \in Nat /\ Len(left) \in Nat /\ Len(c) \in Nat
          /\ b \in Nat /\ take \in Nat
      BY <1>1, <1>3, <1>4
    <2>2. b + Len(part) + Len(data) + Len(left) = Len(c)
      BY <1>1
    <2>3. Len(p) = Len(part) + take /\ Len(rest) = Len(data) - take
      BY <1>9
    <2> QED
      BY <2>1, <2>2, <2>3
  <1>14. CASE Len(p) = BlockData
    <2>1. p \in [1..BlockData -> T]
      BY <1>8, <1>14
    <2>2. /\ g \in Seq([1..BlockData -> T]) /\ Len(g) = Len(f) + 1 /\ g[Len(f) + 1] = p
          /\ \A k \in 1..Len(f) : g[k] = f[k]
      BY <1>1, <2>1
    <2> HIDE DEF g
    <2>3. ASSUME NEW k \in 1..Len(g), NEW r \in 1..BlockData PROVE g[k][r] = c[(k - 1) * BlockData + r]
      <3>1. CASE k = Len(f) + 1
        <4>1. k - 1 = Len(f) /\ r \in 1..Len(p)
          BY <1>1, <1>14, <3>1
        <4>2. (k - 1) * BlockData = b
          BY <4>1 DEF b
        <4> QED
          BY <1>10, <2>2, <3>1, <4>1, <4>2
      <3>2. CASE k # Len(f) + 1
        <4>1. k \in 1..Len(f)
          BY <1>1, <2>2, <3>2
        <4> QED
          BY <1>2, <2>2, <4>1
      <3> QED
        BY <3>1, <3>2
    <2>4. Len(g) * BlockData = b + Len(p)
      BY <1>3, <1>14, <2>2
    <2> DEFINE e == <<>>
    <2>5. e \in Seq(T) /\ Len(e) = 0
      OBVIOUS
    <2> HIDE DEF e
    <2>6. \A i \in 1..Len(e) : e[i] = c[Len(g) * BlockData + i]
      BY <2>5
    <2>7. \A i \in 1..Len(rest) : rest[i] = c[Len(g) * BlockData + Len(e) + i]
      <3>0. b \in Nat /\ Len(p) \in Nat /\ Len(rest) \in Nat
        BY <1>3, <1>7, <1>8
      <3>1. \A i \in 1..Len(rest) : b + Len(p) + 0 + i = b + Len(p) + i
        BY <3>0
      <3> QED
        BY <1>11, <2>4, <2>5, <3>1
    <2>8. \A i \in 1..Len(left) : left[i] = c[Len(g) * BlockData + Len(e) + Len(rest) + i]
      <3>0. b \in Nat /\ Len(p) \in Nat /\ Len(rest) \in Nat /\ Len(left) \in Nat
        BY <1>1, <1>3, <1>7, <1>8
      <3>1. \A i \in 1..Len(left) : b + Len(p) + 0 + Len(rest) + i = b + Len(p) + Len(rest) + i
        BY <3>0
      <3> QED
        BY <1>12, <2>4, <2>5, <3>1
    <2>9. Len(g) * BlockData + Len(e) + Len(rest) + Len(left) = Len(c) /\ Len(e) < BlockData
      BY <1>1, <1>3, <1>9, <1>13, <2>4, <2>5
    <2>10. Laid(T, c, g, e, rest, left)
      BY <1>1, <1>7, <2>2, <2>3, <2>5, <2>6, <2>7, <2>8, <2>9 DEF Laid
    <2> QED
      BY <1>14, <2>10 DEF e, g, p, h, rest, take
  <1>15. CASE Len(p) # BlockData
    <2>1. Len(p) < BlockData
      BY <1>1, <1>4, <1>9, <1>15
    <2>2. Laid(T, c, f, p, rest, left)
      BY <1>1, <1>2, <1>7, <1>8, <1>10, <1>11, <1>12, <1>13, <2>1 DEF Laid, b
    <2> QED
      BY <1>15, <2>2 DEF p, h, rest, take
  <1> QED
    BY <1>14, <1>15

\* finish: the payload is on the device, whatever follows it there.
LEMMA LaidDone ==
    ASSUME NEW T, 0 \in T, NEW c \in Seq(T), NEW f, NEW part, Laid(T, c, f, part, <<>>, <<>>), NEW y
    PROVE  Stored(T, c, f \o (IF part = <<>> THEN <<>> ELSE <<Padded(part)>>) \o <<y, y>>)
  <1> DEFINE B == [1..BlockData -> T]
             U == B \cup {y}
             b == Len(f) * BlockData
             tail == IF part = <<>> THEN <<>> ELSE <<Padded(part)>>
             fl == f \o tail
             yy == <<y, y>>
             d == fl \o yy
             n == Len(c)
             m == Len(tail)
  <1>1. /\ f \in Seq(B) /\ part \in Seq(T) /\ Len(part) < BlockData /\ BlockData \in Nat \ {0}
        /\ Len(f) \in Nat /\ Len(part) \in Nat /\ n \in Nat /\ b \in Nat
    BY CodecAssumption, Multiples DEF Laid
  <1>2. b + Len(part) = n
    <2>1. b + Len(part) + 0 + 0 = n
      BY DEF Laid
    <2> QED
      BY <1>1, <2>1
  <1>3. /\ \A k \in 1..Len(f) : \A r \in 1..BlockData : f[k][r] = c[(k - 1) * BlockData + r]
        /\ \A i \in 1..Len(part) : part[i] = c[b + i]
    BY DEF Laid
  <1>4. Padded(part) \in B /\ \A i \in 1..Len(part) : Padded(part)[i] = part[i]
    <2>1. \A i \in 1..Len(part) : part[i] \in T /\ i \in 1..BlockData
      BY <1>1, ElementOfSeq
    <2> QED
      BY <1>1, <2>1 DEF Padded
  <1>5. /\ tail \in Seq(B) /\ m \in {0, 1}
        /\ part = <<>> => m = 0
        /\ part # <<>> => m = 1 /\ tail[1] = Padded(part)
    <2> HIDE DEF B
    <2>1. CASE part = <<>>
      BY <2>1
    <2>2. CASE part # <<>>
      <3>1. tail = <<Padded(part)>>
        BY <2>2
      <3> HIDE DEF tail
      <3> QED
        BY <1>4, <2>2, <3>1
    <2> QED
      BY <2>1, <2>2
  <1>6. part = <<>> <=> Len(part) = 0
    BY <1>1
  <1> HIDE DEF tail, m
  <1>m. m \in Nat /\ (m = 0 \/ m = 1) /\ (m = 0 => Len(part) = 0) /\ (m = 1 => Len(part) > 0)
    BY <1>1, <1>5, <1>6
  <1>7. /\ fl \in Seq(B) /\ Len(fl) = Len(f) + m
        /\ \A k \in 1..Len(f) : fl[k] = f[k]
        /\ m = 1 => fl[Len(f) + 1] = tail[1]
    BY <1>1, <1>5 DEF m
  <1>8. fl \in Seq(U) /\ yy \in Seq(U) /\ Len(yy) = 2
    BY <1>7
  <1> HIDE DEF fl, yy, U
  <1>9. Len(d) = Len(fl) + 2 /\ \A k \in 1..Len(fl) : d[k] = fl[k]
    <2>1. Len(d) = Len(fl) + Len(yy)
      BY <1>8, ConcatProperties
    <2>2. \A k \in 1..(Len(fl) + Len(yy)) : d[k] = IF k <= Len(fl) THEN fl[k] ELSE yy[k - Len(fl)]
      BY <1>8, ConcatProperties
    <2> HIDE DEF d
    <2> QED
      BY <1>8, <2>1, <2>2
  <1> HIDE DEF d
  <1>10. /\ NumBlocks(n) \in Nat /\ n <= NumBlocks(n) * BlockData
         /\ \A k \in Nat : k < NumBlocks(n) <=> k * BlockData < n
    BY <1>1, BlocksOf
  <1>11. (Len(f) + 1) * BlockData = b + BlockData /\ Len(f) + 1 \in Nat
    BY <1>1, Multiples
  <1>12. NumBlocks(n) = Len(fl)
    <2>0. Len(f) < NumBlocks(n) <=> b < n
      BY <1>1, <1>10
    <2>1. CASE m = 0
      <3>1. n = b /\ Len(fl) = Len(f)
        BY <1>1, <1>2, <1>m, <1>7, <2>1
      <3>2. ~ (Len(f) < NumBlocks(n))
        BY <1>1, <2>0, <3>1
      <3>3. ASSUME NumBlocks(n) < Len(f) PROVE FALSE
        <4>1. NumBlocks(n) * BlockData + BlockData <= Len(f) * BlockData /\ NumBlocks(n) * BlockData \in Nat
          BY <1>1, <1>10, <3>3, Multiples
        <4>2. n <= NumBlocks(n) * BlockData /\ n = Len(f) * BlockData /\ n \in Nat
          BY <1>1, <1>10, <3>1
        <4> HIDE DEF n
        <4> QED
          BY <1>1, <4>1, <4>2
      <3> QED
        BY <1>1, <1>10, <3>1, <3>2, <3>3
    <2>2. CASE m = 1
      <3>1. b < n /\ n < b + BlockData /\ Len(fl) = Len(f) + 1
        BY <1>1, <1>2, <1>m, <1>7, <2>2
      <3>2. Len(f) < NumBlocks(n)
        BY <2>0, <3>1
      <3>3. ~ (Len(f) + 1 < NumBlocks(n))
        <4>1. Len(f) + 1 < NumBlocks(n) <=> (Len(f) + 1) * BlockData < n
          BY <1>10, <1>11
        <4> HIDE DEF n, b
        <4> QED
          BY <1>1, <1>11, <3>1, <4>1
      <3>4. NumBlocks(n) \in Nat /\ Len(f) \in Nat
        BY <1>1, <1>10
      <3> HIDE DEF n, b
      <3> QED
        BY <3>1, <3>2, <3>3, <3>4
    <2> QED
      BY <1>m, <2>1, <2>2
  <1>13. \A k \in 1..NumBlocks(n) : d[k] \in B
    <2>1. \A k \in 1..Len(fl) : fl[k] \in B
      BY <1>7, ElementOfSeq
    <2> QED
      BY <1>9, <1>12, <2>1
  <1>14. ASSUME NEW x \in 0..(n - 1)
         PROVE  d[(x \div BlockData) + 1][(x % BlockData) + 1] = c[x + 1]
    <2> DEFINE q == x \div BlockData
               r == x % BlockData
    <2>1. x \in Nat /\ x < n
      BY <1>1
    <2>2. q \in Nat /\ r \in 0..(BlockData - 1) /\ x = q * BlockData + r
      BY <1>1, <2>1, Quotient
    <2> HIDE DEF q, r
    <2>3. q * BlockData \in Nat /\ q * BlockData < n
      BY <1>1, <2>1, <2>2, Multiples
    <2>4. q < Len(fl)
      BY <1>10, <1>12, <2>2, <2>3
    <2>5. q + 1 \in 1..Len(fl) /\ r + 1 \in 1..BlockData /\ d[q + 1] = fl[q + 1] /\ q * BlockData + (r + 1) = x + 1
      <3>1. Len(fl) \in Nat /\ BlockData \in Nat
        BY <1>1, <1>7
      <3>2. q + 1 \in 1..Len(fl) /\ r + 1 \in 1..BlockData
        BY <2>2, <2>4, <3>1
      <3>3. d[q + 1] = fl[q + 1]
        BY <1>9, <3>2
      <3>4. q * BlockData + (r + 1) = x + 1
        <4> DEFINE qb == q * BlockData
        <4>1. qb \in Nat /\ x = qb + r /\ r \in Int
          BY <2>2, <2>3, <3>1
        <4> HIDE DEF qb
        <4>2. qb + (r + 1) = x + 1
          BY <4>1
        <4> QED
          BY <4>2 DEF qb
      <3> QED
        BY <3>2, <3>3, <3>4
    <2>6. CASE q < Len(f)
      <3>1. q + 1 \in 1..Len(f) /\ (q + 1) - 1 = q
        BY <1>1, <2>2, <2>6
      <3>2. f[q + 1][r + 1] = c[q * BlockData + (r + 1)]
        BY <1>3, <2>5, <3>1
      <3> QED
        BY <1>7, <2>5, <3>1, <3>2 DEF q, r
    <2>7. CASE ~ (q < Len(f))
      <3>1. q = Len(f) /\ m = 1
        <4>1. Len(fl) = Len(f) + m /\ Len(f) \in Nat
          BY <1>1, <1>7
        <4> QED
          BY <1>m, <2>2, <2>4, <2>7, <4>1
      <3>2. q * BlockData = b
        BY <3>1
      <3>3. r + 1 \in 1..Len(part)
        <4> HIDE DEF b, n
        <4> QED
          BY <1>1, <1>2, <2>1, <2>2, <3>2
      <3>4. d[q + 1] = Padded(part) /\ part # <<>>
        BY <1>1, <1>5, <1>m, <1>6, <1>7, <2>5, <3>1
      <3>5. Padded(part)[r + 1] = c[b + (r + 1)]
        BY <1>3, <1>4, <3>3
      <3> QED
        BY <2>5, <3>2, <3>4, <3>5 DEF q, r
    <2> QED
      BY <2>6, <2>7
  <1>15. Len(d) \in Nat /\ NumBlocks(n) < Len(d)
    BY <1>1, <1>7, <1>9, <1>12
  <1>16. Stored(T, c, d)
    BY <1>13, <1>14, <1>15 DEF Stored
  <1> QED
    BY <1>16 DEF d, fl, tail, yy

\* A piece of the payload read from the device.
LEMMA ReadBack ==
    ASSUME NEW T, NEW c \in Seq(T), Stored(T, c, disk), NEW s \in Nat, NEW n \in Nat, s + n <= Len(c)
    PROVE  \A i \in 1..n : CellAt(s + i - 1) = c[s + i] /\ c[s + i] \in T
  <1>1. ASSUME NEW i \in 1..n PROVE CellAt(s + i - 1) = c[s + i] /\ c[s + i] \in T
    <2>1. s + i - 1 \in 0..(Len(c) - 1) /\ (s + i - 1) + 1 = s + i /\ s + i \in 1..Len(c)
      OBVIOUS
    <2>2. CellAt(s + i - 1) = c[(s + i - 1) + 1]
      BY <2>1 DEF Stored, CellAt
    <2> QED
      BY <2>1, <2>2, ElementOfSeq
  <1> QED
    BY <1>1

LEMMA Difference ==
    ASSUME NEW b \in Nat \ {0}, NEW j \in Nat, NEW k \in Nat, j <= k
    PROVE  (k - j) * b \in Nat /\ j * b + (k - j) * b = k * b
  OBVIOUS

\* What a cell of an object can be, and an object that put accepts.
CellsOf(o) == IF o.packed THEN Nat \cup {o.payload, "packed"} ELSE Nat

ObjectOK(o) ==
    /\ o.payload \in Seq(Nat) /\ Len(o.payload) \in 1..(Word - 1)
    /\ o.meta \in 0..Len(o.payload)
    /\ o.packed \in BOOLEAN /\ (o.packed => Len(o.payload) > 1)

LEMMA ContentIs ==
    ASSUME NEW o, ObjectOK(o)
    PROVE  /\ Content(o) \in Seq(CellsOf(o)) /\ Len(Content(o)) \in Nat \ {0} /\ 0 \in CellsOf(o)
           /\ ~ o.packed => Content(o) = o.payload /\ CellsOf(o) = Nat
           /\ BodySize(o) \in 0..Len(o.payload)
           /\ Body(o) \in Seq(Nat) /\ Len(Body(o)) = BodySize(o)
           /\ \A i \in 1..BodySize(o) : Body(o)[i] = o.payload[i]
  <1>1. /\ o.payload \in Seq(Nat) /\ Len(o.payload) \in Nat \ {0} /\ o.meta \in 0..Len(o.payload)
        /\ o.packed \in BOOLEAN /\ (o.packed => Len(o.payload) > 1)
    BY DEF ObjectOK
  <1>2. BodySize(o) \in 0..Len(o.payload)
    BY <1>1 DEF BodySize, Less
  <1>3. Body(o) \in Seq(Nat) /\ Len(Body(o)) = BodySize(o) /\ \A i \in 1..BodySize(o) : Body(o)[i] = o.payload[i]
    <2>1. 1 \in 1..(Len(o.payload) + 1) /\ BodySize(o) \in (1 - 1)..Len(o.payload)
      BY <1>1, <1>2
    <2>2. /\ SubSeq(o.payload, 1, BodySize(o)) \in Seq(Nat)
          /\ Len(SubSeq(o.payload, 1, BodySize(o))) = BodySize(o) - 1 + 1
          /\ \A i \in 1..(BodySize(o) - 1 + 1) : SubSeq(o.payload, 1, BodySize(o))[i] = o.payload[1 + i - 1]
      BY <1>1, <2>1, PieceIs, SMTT(30)
    <2>3. /\ Body(o) \in Seq(Nat) /\ Len(Body(o)) = BodySize(o) - 1 + 1
          /\ \A i \in 1..(BodySize(o) - 1 + 1) : Body(o)[i] = o.payload[1 + i - 1]
      BY <2>2 DEF Body
    <2>4. BodySize(o) - 1 + 1 = BodySize(o) /\ \A i \in 1..BodySize(o) : 1 + i - 1 = i
      BY <1>1, <1>2
    <2> QED
      BY <2>3, <2>4
  <1>4. CASE ~ o.packed
    BY <1>1, <1>2, <1>3, <1>4 DEF Content, CellsOf
  <1>5. CASE o.packed
    <2> DEFINE T == CellsOf(o)
               h == <<o.payload>>
               m == Len(o.payload) - 2
               z == [i \in 1..m |-> "packed"]
    <2>1. T = Nat \cup {o.payload, "packed"} /\ Content(o) = h \o z
      BY <1>5 DEF CellsOf, Content, Packed
    <2>2. o.payload \in T /\ "packed" \in T /\ 0 \in T
      BY <2>1
    <2>3. m \in Nat
      BY <1>1, <1>5
    <2> HIDE DEF T, m
    <2>4. h \in Seq(T) /\ Len(h) = 1 /\ z \in Seq(T) /\ Len(z) = m
      <3>1. h \in Seq(T) /\ Len(h) = 1
        BY <2>2
      <3>2. z \in [1..m -> T]
        BY <2>2
      <3>3. z \in Seq(T) /\ Len(z) = m
        BY <2>3, <3>2, OneOfSeq
      <3> QED
        BY <3>1, <3>3
    <2> HIDE DEF h, z
    <2>5. h \o z \in Seq(T) /\ Len(h \o z) = 1 + m
      <3>1. h \o z \in Seq(T) /\ Len(h \o z) = Len(h) + Len(z)
        BY <2>4, ConcatProperties, Zenon
      <3> QED
        BY <2>4, <3>1
    <2> QED
      BY <1>2, <1>3, <1>5, <2>1, <2>2, <2>3, <2>5 DEF T
  <1> QED
    BY <1>1, <1>4, <1>5

\* Records of the writer and the reader for an object with cells T.
Writers(T) == [left : Seq(T), data : Seq(T), partial : Seq(T), batch : Seq([1..BlockData -> T]), finished : BOOLEAN]
Readings(T) == [on : BOOLEAN, size : Nat, block : Nat, consumed : Int, buf : Seq(T), out : Seq(T), err : BOOLEAN]

\* What a reader has delivered and holds is the beginning of the payload, unless
\* it has met an error.
Reading(o, r) ==
    /\ r.size \in 1..Len(Content(o))
    /\ r.size = IF o.packed THEN Len(Content(o)) ELSE BodySize(o)
    /\ r.block <= NumBlocks(r.size)
    /\ ~ o.packed => r.buf = <<>> /\ ~ r.err
    /\ ~ r.err => /\ r.consumed = Least(r.size, r.block * BlockData)
                  /\ Len(r.out) + Len(r.buf) = r.consumed
                  /\ \A i \in 1..Len(r.out) : r.out[i] = Content(o)[i]
                  /\ \A i \in 1..Len(r.buf) : r.buf[i] = Content(o)[Len(r.out) + i]

\* The inductive invariant of the codec.
Recorded ==
    /\ ObjectOK(object) /\ writer \in Writers(CellsOf(object))
    /\ ~ writer.finished => /\ disk \in Seq([1..BlockData -> CellsOf(object)])
                            /\ Laid(CellsOf(object), Content(object), disk \o writer.batch, writer.partial,
                                    writer.data, writer.left)
    /\ writer.finished => writer.data = <<>> /\ Stored(CellsOf(object), Content(object), disk)

Streamed ==
    /\ reader \in Readings(CellsOf(object))
    /\ reader.on => writer.finished /\ Reading(object, reader)

CodecInv == Recorded /\ Streamed /\ ReadsExact

\* next_chunk delivers the cells after those consumed.
LEMMA ChunkIs ==
    ASSUME Recorded, Streamed, reader.on, ~ reader.err, reader.block < NumBlocks(reader.size)
    PROVE  LET k == ChunkOf(reader)
               a == Advanced(reader, Len(k))
           IN  /\ k \in Seq(CellsOf(object))
               /\ \A i \in 1..Len(k) : k[i] = Content(object)[reader.consumed + i]
               /\ a = [reader EXCEPT !.block = a.block, !.consumed = a.consumed]
               /\ a.block \in Nat /\ a.block <= NumBlocks(reader.size)
               /\ a.consumed = Least(reader.size, a.block * BlockData)
               /\ a.consumed = reader.consumed + Len(k)
  <1> DEFINE T == CellsOf(object)
             c == Content(object)
             r == reader
             b == BlockData
             B == r.block
             S == r.size
             nb == Least(B + BatchBlocks, NumBlocks(S))
             from == B * b
             upto == Least(S - r.consumed, (nb - B) * b)
             k == ChunkOf(r)
             a == Advanced(r, Len(k))
  <1>1. c \in Seq(T) /\ Len(c) \in Nat /\ b \in Nat \ {0} /\ BatchBlocks \in Nat \ {0}
    BY ContentIs, CodecAssumption DEF Recorded
  <1>2. Stored(T, c, disk)
    BY DEF Recorded, Streamed
  <1>3. /\ r \in Readings(T) /\ B \in Nat /\ S \in 1..Len(c) /\ r.consumed = Least(S, B * b)
    BY DEF Streamed, Readings, Reading
  <1>4. S \in Nat /\ S <= Len(c)
    BY <1>1, <1>3
  <1>5. NumBlocks(S) \in Nat /\ S <= NumBlocks(S) * b /\ B * b < S
    BY <1>3, <1>4, BlocksOf
  <1>6. nb \in Nat /\ B <= nb /\ nb <= NumBlocks(S)
    BY <1>1, <1>3, <1>5 DEF Least
  <1>7. k = [i \in 1..upto |-> CellAt(from + i - 1)]
    BY DEF ChunkOf
  <1>8. a = [r EXCEPT !.block = nb, !.consumed = @ + Len(k)]
    BY DEF Advanced
  <1> HIDE DEF nb
  <1>9. from \in Nat /\ (nb - B) * b \in Nat /\ from + (nb - B) * b = nb * b /\ nb * b \in Nat
    BY <1>1, <1>3, <1>6, Difference, Multiples
  <1>10. r.consumed = from
    BY <1>3, <1>4, <1>5, <1>9 DEF Least
  <1> DEFINE e == (nb - B) * b
             f == nb * b
  <1>11. e \in Nat /\ from + e = f /\ upto = Least(S - from, e) /\ from < S
    BY <1>5, <1>9, <1>10
  <1> HIDE DEF upto, from, e, f, k
  <1>12. upto \in Nat /\ from + upto = Least(S, f) /\ from + upto <= Len(c)
    <2>1. upto \in Nat /\ from + upto = Least(S, f)
      BY <1>4, <1>9, <1>11 DEF Least
    <2>2. Least(S, f) <= S
      BY <1>4, <1>9, <1>11 DEF Least
    <2> QED
      BY <1>1, <1>4, <1>9, <2>1, <2>2
  <1>13. k \in Seq(T) /\ Len(k) = upto /\ \A i \in 1..upto : k[i] = c[from + i]
    <2>1. from \in Nat /\ upto \in Nat /\ from + upto <= Len(c)
      BY <1>9, <1>12
    <2> HIDE DEF T, c, r
    <2>2. \A i \in 1..upto : CellAt(from + i - 1) = c[from + i] /\ c[from + i] \in T
      BY <1>1, <1>2, <2>1, ReadBack
    <2>3. k \in [1..upto -> T] /\ \A i \in 1..upto : k[i] = c[from + i]
      BY <1>7, <2>2
    <2> QED
      BY <2>1, <2>3, OneOfSeq
  <1>14. a.block = nb /\ a.consumed = r.consumed + Len(k)
    BY <1>3, <1>8 DEF Readings
  <1>15. a = [r EXCEPT !.block = a.block, !.consumed = a.consumed]
    BY <1>8, <1>14
  <1>16. a.consumed = Least(S, f)
    BY <1>10, <1>12, <1>13, <1>14
  <1> HIDE DEF a
  <1> QED
    BY <1>6, <1>10, <1>13, <1>14, <1>15, <1>16 DEF k, a, f

\* Answers are about the object, which never changes.
LEMMA AnswerKept ==
    ASSUME ReadsExact, object' = object, answer' = answer \/ answer' = NoAnswer
    PROVE  ReadsExact'
  <1>1. CASE answer' = NoAnswer
    BY <1>1 DEF ReadsExact, NoAnswer
  <1>2. CASE answer' = answer
    <2>1. object' = object /\ answer' = answer
      BY <1>2
    <2>2. Asked(answer.range)' = Asked(answer.range)
      BY <2>1 DEF Asked, Body, BodySize, Less
    <2>3. Body(object') = Body(object) /\ BodySize(object') = BodySize(object)
      BY <2>1
    <2> QED
      BY <2>1, <2>2, <2>3 DEF ReadsExact
  <1> QED
    BY <1>1, <1>2

\* A step of the writer keeps the rest.
LEMMA WriterKeeps ==
    ASSUME CodecInv, Recorded', UNCHANGED <<object, reader, answer>>, writer.finished => writer'.finished
    PROVE  CodecInv'
  <1>1. Streamed'
    <2>1. CellsOf(object') = CellsOf(object) /\ (Reading(object, reader) => Reading(object', reader'))
      OBVIOUS
    <2> QED
      BY <2>1 DEF CodecInv, Streamed
  <1> QED
    BY <1>1, AnswerKept DEF CodecInv

LEMMA ChunkStep ==
    ASSUME CodecInv, NEW n \in ChunkSizes, WriteChunk(n)
    PROVE  CodecInv'
  <1> DEFINE T == CellsOf(object)
             c == Content(object)
             w == writer
             d == SubSeq(w.left, 1, n)
             e == SubSeq(w.left, n + 1, Len(w.left))
  <1>1. /\ ObjectOK(object) /\ w \in Writers(T) /\ ~ w.finished /\ w.data = <<>> /\ n <= Len(w.left)
        /\ disk \in Seq([1..BlockData -> T])
        /\ Laid(T, c, disk \o w.batch, w.partial, w.data, w.left)
    BY DEF CodecInv, Recorded, WriteChunk
  <1>2. writer' = [w EXCEPT !.data = d, !.left = e] /\ UNCHANGED <<object, disk, reader, answer>>
    BY DEF WriteChunk
  <1>3. n \in Nat /\ c \in Seq(T)
    BY <1>1, CodecAssumption, ContentIs
  <1>4. Laid(T, c, disk \o w.batch, w.partial, d, e)
    <2> DEFINE f == disk \o w.batch
               p == w.partial
               l == w.left
    <2>1. Laid(T, c, f, p, <<>>, l) /\ n <= Len(l)
      BY <1>1
    <2> HIDE DEF T, c, f, p, l
    <2>2. Laid(T, c, f, p, SubSeq(l, 1, n), SubSeq(l, n + 1, Len(l)))
      BY <1>3, <2>1, LaidChunk
    <2> QED
      BY <2>2 DEF f, p, l
  <1>5. d \in Seq(T) /\ e \in Seq(T)
    BY <1>4 DEF Laid
  <1> HIDE DEF d, e
  <1>6. /\ writer' \in Writers(T) /\ writer'.finished = w.finished /\ writer'.batch = w.batch
        /\ writer'.partial = w.partial /\ writer'.data = d /\ writer'.left = e
    BY <1>1, <1>2, <1>5 DEF Writers
  <1>7. Recorded'
    BY <1>1, <1>2, <1>4, <1>6 DEF Recorded
  <1> QED
    BY <1>1, <1>2, <1>7, WriterKeeps

LEMMA FillStep ==
    ASSUME CodecInv, FillBlock
    PROVE  CodecInv'
  <1> DEFINE T == CellsOf(object)
             c == Content(object)
             w == writer
             take == Least(Len(w.data), BlockData - Len(w.partial))
             p == w.partial \o SubSeq(w.data, 1, take)
             rest == SubSeq(w.data, take + 1, Len(w.data))
             v == [w EXCEPT !.data = rest, !.partial = p]
             f == disk \o w.batch
  <1>1. /\ ObjectOK(object) /\ w \in Writers(T) /\ ~ w.finished /\ w.data # <<>>
        /\ disk \in Seq([1..BlockData -> T]) /\ w.batch \in Seq([1..BlockData -> T])
        /\ Laid(T, c, f, w.partial, w.data, w.left)
    BY DEF CodecInv, Recorded, FillBlock, Writers
  <1>2. c \in Seq(T)
    BY <1>1, ContentIs
  <1>3. UNCHANGED <<object, reader, answer>>
    BY DEF FillBlock
  <1>4. /\ Len(p) = BlockData => Seal(v, p) /\ Laid(T, c, Append(f, p), <<>>, rest, w.left)
        /\ Len(p) # BlockData => writer' = v /\ disk' = disk /\ Laid(T, c, f, p, rest, w.left)
    <2> DEFINE q == w.partial
               d == w.data
               l == w.left
    <2>1. Laid(T, c, f, q, d, l) /\ d # <<>>
      BY <1>1
    <2>2. /\ Len(p) = BlockData => Seal(v, p)
          /\ Len(p) # BlockData => writer' = v /\ disk' = disk
      BY DEF FillBlock
    <2> HIDE DEF T, c, f, q, d, l
    <2>3. LET tk == Least(Len(d), BlockData - Len(q))
              pp == q \o SubSeq(d, 1, tk)
              rs == SubSeq(d, tk + 1, Len(d))
          IN  /\ Len(pp) = BlockData => Laid(T, c, Append(f, pp), <<>>, rs, l)
              /\ Len(pp) # BlockData => Laid(T, c, f, pp, rs, l)
      BY <1>2, <2>1, LaidFill
    <2> QED
      BY <2>2, <2>3 DEF q, d, l
  <1> HIDE DEF p, rest, f
  <1>5. CASE Len(p) # BlockData
    <2>1. p \in Seq(T) /\ rest \in Seq(T)
      BY <1>4, <1>5 DEF Laid
    <2>2. /\ writer' \in Writers(T) /\ writer'.finished = w.finished /\ writer'.batch = w.batch
          /\ writer'.partial = p /\ writer'.data = rest /\ writer'.left = w.left
      BY <1>1, <1>4, <1>5, <2>1 DEF Writers
    <2>3. Laid(T, c, disk \o writer'.batch, writer'.partial, writer'.data, writer'.left)
      BY <1>4, <1>5, <2>2 DEF f
    <2>4. Recorded'
      BY <1>1, <1>3, <1>4, <1>5, <2>2, <2>3 DEF Recorded
    <2> QED
      BY <1>1, <1>3, <2>4, WriterKeeps
  <1>6. CASE Len(p) = BlockData
    <2> DEFINE B == [1..BlockData -> T]
               batch == Append(w.batch, p)
    <2>1. rest \in Seq(T) /\ Append(f, p) \in Seq(B) /\ Laid(T, c, Append(f, p), <<>>, rest, w.left)
      BY <1>4, <1>6 DEF Laid
    <2>2. p \in B
      <3>1. f \in Seq(B) /\ Len(f) \in Nat
        BY <1>1 DEF f
      <3>2. Append(f, p)[Len(f) + 1] = p /\ Len(Append(f, p)) = Len(f) + 1
        BY <3>1
      <3>3. Len(f) + 1 \in 1..Len(Append(f, p))
        BY <3>1, <3>2
      <3> QED
        BY <2>1, <3>2, <3>3, ElementOfSeq
    <2>3. batch \in Seq(B) /\ Append(f, p) = disk \o batch
      <3> DEFINE g == disk
                 h == w.batch
      <3>1. g \in Seq(B) /\ h \in Seq(B)
        BY <1>1
      <3> HIDE DEF B, g, h
      <3>2. Append(h, p) \in Seq(B) /\ Append(g \o h, p) = g \o Append(h, p)
        BY <2>2, <3>1
      <3> QED
        BY <3>2 DEF f, g, h
    <2>4. v \in [left : Seq(T), data : Seq(T), partial : {p}, batch : Seq(B), finished : BOOLEAN]
          /\ v.finished = w.finished /\ v.batch = w.batch /\ v.data = rest /\ v.left = w.left
      BY <1>1, <2>1 DEF Writers
    <2> HIDE DEF v
    <2>5. \/ writer' = [v EXCEPT !.batch = <<>>, !.partial = <<>>] /\ disk' = disk \o batch
          \/ writer' = [v EXCEPT !.batch = batch, !.partial = <<>>] /\ disk' = disk
      BY <1>4, <1>6, <2>4 DEF Seal
    <2> HIDE DEF batch
    <2>6. ASSUME NEW u \in Seq(B), writer' = [v EXCEPT !.batch = u, !.partial = <<>>]
          PROVE  /\ writer' \in Writers(T) /\ writer'.finished = w.finished /\ writer'.batch = u
                 /\ writer'.partial = <<>> /\ writer'.data = rest /\ writer'.left = w.left
      <3>1. <<>> \in Seq(T) /\ Writers(T) = [left : Seq(T), data : Seq(T), partial : Seq(T), batch : Seq(B), finished : BOOLEAN]
        BY DEF Writers
      <3> HIDE DEF B, T
      <3> QED
        BY <2>4, <2>6, <3>1
    <2>7. /\ writer' \in Writers(T) /\ writer'.finished = w.finished
          /\ writer'.partial = <<>> /\ writer'.data = rest /\ writer'.left = w.left
          /\ disk' \in Seq(B) /\ disk' \o writer'.batch = Append(f, p)
      <3>1. CASE writer' = [v EXCEPT !.batch = <<>>, !.partial = <<>>] /\ disk' = disk \o batch
        <4>1. <<>> \in Seq(B) /\ disk \o batch \in Seq(B) /\ (disk \o batch) \o <<>> = disk \o batch
          BY <1>1, <2>3
        <4> QED
          BY <2>3, <2>6, <3>1, <4>1
      <3>2. CASE writer' = [v EXCEPT !.batch = batch, !.partial = <<>>] /\ disk' = disk
        BY <1>1, <2>3, <2>6, <3>2
      <3> QED
        BY <2>5, <3>1, <3>2
    <2>8. Recorded'
      BY <1>1, <1>3, <2>1, <2>7 DEF Recorded
    <2> QED
      BY <1>1, <1>3, <2>8, WriterKeeps
  <1> QED
    BY <1>5, <1>6

LEMMA FinishStep ==
    ASSUME CodecInv, Finish
    PROVE  CodecInv'
  <1> DEFINE T == CellsOf(object)
             c == Content(object)
             w == writer
             f == disk \o w.batch
             tail == IF w.partial = <<>> THEN <<>> ELSE <<Padded(w.partial)>>
  <1>1. /\ ObjectOK(object) /\ w \in Writers(T) /\ ~ w.finished /\ w.data = <<>> /\ w.left = <<>>
        /\ Laid(T, c, f, w.partial, w.data, w.left)
    BY DEF CodecInv, Recorded, Finish
  <1>2. c \in Seq(T) /\ 0 \in T
    BY <1>1, ContentIs
  <1>3. PICK y : disk' = f \o tail \o <<y, y>>
    BY DEF Finish
  <1>4. writer' = [w EXCEPT !.partial = <<>>, !.batch = <<>>, !.finished = TRUE] /\ UNCHANGED <<object, reader, answer>>
    BY DEF Finish
  <1>5. Stored(T, c, disk')
    <2> DEFINE p == w.partial
    <2>1. Laid(T, c, f, p, <<>>, <<>>)
      BY <1>1
    <2>2. tail = IF p = <<>> THEN <<>> ELSE <<Padded(p)>>
      OBVIOUS
    <2> HIDE DEF T, c, f, p, tail
    <2>3. Stored(T, c, f \o (IF p = <<>> THEN <<>> ELSE <<Padded(p)>>) \o <<y, y>>)
      BY <1>2, <2>1, LaidDone
    <2> QED
      BY <1>3, <2>2, <2>3
  <1>6. writer' \in Writers(T) /\ writer'.finished = TRUE /\ writer'.data = <<>>
    <2> DEFINE B == [1..BlockData -> T]
    <2>1. <<>> \in Seq(T) /\ <<>> \in Seq(B)
      OBVIOUS
    <2>2. Writers(T) = [left : Seq(T), data : Seq(T), partial : Seq(T), batch : Seq(B), finished : BOOLEAN]
      BY DEF Writers
    <2>3. w \in [left : Seq(T), data : Seq(T), partial : Seq(T), batch : Seq(B), finished : BOOLEAN]
      BY <1>1, <2>2
    <2> HIDE DEF B, T, w
    <2>4. writer' \in [left : Seq(T), data : Seq(T), partial : Seq(T), batch : Seq(B), finished : BOOLEAN]
      BY <1>4, <2>1, <2>3
    <2>5. writer'.finished = TRUE /\ writer'.data = w.data
      BY <1>4, <2>3
    <2> QED
      BY <1>1, <2>2, <2>4, <2>5
  <1>7. Recorded'
    BY <1>1, <1>4, <1>5, <1>6 DEF Recorded
  <1> QED
    BY <1>4, <1>6, <1>7, WriterKeeps

\* A step of a reader keeps what was written.
LEMMA ReaderKeeps ==
    ASSUME CodecInv, UNCHANGED <<object, writer, disk>>, Streamed', ReadsExact'
    PROVE  CodecInv'
  <1>1. Recorded'
    BY DEF CodecInv, Recorded
  <1> QED
    BY <1>1 DEF CodecInv

\* The state of a reader that is on, or off.
LEMMA OnKeeps ==
    ASSUME CodecInv, UNCHANGED <<object, writer, disk>>, writer.finished, answer' = answer \/ answer' = NoAnswer,
           reader' \in Readings(CellsOf(object)), Reading(object, reader')
    PROVE  CodecInv'
  <1>1. Streamed'
    BY DEF Streamed
  <1>2. ReadsExact'
    BY AnswerKept DEF CodecInv
  <1> QED
    BY <1>1, <1>2, ReaderKeeps

LEMMA StreamAnswer ==
    ASSUME CodecInv, UNCHANGED <<object, writer, disk>>, reader' = NoReader, NEW g, NEW x \in BOOLEAN,
           answer' = [kind |-> "stream", got |-> g, failed |-> x], x \/ g = Body(object)
    PROVE  CodecInv'
  <1>1. NoReader \in Readings(CellsOf(object)) /\ ~ NoReader.on
    <2> DEFINE T == CellsOf(object)
    <2>1. <<>> \in Seq(T)
      OBVIOUS
    <2> HIDE DEF T
    <2> QED
      BY <2>1 DEF NoReader, Readings, T
  <1>2. Streamed'
    BY <1>1 DEF Streamed
  <1>3. answer'.kind = "stream" /\ answer'.got = g /\ answer'.failed = x
    OBVIOUS
  <1>4. Body(object') = Body(object)
    OBVIOUS
  <1>5. ReadsExact'
    BY <1>3, <1>4 DEF ReadsExact
  <1> QED
    BY <1>2, <1>5, ReaderKeeps

LEMMA BeginStep ==
    ASSUME CodecInv, BeginStream
    PROVE  CodecInv'
  <1> DEFINE T == CellsOf(object)
             c == Content(object)
             n == IF object.packed THEN Len(c) ELSE BodySize(object)
  <1>1. /\ ObjectOK(object) /\ writer.finished /\ UNCHANGED <<object, writer, disk>>
    BY DEF CodecInv, Recorded, BeginStream
  <1>2. /\ c \in Seq(T) /\ Len(c) \in Nat \ {0} /\ (~ object.packed => c = object.payload)
        /\ BodySize(object) \in 0..Len(object.payload) /\ Len(object.payload) \in Nat
        /\ Body(object) \in Seq(Nat) /\ Len(Body(object)) = BodySize(object)
    BY <1>1, ContentIs DEF ObjectOK
  <1>3. CASE ~ object.packed /\ BodySize(object) = 0
    <2>1. answer' = [kind |-> "stream", got |-> <<>>, failed |-> FALSE] /\ reader' = reader
      BY <1>3 DEF BeginStream
    <2>2. Body(object) = <<>>
      BY <1>2, <1>3
    <2>3. Streamed'
      <3>1. CellsOf(object') = CellsOf(object) /\ (Reading(object, reader) => Reading(object', reader'))
        BY <1>1, <2>1
      <3> QED
        BY <1>1, <2>1, <3>1 DEF CodecInv, Streamed
    <2>4. answer'.kind = "stream" /\ answer'.got = <<>> /\ Body(object') = Body(object)
      BY <1>1, <2>1
    <2>5. ReadsExact'
      BY <2>2, <2>4 DEF ReadsExact
    <2> QED
      BY <1>1, <2>3, <2>5, ReaderKeeps
  <1>4. CASE ~ (~ object.packed /\ BodySize(object) = 0)
    <2>1. reader' = [NoReader EXCEPT !.on = TRUE, !.size = n] /\ answer' = NoAnswer
      BY <1>4 DEF BeginStream
    <2>2. n \in 1..Len(c)
      BY <1>2, <1>4
    <2> HIDE DEF n
    <2>3. /\ reader'.size = n /\ reader'.block = 0 /\ reader'.consumed = 0 /\ reader'.err = FALSE
          /\ reader'.buf = <<>> /\ reader'.out = <<>>
      BY <2>1 DEF NoReader
    <2>4. reader' \in Readings(T)
      <3> DEFINE e == <<>>
                 r == [on |-> TRUE, size |-> n, block |-> 0, consumed |-> 0, buf |-> e, out |-> e, err |-> FALSE]
      <3>1. e \in Seq(T) /\ n \in Nat /\ 0 \in Nat /\ 0 \in Int
        BY <1>2, <2>2
      <3>2. reader' = r
        BY <2>1 DEF NoReader
      <3> HIDE DEF T, e
      <3>3. r \in Readings(T)
        BY <3>1 DEF Readings
      <3> QED
        BY <3>2, <3>3
    <2>5. NumBlocks(n) \in Nat /\ n \in Nat
      BY <1>2, <2>2, BlocksOf
    <2>6. Least(n, 0 * BlockData) = 0
      BY <2>5, CodecAssumption DEF Least
    <2>7. Reading(object, reader')
      BY <2>2, <2>3, <2>5, <2>6 DEF Reading, n
    <2> QED
      BY <1>1, <2>1, <2>4, <2>7, OnKeeps
  <1> QED
    BY <1>3, <1>4

\* What a reader has.
LEMMA ReaderIs ==
    ASSUME CodecInv, reader.on
    PROVE  /\ Recorded /\ Streamed /\ writer.finished /\ Reading(object, reader) /\ reader \in Readings(CellsOf(object))
           /\ Content(object) \in Seq(CellsOf(object)) /\ Len(Content(object)) \in Nat
           /\ reader.out \in Seq(CellsOf(object)) /\ reader.buf \in Seq(CellsOf(object))
           /\ Len(reader.out) \in Nat /\ Len(reader.buf) \in Nat
           /\ reader.size \in Nat /\ reader.block \in Nat /\ reader.err \in BOOLEAN
           /\ NumBlocks(reader.size) \in Nat /\ reader.block <= NumBlocks(reader.size)
  <1>1. /\ Recorded /\ Streamed /\ writer.finished /\ Reading(object, reader) /\ reader \in Readings(CellsOf(object))
    BY DEF CodecInv, Streamed
  <1>2. Content(object) \in Seq(CellsOf(object)) /\ Len(Content(object)) \in Nat
    BY <1>1, ContentIs DEF Recorded
  <1>3. /\ reader.out \in Seq(CellsOf(object)) /\ reader.buf \in Seq(CellsOf(object))
        /\ reader.size \in Nat /\ reader.block \in Nat /\ reader.err \in BOOLEAN
    BY <1>1 DEF Readings
  <1>4. Len(reader.out) \in Nat /\ Len(reader.buf) \in Nat
    BY <1>3
  <1>5. NumBlocks(reader.size) \in Nat /\ reader.block <= NumBlocks(reader.size)
    BY <1>1, <1>3, BlocksOf DEF Reading
  <1> QED
    BY <1>1, <1>2, <1>3, <1>4, <1>5

\* At the last block everything has been consumed.
LEMMA AllConsumed ==
    ASSUME CodecInv, reader.on, ~ reader.err, reader.block >= NumBlocks(reader.size)
    PROVE  reader.consumed = reader.size
  <1>1. /\ reader.size \in Nat /\ reader.block \in Nat /\ NumBlocks(reader.size) \in Nat
        /\ reader.block <= NumBlocks(reader.size) /\ reader.consumed = Least(reader.size, reader.block * BlockData)
    BY ReaderIs DEF Reading
  <1>2. reader.block = NumBlocks(reader.size)
    BY <1>1
  <1>3. reader.size <= reader.block * BlockData /\ reader.block * BlockData \in Nat
    BY <1>1, <1>2, BlocksOf, CodecAssumption, Multiples
  <1> QED
    BY <1>1, <1>3 DEF Least

\* The next chunk goes to the consumer, or into the buffer of BlockReaderIo.
LEMMA MoreRead ==
    ASSUME CodecInv, reader.on, ~ reader.err, reader.block < NumBlocks(reader.size), reader.buf = <<>>,
           UNCHANGED <<object, writer, disk, answer>>, NEW o, NEW u,
           reader' = [Advanced(reader, Len(ChunkOf(reader))) EXCEPT !.out = o, !.buf = u],
           \/ o = reader.out \o ChunkOf(reader) /\ u = <<>>
           \/ o = reader.out /\ u = ChunkOf(reader) /\ object.packed
    PROVE  CodecInv'
  <1> DEFINE T == CellsOf(object)
             c == Content(object)
             k == ChunkOf(reader)
             a == Advanced(reader, Len(k))
             B == a.block
             D == a.consumed
  <1>1. /\ k \in Seq(T) /\ \A i \in 1..Len(k) : k[i] = c[reader.consumed + i]
        /\ a = [reader EXCEPT !.block = B, !.consumed = D]
        /\ B \in Nat /\ B <= NumBlocks(reader.size)
        /\ D = Least(reader.size, B * BlockData) /\ D = reader.consumed + Len(k)
    BY ReaderIs, ChunkIs
  <1>2. /\ reader.out \in Seq(T) /\ Len(reader.out) \in Nat /\ c \in Seq(T) /\ reader \in Readings(T)
        /\ writer.finished /\ reader.size \in Nat
    BY ReaderIs
  <1>3. /\ reader.size \in 1..Len(c) /\ reader.size = IF object.packed THEN Len(c) ELSE BodySize(object)
        /\ reader.consumed = Len(reader.out) + Len(<<>>) /\ \A i \in 1..Len(reader.out) : reader.out[i] = c[i]
    BY ReaderIs DEF Reading
  <1>4. reader.consumed = Len(reader.out) /\ Len(k) \in Nat
    BY <1>1, <1>2, <1>3
  <1> HIDE DEF k, a
  <1>5. reader' = [a EXCEPT !.out = o, !.buf = u]
    BY DEF a, k
  <1>6. D \in Int
    BY <1>1, <1>2, <1>4
  <1> HIDE DEF B, D
  <1>7. /\ o \in Seq(T) /\ u \in Seq(T) /\ Len(o) + Len(u) = D
        /\ \A i \in 1..Len(o) : o[i] = c[i]
        /\ \A i \in 1..Len(u) : u[i] = c[Len(o) + i]
        /\ ~ object.packed => u = <<>>
    <2>1. CASE o = reader.out \o k /\ u = <<>>
      <3> DEFINE z == reader.out
                 e == <<>>
      <3>0. z \in Seq(T) /\ Len(z) \in Nat /\ e \in Seq(T) /\ Len(e) = 0 /\ o = z \o k /\ u = e
        BY <1>2, <2>1
      <3>1. \A i \in 1..Len(z) : z[i] = c[i]
        BY <1>3
      <3>2. \A i \in 1..Len(k) : k[i] = c[Len(z) + i]
        BY <1>1, <1>4
      <3>3. D = Len(z) + Len(k)
        BY <1>1, <1>4
      <3> HIDE DEF z, e, T, c
      <3>4. /\ o \in Seq(T) /\ Len(o) = Len(z) + Len(k)
            /\ \A i \in 1..(Len(z) + Len(k)) : o[i] = IF i <= Len(z) THEN z[i] ELSE k[i - Len(z)]
        BY <1>1, <3>0, ConcatProperties
      <3>5. ASSUME NEW i \in 1..Len(o) PROVE o[i] = c[i]
        <4>1. CASE i <= Len(z)
          <5>1. i \in 1..Len(z) /\ i \in 1..(Len(z) + Len(k))
            BY <3>0, <3>4, <4>1
          <5> QED
            BY <3>1, <3>4, <4>1, <5>1
        <4>2. CASE ~ (i <= Len(z))
          <5>1. i - Len(z) \in 1..Len(k) /\ i \in 1..(Len(z) + Len(k)) /\ Len(z) + (i - Len(z)) = i
            BY <1>4, <3>0, <3>4, <4>2
          <5>2. o[i] = k[i - Len(z)]
            BY <3>4, <4>2, <5>1
          <5> QED
            BY <3>2, <5>1, <5>2
        <4> QED
          BY <4>1, <4>2
      <3>6. \A i \in 1..Len(u) : u[i] = c[Len(o) + i]
        BY <3>0
      <3>7. Len(o) + Len(u) = D
        BY <1>4, <3>0, <3>3, <3>4
      <3> QED
        BY <3>0, <3>4, <3>5, <3>6, <3>7 DEF e
    <2>2. CASE o = reader.out /\ u = k /\ object.packed
      BY <1>1, <1>2, <1>3, <1>4, <2>2
    <2> QED
      BY <2>1, <2>2 DEF k
  <1> HIDE DEF T, c
  <1>8. /\ reader' \in Readings(T) /\ reader'.size = reader.size /\ reader'.block = B /\ reader'.consumed = D
        /\ reader'.out = o /\ reader'.buf = u /\ reader'.err = reader.err
    <2>1. reader' = [reader EXCEPT !.block = B, !.consumed = D, !.out = o, !.buf = u]
      BY <1>1, <1>5
    <2>2. B \in Nat /\ D \in Int /\ u \in Seq(T) /\ o \in Seq(T) /\ reader \in Readings(T)
      BY <1>1, <1>2, <1>6, <1>7
    <2> DEFINE r == reader
               q == reader'
    <2>3. r \in Readings(T) /\ q = [r EXCEPT !.block = B, !.consumed = D, !.out = o, !.buf = u]
      BY <2>1, <2>2
    <2> HIDE DEF r, q
    <2>4. q.size = r.size /\ q.block = B /\ q.consumed = D /\ q.out = o /\ q.buf = u /\ q.err = r.err
      BY <2>3 DEF Readings
    <2>5. q \in Readings(T)
      BY <2>2, <2>3 DEF Readings
    <2> QED
      BY <2>4, <2>5 DEF r, q
  <1>9. Reading(object, reader')
    BY <1>1, <1>3, <1>7, <1>8 DEF Reading, c
  <1> QED
    BY <1>2, <1>8, <1>9, OnKeeps DEF T

LEMMA ChunkStream ==
    ASSUME CodecInv, StreamChunk
    PROVE  CodecInv'
  <1> DEFINE k == ChunkOf(reader)
             a == Advanced(reader, Len(k))
             o == reader.out \o k
  <1>1. /\ reader.on /\ ~ object.packed /\ reader.block < NumBlocks(reader.size)
        /\ reader' = [a EXCEPT !.out = @ \o k] /\ UNCHANGED <<object, writer, disk, answer>>
    BY DEF StreamChunk
  <1>2. reader.buf = <<>> /\ ~ reader.err /\ reader \in Readings(CellsOf(object))
    BY <1>1, ReaderIs DEF Reading
  <1>3. a = [reader EXCEPT !.block = a.block, !.consumed = a.consumed]
    BY <1>1, <1>2, ReaderIs, ChunkIs
  <1> HIDE DEF a, k
  <1>4. a.out = reader.out /\ a.buf = <<>>
    BY <1>2, <1>3 DEF Readings
  <1>5. reader' = [a EXCEPT !.out = o, !.buf = <<>>]
    BY <1>1, <1>2, <1>3, <1>4 DEF Readings
  <1> QED
    BY <1>1, <1>2, <1>5, MoreRead DEF a, k

LEMMA RefillStep ==
    ASSUME CodecInv, Refill
    PROVE  CodecInv'
  <1> DEFINE k == ChunkOf(reader)
             a == Advanced(reader, Len(k))
             o == reader.out
  <1>1. /\ reader.on /\ object.packed /\ reader.block < NumBlocks(reader.size) /\ reader.buf = <<>> /\ ~ reader.err
        /\ reader' = [a EXCEPT !.buf = k] /\ UNCHANGED <<object, writer, disk, answer>>
    BY DEF Refill, Readable
  <1>2. reader \in Readings(CellsOf(object))
    BY <1>1, ReaderIs
  <1>3. a = [reader EXCEPT !.block = a.block, !.consumed = a.consumed]
    BY <1>1, ReaderIs, ChunkIs
  <1> HIDE DEF a, k
  <1>4. a.out = o
    BY <1>2, <1>3 DEF Readings
  <1>5. reader' = [a EXCEPT !.out = o, !.buf = k]
    BY <1>1, <1>2, <1>3, <1>4 DEF Readings
  <1> QED
    BY <1>1, <1>5, MoreRead DEF a, k

LEMMA StreamErrorStep ==
    ASSUME CodecInv, NEW i, StreamError(i)
    PROVE  CodecInv'
  BY StreamAnswer DEF StreamError

\* Everything was consumed and nothing is buffered: the stream is the payload
\* up to the reader's size.
LEMMA StreamIs ==
    ASSUME CodecInv, reader.on, ~ reader.err, reader.buf = <<>>, reader.block >= NumBlocks(reader.size)
    PROVE  /\ object.packed => reader.out = Content(object)
           /\ ~ object.packed => reader.out = Body(object)
  <1> DEFINE T == CellsOf(object)
             c == Content(object)
             z == reader.out
  <1>1. z \in Seq(T) /\ Len(z) \in Nat /\ c \in Seq(T) /\ ObjectOK(object)
    BY ReaderIs DEF Recorded
  <1>2. /\ reader.size = IF object.packed THEN Len(c) ELSE BodySize(object)
        /\ Len(z) + Len(<<>>) = reader.consumed /\ \A i \in 1..Len(z) : z[i] = c[i]
    BY ReaderIs DEF Reading
  <1>3. Len(z) = reader.size
    BY <1>1, <1>2, AllConsumed
  <1>4. CASE object.packed
    <2>1. Len(z) = Len(c)
      BY <1>2, <1>3, <1>4
    <2>2. \A i \in 1..Len(z) : z[i] = c[i]
      BY <1>2
    <2> HIDE DEF z, c, T
    <2>3. z = c
      BY <1>1, <2>1, <2>2, SameCells
    <2> QED
      BY <1>4, <2>3 DEF z, c
  <1>5. CASE ~ object.packed
    <2> DEFINE y == Body(object)
    <2>1. /\ y \in Seq(Nat) /\ Len(y) = BodySize(object) /\ \A i \in 1..BodySize(object) : y[i] = object.payload[i]
          /\ c = object.payload
      BY <1>1, <1>5, ContentIs
    <2>2. Len(z) = Len(y) /\ \A i \in 1..Len(z) : z[i] = y[i]
      BY <1>2, <1>3, <1>5, <2>1
    <2> HIDE DEF z, y, T
    <2>3. z = y
      BY <1>1, <2>1, <2>2, SameCells
    <2> QED
      BY <1>5, <2>3 DEF z, y
  <1> QED
    BY <1>1, <1>4, <1>5

LEMMA StreamEndStep ==
    ASSUME CodecInv, StreamEnd
    PROVE  CodecInv'
  <1>1. reader.on /\ ~ object.packed /\ reader.block >= NumBlocks(reader.size)
    BY DEF StreamEnd
  <1>2. ~ reader.err /\ reader.buf = <<>>
    BY <1>1, ReaderIs DEF Reading
  <1>3. reader.out = Body(object)
    BY <1>1, <1>2, StreamIs
  <1> QED
    BY <1>3, StreamAnswer DEF StreamEnd

LEMMA DecodedStep ==
    ASSUME CodecInv, Decoded
    PROVE  CodecInv'
  <1> DEFINE g == IF Readable /\ reader.out = Content(object) THEN Body(object) ELSE <<"other">>
             x == ~ Readable
  <1>1. /\ reader.on /\ object.packed /\ reader' = NoReader /\ UNCHANGED <<object, writer, disk>>
        /\ answer' = [kind |-> "stream", got |-> g, failed |-> x]
        /\ Readable => reader.buf = <<>> /\ reader.block >= NumBlocks(reader.size)
    BY DEF Decoded
  <1>2. x \in BOOLEAN
    BY DEF Readable
  <1>3. Readable => reader.out = Content(object)
    BY <1>1, StreamIs DEF Readable
  <1>4. x \/ g = Body(object)
    BY <1>3
  <1> HIDE DEF g, x
  <1> QED
    BY <1>1, <1>2, <1>4, StreamAnswer

\* read hands over the first cells of the buffer and keeps the rest.
LEMMA BufferStep ==
    ASSUME CodecInv, NEW n \in BufferSizes, ReadBuffered(n)
    PROVE  CodecInv'
  <1> DEFINE T == CellsOf(object)
             c == Content(object)
             z == reader.out
             b == reader.buf
             m == Least(n, Len(b))
             h == SubSeq(b, 1, m)
             o == z \o h
             u == SubSeq(b, n + 1, Len(b))
  <1>1. /\ reader.on /\ object.packed /\ ~ reader.err /\ UNCHANGED <<object, writer, disk, answer>>
        /\ reader' = [reader EXCEPT !.out = o, !.buf = u]
    BY DEF ReadBuffered, Readable
  <1>2. /\ z \in Seq(T) /\ Len(z) \in Nat /\ b \in Seq(T) /\ Len(b) \in Nat /\ c \in Seq(T)
        /\ reader \in Readings(T) /\ writer.finished /\ n \in Nat
    BY <1>1, ReaderIs, CodecAssumption
  <1>3. /\ reader.size \in 1..Len(c) /\ reader.size = IF object.packed THEN Len(c) ELSE BodySize(object)
        /\ reader.block <= NumBlocks(reader.size)
        /\ reader.consumed = Least(reader.size, reader.block * BlockData) /\ Len(z) + Len(b) = reader.consumed
        /\ \A i \in 1..Len(z) : z[i] = c[i]
        /\ \A i \in 1..Len(b) : b[i] = c[Len(z) + i]
    BY <1>1, ReaderIs DEF Reading
  <1>4. m \in Nat /\ m <= Len(b) /\ (n <= Len(b) => m = n) /\ (n > Len(b) => m = Len(b))
    BY <1>2 DEF Least
  <1> HIDE DEF T, c, z, b, m
  <1>5. h \in Seq(T) /\ Len(h) = m /\ \A i \in 1..m : h[i] = c[Len(z) + i]
    <2>1. 1 \in 1..(Len(b) + 1) /\ m \in (1 - 1)..Len(b)
      BY <1>2, <1>4
    <2>2. h \in Seq(T) /\ Len(h) = m - 1 + 1 /\ \A i \in 1..(m - 1 + 1) : h[i] = b[1 + i - 1]
      BY <1>2, <2>1, PieceIs
    <2>3. m - 1 + 1 = m /\ \A i \in 1..m : 1 + i - 1 = i /\ i \in 1..Len(b)
      BY <1>2, <1>4
    <2> QED
      BY <1>3, <2>2, <2>3
  <1>6. u \in Seq(T) /\ Len(u) = Len(b) - m /\ \A i \in 1..Len(u) : u[i] = c[Len(z) + m + i]
    <2>1. CASE n <= Len(b)
      <3>1. n + 1 \in 1..(Len(b) + 1) /\ Len(b) \in ((n + 1) - 1)..Len(b)
        BY <1>2, <2>1
      <3>2. /\ u \in Seq(T) /\ Len(u) = Len(b) - (n + 1) + 1
            /\ \A i \in 1..(Len(b) - (n + 1) + 1) : u[i] = b[(n + 1) + i - 1]
        BY <1>2, <3>1, PieceIs
      <3> HIDE DEF u
      <3>3. Len(u) = Len(b) - m /\ m = n
        BY <1>2, <1>4, <2>1, <3>2
      <3>4. ASSUME NEW i \in 1..Len(u) PROVE u[i] = c[Len(z) + m + i]
        <4>1. i \in 1..(Len(b) - (n + 1) + 1) /\ (n + 1) + i - 1 = m + i /\ m + i \in 1..Len(b)
              /\ Len(z) + (m + i) = Len(z) + m + i
          BY <1>2, <3>2, <3>3
        <4> QED
          BY <1>3, <3>2, <4>1
      <3> QED
        BY <3>2, <3>3, <3>4
    <2>2. CASE n > Len(b)
      <3>1. u = <<>>
        BY <1>2, <2>2
      <3>2. <<>> \in Seq(T) /\ Len(<<>>) = 0
        OBVIOUS
      <3> HIDE DEF u
      <3> QED
        BY <1>2, <1>4, <2>2, <3>1, <3>2
    <2> QED
      BY <1>2, <2>1, <2>2
  <1> HIDE DEF h, u
  <1>7. /\ o \in Seq(T) /\ Len(o) = Len(z) + m
        /\ \A i \in 1..(Len(z) + Len(h)) : o[i] = IF i <= Len(z) THEN z[i] ELSE h[i - Len(z)]
    BY <1>2, <1>5, ConcatProperties
  <1> HIDE DEF o
  <1>8. ASSUME NEW i \in 1..Len(o) PROVE o[i] = c[i]
    <2>1. CASE i <= Len(z)
      <3>1. i \in 1..Len(z) /\ i \in 1..(Len(z) + Len(h))
        BY <1>2, <1>5, <1>7, <2>1
      <3> QED
        BY <1>3, <1>7, <2>1, <3>1
    <2>2. CASE ~ (i <= Len(z))
      <3>1. i - Len(z) \in 1..m /\ i \in 1..(Len(z) + Len(h)) /\ Len(z) + (i - Len(z)) = i
        BY <1>2, <1>4, <1>5, <1>7, <2>2
      <3>2. o[i] = h[i - Len(z)]
        BY <1>7, <2>2, <3>1
      <3> QED
        BY <1>5, <3>1, <3>2
    <2> QED
      BY <2>1, <2>2
  <1>9. Len(o) + Len(u) = reader.consumed /\ \A i \in 1..Len(u) : u[i] = c[Len(o) + i]
    <2>1. Len(z) + m + (Len(b) - m) = Len(z) + Len(b)
      BY <1>2, <1>4
    <2> QED
      BY <1>3, <1>6, <1>7, <2>1
  <1>10. /\ reader' \in Readings(T) /\ reader'.size = reader.size /\ reader'.block = reader.block
         /\ reader'.consumed = reader.consumed
         /\ reader'.out = o /\ reader'.buf = u /\ reader'.err = reader.err
    BY <1>1, <1>2, <1>6, <1>7 DEF Readings
  <1>11. Reading(object, reader')
    BY <1>1, <1>3, <1>8, <1>9, <1>10 DEF Reading, c
  <1> QED
    BY <1>1, <1>2, <1>10, <1>11, OnKeeps DEF T

LEMMA RefillErrorStep ==
    ASSUME CodecInv, NEW i, RefillError(i)
    PROVE  CodecInv'
  <1> DEFINE T == CellsOf(object)
             r == reader
             s == Spoiled(r, i)
             x == (i - r.block - 1) * BlockData
             D == r.consumed + Least(r.size - r.consumed, x)
  <1>1. /\ r.on /\ object.packed /\ i \in Batch(r) /\ UNCHANGED <<object, writer, disk, answer>>
        /\ reader' = [s EXCEPT !.err = TRUE]
    BY DEF RefillError
  <1>2. r \in Readings(T) /\ writer.finished /\ r.size \in Nat /\ r.block \in Nat /\ NumBlocks(r.size) \in Nat
    BY <1>1, ReaderIs
  <1>3. /\ r.size \in 1..Len(Content(object))
        /\ r.size = IF object.packed THEN Len(Content(object)) ELSE BodySize(object)
        /\ r.block <= NumBlocks(r.size)
    BY <1>1, ReaderIs DEF Reading
  <1>4. r.consumed \in Int /\ BlockData \in Nat /\ BatchBlocks \in Nat
    BY <1>2, CodecAssumption DEF Readings
  <1>5. Least(r.block + BatchBlocks, NumBlocks(r.size)) \in Nat
    BY <1>2, <1>4 DEF Least
  <1>6. i \in Int
    BY <1>1, <1>2, <1>5 DEF Batch
  <1>7. x \in Int
    <2> DEFINE y == i - r.block - 1
    <2>1. y \in Int
      BY <1>2, <1>6
    <2> HIDE DEF y
    <2>2. y * BlockData \in Int
      BY <1>4, <2>1
    <2> QED
      BY <2>2 DEF y
  <1>8. s = [r EXCEPT !.consumed = D]
    BY DEF Spoiled
  <1> HIDE DEF x, T, s
  <1>9. D \in Int
    BY <1>2, <1>4, <1>7 DEF Least
  <1> HIDE DEF D
  <1>10. reader' \in Readings(T) /\ reader'.size = r.size /\ reader'.block = r.block /\ reader'.err = TRUE
    BY <1>1, <1>2, <1>8, <1>9 DEF Readings
  <1>11. Reading(object, reader')
    BY <1>1, <1>3, <1>10 DEF Reading
  <1> QED
    BY <1>1, <1>2, <1>10, <1>11, OnKeeps DEF T

\* A piece of a prefix.
LEMMA SamePiece ==
    ASSUME NEW S, NEW p \in Seq(S), NEW q \in Seq(S), Len(q) <= Len(p), \A i \in 1..Len(q) : q[i] = p[i],
           NEW a \in Nat, NEW e \in Nat, a <= e, e <= Len(q)
    PROVE  SubSeq(q, a + 1, e) = SubSeq(p, a + 1, e)
  <1> DEFINE x == SubSeq(q, a + 1, e)
             y == SubSeq(p, a + 1, e)
  <1>0. Len(p) \in Nat /\ Len(q) \in Nat
    OBVIOUS
  <1>1. /\ a + 1 \in 1..(Len(q) + 1) /\ e \in ((a + 1) - 1)..Len(q)
        /\ a + 1 \in 1..(Len(p) + 1) /\ e \in ((a + 1) - 1)..Len(p)
    BY <1>0
  <1>2. x \in Seq(S) /\ Len(x) = e - (a + 1) + 1 /\ \A i \in 1..(e - (a + 1) + 1) : x[i] = q[(a + 1) + i - 1]
    BY <1>1, PieceIs
  <1>3. y \in Seq(S) /\ Len(y) = e - (a + 1) + 1 /\ \A i \in 1..(e - (a + 1) + 1) : y[i] = p[(a + 1) + i - 1]
    BY <1>1, PieceIs
  <1> HIDE DEF x, y
  <1>4. \A i \in 1..(e - (a + 1) + 1) : (a + 1) + i - 1 \in 1..Len(q)
    BY <1>0
  <1>5. Len(x) = Len(y) /\ \A i \in 1..Len(x) : x[i] = y[i]
    BY <1>2, <1>3, <1>4
  <1>6. x = y
    BY <1>2, <1>3, <1>5, SameCells
  <1> QED
    BY <1>6 DEF x, y

\* The blocks of a range that lies inside a payload of n cells.
LEMMA BlocksOfRange ==
    ASSUME NEW n \in 1..(Word - 1), NEW a \in Nat, NEW e \in Nat, a <= e, e <= n
    PROVE  LET f == a \div BlockData
               m == (LastBlock(e) - f + 1 + Word) % Word
           IN  /\ f \in Nat /\ m \in Nat /\ f + m <= NumBlocks(n)
               /\ f * BlockData <= a /\ e <= (f + m) * BlockData /\ (f + m) * BlockData \in Nat
  <1> DEFINE b == BlockData
             f == a \div b
             h == a % b
             x == Less(e, 1)
             L == x \div b
             s == x % b
             d == L - f + 1
             m == (d + Word) % Word
  <1>0. b \in Nat \ {0} /\ Word \in Nat \ {0} /\ n \in Nat /\ n < Word /\ n > 0
    BY CodecAssumption
  <1>1. x \in Nat /\ x < n /\ e <= x + 1
    BY <1>0 DEF Less
  <1>2. f \in Nat /\ h \in 0..(b - 1) /\ a = f * b + h
    BY <1>0, Quotient
  <1> HIDE DEF x
  <1>3. L \in Nat /\ s \in 0..(b - 1) /\ x = L * b + s
    BY <1>0, <1>1, Quotient
  <1>4. LastBlock(e) = L
    BY DEF LastBlock, x
  <1> HIDE DEF f, h, L, s
  <1>5. f * b \in Nat /\ L * b \in Nat /\ L + 1 \in Nat /\ (L + 1) * b = L * b + b
    BY <1>0, <1>2, <1>3, Multiples
  <1>6. L <= L * b
    BY <1>0, <1>3
  <1> DEFINE fb == f * b
             Lb == L * b
             Mb == (L + 1) * b
  <1>7. /\ fb \in Nat /\ Lb \in Nat /\ Mb = Lb + b /\ L <= Lb
        /\ fb <= a /\ Lb <= x /\ x < Lb + b
    BY <1>0, <1>1, <1>2, <1>3, <1>5, <1>6
  <1>8. L + 1 < f => Mb + b <= fb
    BY <1>0, <1>2, <1>5, Multiples
  <1>9. L < NumBlocks(n) <=> Lb < n
    BY <1>0, <1>3, BlocksOf
  <1>10. NumBlocks(n) \in Nat
    BY <1>0, BlocksOf
  <1> HIDE DEF fb, Lb, Mb, b
  <1>11. fb <= a /\ e <= Mb /\ Mb \in Nat /\ L + 1 <= n
    BY <1>0, <1>1, <1>3, <1>7
  <1>12. f <= L + 1
    BY <1>0, <1>1, <1>2, <1>3, <1>7, <1>8
  <1>13. d \in 0..(Word - 1) /\ f + d = L + 1
    BY <1>0, <1>2, <1>3, <1>11, <1>12
  <1> HIDE DEF d
  <1>14. m = d
    <2>1. 1 \in Nat /\ (1 * Word + d) % Word = d
      BY <1>0, <1>13, Place
    <2>2. 1 * Word + d = d + Word
      BY <1>0, <1>13
    <2> QED
      BY <2>1, <2>2
  <1> HIDE DEF m
  <1>15. L + 1 <= NumBlocks(n)
    BY <1>0, <1>1, <1>3, <1>7, <1>9, <1>10
  <1>16. f + m = L + 1 /\ m \in Nat
    BY <1>0, <1>13, <1>14
  <1>17. (f + m) * b = Mb
    BY <1>16 DEF Mb
  <1> QED
    BY <1>2, <1>4, <1>11, <1>15, <1>16, <1>17 DEF f, m, d, b, fb

\* do_get_range returns the cells of the range, and fails only for a packed
\* object that is too large.
LEMMA RangedIs ==
    ASSUME Recorded, writer.finished, NEW a \in Nat, NEW e \in Nat, a <= e, e <= Len(object.payload)
    PROVE  LET R == Ranged(a, e)
           IN  IF R.failed THEN object.packed /\ Len(object.payload) > MaxInflated
               ELSE R.got = SubSeq(object.payload, a + 1, e)
  <1> DEFINE p == object.payload
             R == Ranged(a, e)
             f == a \div BlockData
             m == (LastBlock(e) - f + 1 + Word) % Word
             o == Overlap(f, m, a, e)
             y == SubSeq(p, a + 1, e)
  <1>1. CASE object.packed
    <2>1. CASE Len(p) > MaxInflated
      <3>1. R = [got |-> <<>>, failed |-> TRUE]
        BY <1>1, <2>1 DEF Ranged
      <3>2. R.failed = TRUE
        BY <3>1
      <3> QED
        BY <1>1, <2>1, <3>2
    <2>2. CASE ~ (Len(p) > MaxInflated)
      <3>1. R = [got |-> y, failed |-> FALSE]
        BY <1>1, <2>2 DEF Ranged
      <3> HIDE DEF R
      <3>2. R.failed = FALSE /\ R.got = y
        BY <3>1
      <3> QED
        BY <3>2 DEF R
    <2> QED
      BY <2>1, <2>2
  <1>2. CASE ~ object.packed
    <2>1. /\ p \in Seq(Nat) /\ Len(p) \in 1..(Word - 1) /\ Stored(Nat, p, disk) /\ Len(p) \in Nat
      <3>1. ObjectOK(object) /\ Stored(CellsOf(object), Content(object), disk)
        BY DEF Recorded
      <3>2. Content(object) = p /\ CellsOf(object) = Nat
        BY <1>2, <3>1, ContentIs
      <3> QED
        BY <3>1, <3>2 DEF ObjectOK
    <2>2. /\ f \in Nat /\ m \in Nat /\ f + m <= NumBlocks(Len(p))
          /\ f * BlockData <= a /\ e <= (f + m) * BlockData /\ (f + m) * BlockData \in Nat
      BY <2>1, BlocksOfRange
    <2>3. /\ Len(disk) \in Nat /\ NumBlocks(Len(p)) < Len(disk) /\ NumBlocks(Len(p)) \in Nat
          /\ \A k \in 1..NumBlocks(Len(p)) : disk[k] \in [1..BlockData -> Nat]
      BY <2>1, BlocksOf DEF Stored
    <2>4. f * BlockData \in Nat
      BY <2>2, CodecAssumption, Multiples
    <2> HIDE DEF p
    <2>5. o = [i \in 1..(e - a) |-> CellAt(a + i - 1)]
      <3> DEFINE s == IF a > f * BlockData THEN a ELSE f * BlockData
                 t == Least(e, (f + m) * BlockData)
      <3>1. s = a
        BY <2>2, <2>4
      <3>2. t = e
        BY <2>2 DEF Least
      <3>3. Less(e, a) = e - a
        BY DEF Less
      <3>4. o = [i \in 1..Less(t, s) |-> CellAt(s + i - 1)]
        BY DEF Overlap
      <3> HIDE DEF s, t, o
      <3> QED
        BY <3>1, <3>2, <3>3, <3>4
    <2>6. ~ (f + m > Len(disk))
      BY <2>2, <2>3
    <2>7. ASSUME NEW i \in (f + 1)..(f + m) PROVE disk[i] # BadBlock
      <3>1. i \in 1..NumBlocks(Len(p))
        BY <2>2, <2>3
      <3> QED
        BY <2>3, <3>1, CodecAssumption
    <2>8. R = [got |-> o, failed |-> FALSE]
      BY <1>2, <2>6, <2>7 DEF Ranged
    <2>9. o = y
      <3>1. e - a \in Nat /\ a + (e - a) <= Len(p)
        BY <2>1 DEF p
      <3>2. \A i \in 1..(e - a) : CellAt(a + i - 1) = p[a + i] /\ p[a + i] \in Nat
        BY <2>1, <3>1, ReadBack
      <3>3. o \in [1..(e - a) -> Nat] /\ \A i \in 1..(e - a) : o[i] = p[a + i]
        BY <2>5, <3>2
      <3> HIDE DEF o
      <3>4. o \in Seq(Nat) /\ Len(o) = e - a
        BY <3>1, <3>3, OneOfSeq
      <3>5. a + 1 \in 1..(Len(p) + 1) /\ e \in ((a + 1) - 1)..Len(p)
        BY <2>1 DEF p
      <3>6. y \in Seq(Nat) /\ Len(y) = e - (a + 1) + 1 /\ \A i \in 1..(e - (a + 1) + 1) : y[i] = p[(a + 1) + i - 1]
        BY <2>1, <3>5, PieceIs
      <3> HIDE DEF y
      <3>7. e - (a + 1) + 1 = e - a /\ \A i \in 1..(e - a) : (a + 1) + i - 1 = a + i
        OBVIOUS
      <3>8. Len(o) = Len(y) /\ \A i \in 1..Len(o) : o[i] = y[i]
        BY <3>3, <3>4, <3>6, <3>7
      <3> QED
        BY <3>4, <3>6, <3>8, SameCells
    <2> HIDE DEF R, o
    <2>10. R.failed = FALSE /\ R.got = y
      BY <2>8, <2>9
    <2> QED
      BY <2>10 DEF R, p
  <1> QED
    BY <1>1, <1>2

\* get_opts clamps a range to the cells of the body that it asks for.
LEMMA AskedIs ==
    ASSUME ObjectOK(object), NEW r \in GetRanges
    PROVE  /\ Clamped(r)[1] \in Nat /\ Clamped(r)[2] \in Nat /\ Clamped(r)[1] <= Clamped(r)[2]
           /\ Clamped(r)[2] <= Len(object.payload)
           /\ Asked(r) = SubSeq(object.payload, Clamped(r)[1] + 1, Clamped(r)[2])
  <1> DEFINE p == object.payload
             q == Body(object)
             t == BodySize(object)
             a == Clamped(r)[1]
             e == Clamped(r)[2]
             in == {i \in 0..(t - 1) : CASE r.kind = "bounded" -> r.start <= i /\ i < r.end
                                         [] r.kind = "offset"  -> r.start <= i
                                         [] r.kind = "suffix"  -> i >= t - r.length}
  <1>1. /\ p \in Seq(Nat) /\ Len(p) \in Nat /\ t \in Nat /\ t <= Len(p)
        /\ q \in Seq(Nat) /\ Len(q) = t /\ \A i \in 1..t : q[i] = p[i]
    BY ContentIs DEF ObjectOK
  <1>2. \/ r.kind = "bounded" /\ r.start \in Nat /\ r.end \in Nat
        \/ r.kind = "offset" /\ r.start \in Nat
        \/ r.kind = "suffix" /\ r.length \in Nat
    BY CodecAssumption
  <1>3. Asked(r) = IF in = {} THEN <<>>
                   ELSE LET lo == CHOOSE i \in in : \A j \in in : i <= j
                        IN  SubSeq(q, lo + 1, lo + Cardinality(in))
    BY DEF Asked
  <1>4. a \in Nat /\ e \in Nat /\ a <= e /\ e <= t /\ in = a..(e - 1)
    <2> HIDE DEF q, p
    <2>1. CASE r.kind = "bounded" /\ r.start \in Nat /\ r.end \in Nat
      <3>1. Clamped(r) = <<Least(Least(r.start, t), Least(r.end, t)), Least(r.end, t)>>
        BY <2>1 DEF Clamped
      <3>2. a = Least(Least(r.start, t), Least(r.end, t)) /\ e = Least(r.end, t)
        BY <3>1
      <3>3. in = {i \in 0..(t - 1) : r.start <= i /\ i < r.end}
        BY <2>1
      <3> HIDE DEF a, e, in, t
      <3>4. a \in Nat /\ e \in Nat /\ a <= e /\ e <= t
        BY <1>1, <2>1, <3>2 DEF Least
      <3>5. \A i : i \in in <=> i \in a..(e - 1)
        <4>1. in = {i \in Int : 0 <= i /\ i < t /\ r.start <= i /\ i < r.end}
          BY <1>1, <3>3
        <4>2. \A i \in Int : (0 <= i /\ i < t /\ r.start <= i /\ i < r.end) <=> (a <= i /\ i < e)
          <5> DEFINE x == r.start
                     y == r.end
          <5>1. x \in Nat /\ y \in Nat /\ t \in Nat /\ a = Least(Least(x, t), Least(y, t)) /\ e = Least(y, t)
            BY <1>1, <2>1, <3>2
          <5> HIDE DEF x, y
          <5>2. CASE y < t
            <6>1. e = y /\ a = IF x < y THEN x ELSE y
              BY <5>1, <5>2 DEF Least
            <6> QED
              BY <5>1, <5>2, <6>1 DEF x, y
          <5>3. CASE ~ (y < t)
            <6>1. e = t /\ a = IF x < t THEN x ELSE t
              BY <5>1, <5>3 DEF Least
            <6> QED
              BY <5>1, <5>3, <6>1 DEF x, y
          <5> QED
            BY <5>2, <5>3
        <4> QED
          BY <3>4, <4>1, <4>2
      <3> QED
        BY <3>4, <3>5
    <2>2. CASE r.kind = "offset" /\ r.start \in Nat
      <3>1. Clamped(r) = <<Least(r.start, t), t>>
        BY <2>2 DEF Clamped
      <3>2. a = Least(r.start, t) /\ e = t
        BY <3>1
      <3>3. in = {i \in 0..(t - 1) : r.start <= i}
        BY <2>2
      <3> HIDE DEF a, e, in, t
      <3>4. a \in Nat /\ e \in Nat /\ a <= e /\ e <= t
        BY <1>1, <2>2, <3>2 DEF Least
      <3>5. \A i : i \in in <=> i \in a..(e - 1)
        BY <1>1, <2>2, <3>2, <3>3 DEF Least
      <3> QED
        BY <3>4, <3>5
    <2>3. CASE r.kind = "suffix" /\ r.length \in Nat
      <3>1. Clamped(r) = <<Less(t, r.length), t>>
        BY <2>3 DEF Clamped
      <3>2. a = Less(t, r.length) /\ e = t
        BY <3>1
      <3>3. in = {i \in 0..(t - 1) : i >= t - r.length}
        BY <2>3
      <3> HIDE DEF a, e, in, t
      <3>4. a \in Nat /\ e \in Nat /\ a <= e /\ e <= t
        BY <1>1, <2>3, <3>2 DEF Less
      <3>5. \A i : i \in in <=> i \in a..(e - 1)
        BY <1>1, <2>3, <3>2, <3>3 DEF Less
      <3> QED
        BY <3>4, <3>5
    <2> QED
      BY <1>2, <2>1, <2>2, <2>3
  <1> HIDE DEF p, q, t, a, e, in
  <1>5. a + 1 \in 1..(Len(p) + 1) /\ e \in ((a + 1) - 1)..Len(p) /\ e <= Len(p)
    BY <1>1, <1>4
  <1>6. Asked(r) = SubSeq(p, a + 1, e)
    <2>1. CASE a = e
      <3>1. in = {}
        BY <1>4, <2>1
      <3>2. SubSeq(p, a + 1, e) \in Seq(Nat) /\ Len(SubSeq(p, a + 1, e)) = e - (a + 1) + 1
        BY <1>1, <1>5, PieceIs
      <3>3. e - (a + 1) + 1 = 0
        BY <1>4, <2>1
      <3>4. SubSeq(p, a + 1, e) = <<>>
        BY <3>2, <3>3
      <3> QED
        BY <1>3, <3>1, <3>4
    <2>2. CASE a # e
      <3> DEFINE lo == CHOOSE i \in in : \A j \in in : i <= j
      <3>1. a \in in /\ \A j \in in : a <= j
        BY <1>4, <2>2
      <3>2. lo \in in /\ \A j \in in : lo <= j
        BY <3>1
      <3> HIDE DEF lo
      <3>3. lo = a
        BY <1>4, <3>1, <3>2
      <3>4. Cardinality(in) = e - a
        <4>1. a \in Int /\ e - 1 \in Int /\ ~ (a > e - 1)
          BY <1>4, <2>2
        <4>2. Cardinality(a..(e - 1)) = IF a > e - 1 THEN 0 ELSE (e - 1) - a + 1
          BY <4>1, FS_Interval
        <4>3. (e - 1) - a + 1 = e - a
          BY <1>4
        <4> QED
          BY <1>4, <4>1, <4>2, <4>3
      <3>5. a + (e - a) = e
        BY <1>4
      <3>6. Asked(r) = SubSeq(q, lo + 1, lo + Cardinality(in))
        BY <1>3, <3>1 DEF lo
      <3>7. Asked(r) = SubSeq(q, a + 1, e)
        BY <3>3, <3>4, <3>5, <3>6
      <3>8. SubSeq(q, a + 1, e) = SubSeq(p, a + 1, e)
        <4>1. Len(q) <= Len(p) /\ (\A i \in 1..Len(q) : q[i] = p[i]) /\ e <= Len(q)
          BY <1>1, <1>4
        <4>2. p \in Seq(Nat) /\ q \in Seq(Nat) /\ a \in Nat /\ e \in Nat /\ a <= e
          BY <1>1, <1>4
        <4> QED
          BY <4>1, <4>2, SamePiece
      <3> QED
        BY <3>7, <3>8
    <2> QED
      BY <2>1, <2>2
  <1> QED
    BY <1>4, <1>5, <1>6 DEF a, e, p

\* A reader is as it was.
LEMMA SameReader ==
    ASSUME CodecInv, UNCHANGED <<object, writer, disk, reader>>, ReadsExact'
    PROVE  CodecInv'
  <1>1. CellsOf(object') = CellsOf(object) /\ (Reading(object, reader) => Reading(object', reader'))
    OBVIOUS
  <1>2. Streamed'
    BY <1>1 DEF CodecInv, Streamed
  <1> QED
    BY <1>2, ReaderKeeps

LEMMA RangeStep ==
    ASSUME CodecInv, NEW r \in GetRanges, GetRange(r)
    PROVE  CodecInv'
  <1> DEFINE a == Clamped(r)[1]
             e == Clamped(r)[2]
             R == Ranged(a, e)
             p == object.payload
  <1>1. /\ writer.finished /\ UNCHANGED <<object, writer, disk, reader>>
        /\ answer' = [kind |-> "range", range |-> r, got |-> R.got, failed |-> R.failed]
    BY DEF GetRange
  <1>2. Recorded /\ ObjectOK(object)
    BY DEF CodecInv, Recorded
  <1>3. /\ a \in Nat /\ e \in Nat /\ a <= e /\ e <= Len(p)
        /\ Asked(r) = SubSeq(p, a + 1, e)
    BY <1>2, AskedIs
  <1> HIDE DEF a, e
  <1>4. IF R.failed THEN object.packed /\ Len(p) > MaxInflated ELSE R.got = SubSeq(p, a + 1, e)
    BY <1>1, <1>2, <1>3, RangedIs
  <1> HIDE DEF R
  <1>5. answer'.kind = "range" /\ answer'.range = r /\ answer'.got = R.got /\ answer'.failed = R.failed
    BY <1>1
  <1>6. Asked(answer.range)' = Asked(r)
    <2> DEFINE x == answer'.range
               t == BodySize(object)
               v == BodySize(object')
               I == {i \in 0..(t - 1) : CASE r.kind = "bounded" -> r.start <= i /\ i < r.end
                                          [] r.kind = "offset"  -> r.start <= i
                                          [] r.kind = "suffix"  -> i >= t - r.length}
               J == {i \in 0..(v - 1) : CASE x.kind = "bounded" -> x.start <= i /\ i < x.end
                                          [] x.kind = "offset"  -> x.start <= i
                                          [] x.kind = "suffix"  -> i >= v - x.length}
               F(q, K) == IF K = {} THEN <<>>
                          ELSE LET lo == CHOOSE i \in K : \A j \in K : i <= j
                               IN  SubSeq(q, lo + 1, lo + Cardinality(K))
    <2>1. Asked(r) = F(Body(object), I)
      BY DEF Asked
    <2>2. Asked(answer.range)' = F(Body(object'), J)
      BY DEF Asked
    <2>3. x = r /\ v = t /\ Body(object') = Body(object)
      BY <1>1, <1>5
    <2> HIDE DEF F, x, t, v
    <2>4. I = J
      BY <2>3
    <2> HIDE DEF I, J
    <2> QED
      BY <2>1, <2>2, <2>3, <2>4
  <1>7. IF answer'.failed THEN object'.packed /\ Len(object'.payload) > MaxInflated
        ELSE answer'.got = Asked(answer.range)'
    BY <1>1, <1>3, <1>4, <1>5, <1>6
  <1>8. ReadsExact'
    BY <1>5, <1>7 DEF ReadsExact
  <1> QED
    BY <1>1, <1>8, SameReader

LEMMA MetadataStep ==
    ASSUME CodecInv, GetMetadata
    PROVE  CodecInv'
  <1> DEFINE p == object.payload
             a == BodySize(object)
             e == Len(p)
             R == Ranged(a, e)
  <1>1. /\ writer.finished /\ UNCHANGED <<object, writer, disk, reader>>
        /\ answer' = [kind |-> "meta", got |-> R.got, failed |-> R.failed]
    BY DEF GetMetadata
  <1>2. Recorded /\ ObjectOK(object)
    BY DEF CodecInv, Recorded
  <1>3. a \in 0..e /\ e \in Nat
    BY <1>2, ContentIs DEF ObjectOK
  <1>4. a \in Nat /\ a <= e /\ e <= Len(p)
    BY <1>3
  <1> HIDE DEF a
  <1>5. IF R.failed THEN object.packed /\ Len(p) > MaxInflated ELSE R.got = SubSeq(p, a + 1, e)
    BY <1>1, <1>2, <1>3, <1>4, RangedIs
  <1> HIDE DEF R
  <1>6. answer'.kind = "meta" /\ answer'.got = R.got /\ answer'.failed = R.failed
    BY <1>1
  <1>7. IF answer'.failed THEN object'.packed /\ Len(object'.payload) > MaxInflated
        ELSE answer'.got = SubSeq(object'.payload, BodySize(object') + 1, Len(object'.payload))
    BY <1>1, <1>5, <1>6 DEF a
  <1>8. ReadsExact'
    BY <1>6, <1>7 DEF ReadsExact
  <1> QED
    BY <1>1, <1>8, SameReader

LEMMA CodecStart ==
    ASSUME CodecInit
    PROVE  CodecInv
  <1>1. PICK n \in Sizes, m \in MetaSizes, z \in BOOLEAN :
           m <= n /\ (z => n > 1) /\ object = [payload |-> Cells(n), meta |-> m, packed |-> z]
    BY DEF CodecInit
  <1>2. n \in Nat \ {0} /\ m \in Nat /\ n < Word /\ Word \in Nat /\ BlockData \in Nat \ {0}
    BY CodecAssumption
  <1>3. Cells(n) \in Seq(Nat) /\ Len(Cells(n)) = n
    BY <1>2 DEF Cells
  <1>4. object.payload = Cells(n) /\ object.meta = m /\ object.packed = z
    BY <1>1
  <1>5. ObjectOK(object)
    BY <1>1, <1>2, <1>3, <1>4 DEF ObjectOK
  <1> DEFINE T == CellsOf(object)
             B == [1..BlockData -> T]
             c == Content(object)
             s == <<>>
  <1>6. c \in Seq(T) /\ Len(c) \in Nat
    BY <1>5, ContentIs
  <1>7. s \in Seq(T) /\ s \in Seq(B) /\ s \o s = s /\ Len(s) = 0
    OBVIOUS
  <1>8. /\ writer = [left |-> c, data |-> s, partial |-> s, batch |-> s, finished |-> FALSE]
        /\ disk = s /\ reader = NoReader /\ answer = NoAnswer
    BY DEF CodecInit
  <1>9. NoReader \in Readings(T) /\ ~ NoReader.on
    <2>1. <<>> \in Seq(T)
      OBVIOUS
    <2> HIDE DEF T
    <2> QED
      BY <2>1 DEF NoReader, Readings
  <1>10. ReadsExact
    BY <1>8 DEF ReadsExact, NoAnswer
  <1> HIDE DEF T, c, s
  <1>11. Laid(T, c, s, s, s, c)
    <2>1. Len(s) * BlockData = 0
      BY <1>2, <1>7
    <2>2. Len(s) * BlockData + Len(s) + Len(s) + Len(c) = Len(c) /\ Len(s) < BlockData
      BY <1>2, <1>6, <1>7, <2>1
    <2>3. \A i \in 1..Len(c) : Len(s) * BlockData + Len(s) + Len(s) + i = i
      BY <1>6, <1>7, <2>1
    <2> QED
      BY <1>6, <1>7, <2>2, <2>3 DEF Laid
  <1> HIDE DEF B
  <1>12. writer \in Writers(T) /\ writer.finished = FALSE /\ writer.batch = s /\ writer.partial = s
         /\ writer.data = s /\ writer.left = c
    BY <1>6, <1>7, <1>8 DEF Writers, B
  <1>13. Recorded
    BY <1>5, <1>7, <1>8, <1>11, <1>12 DEF Recorded, B, T, c
  <1>14. Streamed
    BY <1>8, <1>9 DEF Streamed, T
  <1> QED
    BY <1>10, <1>13, <1>14 DEF CodecInv

LEMMA CodecKeeps ==
    ASSUME CodecInv, [CodecNext]_codecVars
    PROVE  CodecInv'
  <1> DEFINE Goal == CodecInv'
  <1> SUFFICES Goal
    OBVIOUS
  <1> HIDE DEF Goal
  <1>1. ASSUME NEW n \in ChunkSizes, WriteChunk(n) PROVE Goal
    BY <1>1, ChunkStep DEF Goal
  <1>2. CASE FillBlock
    BY <1>2, FillStep DEF Goal
  <1>3. CASE Finish
    BY <1>3, FinishStep DEF Goal
  <1>4. CASE BeginStream
    BY <1>4, BeginStep DEF Goal
  <1>5. CASE StreamChunk
    BY <1>5, ChunkStream DEF Goal
  <1>6. CASE StreamEnd
    BY <1>6, StreamEndStep DEF Goal
  <1>7. CASE Refill
    BY <1>7, RefillStep DEF Goal
  <1>8. CASE Decoded
    BY <1>8, DecodedStep DEF Goal
  <1>9. ASSUME NEW i \in 1..Len(disk), StreamError(i) PROVE Goal
    BY <1>9, StreamErrorStep DEF Goal
  <1>10. ASSUME NEW i \in 1..Len(disk), RefillError(i) PROVE Goal
    BY <1>10, RefillErrorStep DEF Goal
  <1>11. ASSUME NEW n \in BufferSizes, ReadBuffered(n) PROVE Goal
    BY <1>11, BufferStep DEF Goal
  <1>12. ASSUME NEW r \in GetRanges, GetRange(r) PROVE Goal
    BY <1>12, RangeStep DEF Goal
  <1>13. CASE GetMetadata
    BY <1>13, MetadataStep DEF Goal
  <1>14. CASE UNCHANGED codecVars
    <2>1. UNCHANGED <<object, writer, disk, reader, answer>>
      BY <1>14 DEF codecVars
    <2>2. ReadsExact'
      BY <2>1, AnswerKept DEF CodecInv
    <2> QED
      BY <2>1, <2>2, SameReader DEF Goal
  <1> QED
    BY <1>1, <1>2, <1>3, <1>4, <1>5, <1>6, <1>7, <1>8, <1>9, <1>10, <1>11, <1>12, <1>13, <1>14, ZenonT(60)
       DEF CodecNext

\* For every size of block, batch, payload, metadata, chunk, buffer and range, a
\* read returns exactly what was written at the cells it asks for, or fails as
\* it may (StreamingBlockWriter, StreamingBlockReader, BlockReaderIo and
\* do_get_range).
THEOREM ReadsAreExact == CodecSpec => []ReadsExact
  <1>1. CodecInit => CodecInv
    BY CodecStart
  <1>2. CodecInv /\ [CodecNext]_codecVars => CodecInv'
    BY CodecKeeps
  <1>3. CodecInv => ReadsExact
    BY DEF CodecInv
  <1> QED
    BY <1>1, <1>2, <1>3, PTL DEF CodecSpec
=============================================================================
