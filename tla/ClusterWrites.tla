--------------------------- MODULE ClusterWrites ---------------------------
(***************************************************************************)
(* Client operations of shardedobjstr on one key, step by step: the two    *)
(* write paths (lib.rs write_to_shards_inner and metadata.rs               *)
(* put_with_meta), conditional creation, copy_if_not_exists, multipart     *)
(* upload, delete, and reads with their background repair.  Between two    *)
(* awaits other operations run; each shard answers on its own, and may     *)
(* refuse.  (ShardedStore has the same operations as single steps, and     *)
(* outages, syncs and sweeps around them.)                                 *)
(*                                                                         *)
(* The body that operation c writes is c itself; its metadata is a set of  *)
(* fields <<c, name>>.                                                     *)
(***************************************************************************)
EXTENDS Integers, FiniteSets, FiniteSetsExt, Sequences, SequencesExt

CONSTANTS
    Callers,      \* operations in flight
    NShards,      \* shard_count
    HomeShard,    \* the jump hash of the key
    Kind,         \* ShardKind of each shard: "raw", "s3" or "sidecar"
    StrictDelete, \* delete_requires_min_writes
    Plays,        \* which operation each caller runs, and on what state
    MaxFaults     \* shard operations that fail

Ids == 0..(NShards - 1)
NoBody == "no body"
BadBody == "corrupt"
OldBody == "old"
AlteredBody == "altered"  \* a copy that changed where no checksum notices it
NoEntry == "no entry"
NoPlace == [shards |-> {}, crc |-> NoEntry, meta |-> FALSE]
NoShard == -1

\* A play: the operation of each caller; whether the key exists, with
\* metadata, with metadata and a corrupt copy on the first shard, or an
\* altered one on the last; the replication factor and min_writes, which
\* with_min_writes keeps within it; whether the store is read-only.
Play == [ops : [Callers -> STRING], before : {"absent", "plain", "meta", "corrupt", "altered"},
         factor : 1..NShards, quorum : 1..NShards, readOnly : BOOLEAN]

ASSUME ClusterAssumption ==
    /\ NShards \in Nat \ {0} /\ HomeShard \in Ids
    /\ Kind \in [Ids -> {"raw", "s3", "sidecar"}]
    /\ Plays \subseteq Play /\ \A p \in Plays : p.quorum <= p.factor
    /\ Callers \cap {NoBody, BadBody, NoEntry} = {}
    /\ MaxFaults \in Nat

VARIABLES
    bodyOn,      \* the object's body on each shard
    metaOn,      \* its metadata on each shard: in the object, attributes or sidecar
    place,       \* the catalog entry: shards, checksum, whether meta_len is set
    status,      \* ShardInfo.health
    marker,      \* the delete marker
    call,        \* the operation of each caller
    repairs,     \* read repairs scheduled or running
    tracked,     \* multipart_uploads: the primary shard of each upload
    purge,       \* the stale uploads that a purge has collected
    faults,      \* shard operations that may still fail
    play         \* the play of this behaviour

Factor == play.factor
Quorum == play.quorum

clusterVars == <<bodyOn, metaOn, place, status, marker, call, repairs, tracked,
                 purge, faults, play>>

----------------------------------------------------------------------------
(* Placement and the catalog.                                              *)

Reachable == {s \in Ids : status[s] # "Offline"}
StepsFromHome == [s \in Ids |-> IF s >= HomeShard THEN s - HomeShard ELSE s + NShards - HomeShard]
ByNumber == [s \in Ids |-> s]

\* The shards of S in the order of their keys.
InOrder(S, key) ==
    [i \in 1..Cardinality(S) |-> CHOOSE s \in S : Cardinality({r \in S : key[r] < key[s]}) = i - 1]

\* select_targets: in the order of their numbers when all writable shards are
\* needed, else the nearest clockwise from home.
Targets(st) ==
    LET writable == {s \in Ids : st[s] # "Offline"} IN
    IF Cardinality(writable) <= Factor THEN InOrder(writable, ByNumber)
    ELSE SubSeq(InOrder(writable, StepsFromHome), 1, Factor)

\* set_shard_health for each shard of S.
Marked(S, health) == [s \in Ids |-> IF s \in S THEN health ELSE status[s]]

\* mark_write_failures.
AfterFailures(placed, failed) ==
    IF placed = {} THEN Marked(failed, "Offline")
    ELSE Marked({s \in failed : status[s] = "Healthy"}, "Degraded")

\* Catalog::put, try_insert, add_replica and remove_shard.
Placed(S, body, meta) == [shards |-> S, crc |-> body, meta |-> meta # {}]
Placeholder(S) == [shards |-> S, crc |-> NoBody, meta |-> FALSE]
Replicated(s, meta) ==
    LET entry == IF place = NoPlace THEN Placeholder({}) ELSE place
    IN  [entry EXCEPT !.shards = @ \cup {s}, !.meta = @ \/ meta # {}]
Without(S) == IF place.shards \subseteq S THEN NoPlace ELSE [place EXCEPT !.shards = @ \ S]

----------------------------------------------------------------------------
(* What one shard does.                                                    *)

\* meta_to_attributes keeps the headers that S3 knows.
AttributesOf(meta) == {f \in meta : f[2] = "header"}

\* What a write leaves as metadata on shard s: a plain put does not touch a
\* sidecar.
MetaAfter(s, meta) ==
    CASE Kind[s] = "raw" -> meta
      [] Kind[s] = "s3" -> AttributesOf(meta)
      [] Kind[s] = "sidecar" -> IF meta = {} THEN metaOn[s] ELSE meta

\* try_put_shard and store.put: the body and the metadata go together.
Store(s, body, meta) ==
    /\ bodyOn' = [bodyOn EXCEPT ![s] = body]
    /\ metaOn' = [metaOn EXCEPT ![s] = MetaAfter(s, meta)]
    /\ UNCHANGED faults

\* The shard fails; a sidecar shard may have taken the body before.
Refuse(s, body, meta) ==
    /\ faults > 0 /\ faults' = faults - 1
    /\ \/ UNCHANGED bodyOn
       \/ Kind[s] = "sidecar" /\ meta # {} /\ bodyOn' = [bodyOn EXCEPT ![s] = body]
    /\ UNCHANGED metaOn

\* store.delete and cleanup_sidecar.
Erase(s) ==
    /\ bodyOn' = [bodyOn EXCEPT ![s] = NoBody]
    /\ metaOn' = [metaOn EXCEPT ![s] = {}]

Fault == faults > 0 /\ faults' = faults - 1

----------------------------------------------------------------------------
(* Operations.                                                             *)

Fields(c) == {<<c, "header">>, <<c, "etag">>}
WithMeta == {"put_meta", "put_file", "copy_new_meta"}
Creates == {"create", "copy_new", "copy_new_meta"}
OpOf(c) == play.ops[c]
At(c, step) == call[c].step = step
MetaOf(c) == IF OpOf(c) \in WithMeta THEN Fields(c) ELSE {}

NewCall == [step |-> "begin", targets |-> <<>>, order |-> <<>>, todo |-> {}, placed |-> {}, failed |-> {},
            retried |-> FALSE, again |-> FALSE, data |-> NoBody, fields |-> {},
            primary |-> NoShard, clean |-> TRUE]

Running(c) == call[c].step \notin {"begin", "done", "failed"}

\* Caller c moves on; it and the others that run at the same time have
\* been disturbed by each other.
Go(c, r) ==
    LET busy == {d \in Callers \ {c} : Running(d)} IN
    call' = [d \in Callers |->
               IF d = c THEN [r EXCEPT !.clean = @ /\ busy = {} /\ repairs = {} /\ purge = {}]
               ELSE IF d \in busy THEN [call[d] EXCEPT !.clean = FALSE]
               ELSE call[d]]

Move(c, step) == Go(c, [call[c] EXCEPT !.step = step])
FanOut(c, seq) ==
    [call[c] EXCEPT !.step = "write", !.targets = seq, !.order = seq, !.todo = ToSet(seq),
                    !.placed = {}, !.failed = {}, !.retried = FALSE]

\* put, put_with_meta and put_with_meta_from_file choose the targets.  The
\* file path does not look at read_only.
BeginPut(c) ==
    /\ At(c, "begin") /\ OpOf(c) \in {"put", "put_meta", "put_file"}
    /\ IF (play.readOnly /\ OpOf(c) # "put_file") \/ Targets(status) = <<>> THEN Move(c, "failed")
       ELSE Go(c, FanOut(c, Targets(status)))
    /\ UNCHANGED <<bodyOn, metaOn, place, status, marker, repairs, tracked,
                   purge, faults, play>>

\* Mutant of TryInsert: the entry is written without a look at the key.
InsertAnyway == TRUE

\* try_insert succeeds on a vacant key.
TryInsert == place = NoPlace

\* put_opts with PutMode::Create enters a placeholder before it writes.
BeginCreate(c) ==
    /\ At(c, "begin") /\ OpOf(c) = "create"
    /\ IF play.readOnly \/ Targets(status) = <<>> \/ ~ TryInsert
       THEN Move(c, "failed") /\ UNCHANGED place
       ELSE /\ place' = Placeholder(ToSet(Targets(status)))
            /\ Go(c, FanOut(c, Targets(status)))
    /\ UNCHANGED <<bodyOn, metaOn, status, marker, repairs, tracked, purge,
                   faults, play>>

\* copy_if_not_exists looks for the destination, reads the source, enters a
\* placeholder and then writes.
CopyCheck(c) ==
    /\ At(c, "begin") /\ OpOf(c) \in {"copy_new", "copy_new_meta"}
    /\ Move(c, IF play.readOnly \/ place # NoPlace THEN "failed" ELSE "insert")
    /\ UNCHANGED <<bodyOn, metaOn, place, status, marker, repairs, tracked,
                   purge, faults, play>>

CopyInsert(c) ==
    /\ At(c, "insert")
    /\ IF TryInsert
       THEN /\ place' = Placeholder(ToSet(Targets(status)))
            /\ Go(c, FanOut(c, Targets(status)))
       ELSE Move(c, "failed") /\ UNCHANGED place
    /\ UNCHANGED <<bodyOn, metaOn, status, marker, repairs, tracked, purge,
                   faults, play>>

----------------------------------------------------------------------------
(* The fan-out of write_to_shards_inner, put_with_meta and multipart       *)
(* complete.                                                               *)

\* The bytes and the metadata that c writes: its own, or what multipart
\* complete has read back from the primary.
DataOf(c) == IF OpOf(c) = "multipart" THEN call[c].data ELSE c
FieldsOf(c) == IF OpOf(c) = "multipart" THEN call[c].fields ELSE MetaOf(c)

\* put_with_meta_from_file writes its targets one after the other.
InTurn(c, s) ==
    OpOf(c) = "put_file" =>
        s = call[c].order[SelectInSeq(call[c].order, LAMBDA t : t \in call[c].todo)]

WriteOne(c, s) ==
    /\ At(c, "write") /\ s \in call[c].todo /\ InTurn(c, s)
    /\ \/ /\ Store(s, DataOf(c), FieldsOf(c))
          /\ Go(c, [call[c] EXCEPT !.todo = @ \ {s}, !.placed = @ \cup {s}])
       \/ /\ Refuse(s, DataOf(c), FieldsOf(c))
          /\ Go(c, [call[c] EXCEPT !.todo = @ \ {s}, !.failed = @ \cup {s}])
    /\ UNCHANGED <<place, status, marker, repairs, tracked, purge, play>>

Answered(c) == At(c, "write") /\ call[c].todo = {} /\ OpOf(c) # "multipart"
HealthAfter(c) == IF call[c].retried THEN status ELSE AfterFailures(call[c].placed, call[c].failed)

\* The shards of a second attempt when all targets failed.
Fresh(c) == SelectSeq(Targets(HealthAfter(c)), LAMBDA s : s \notin ToSet(call[c].targets))

RetryWrites(c) ==
    /\ Answered(c) /\ call[c].placed = {} /\ ~ call[c].retried /\ Fresh(c) # <<>>
    /\ status' = HealthAfter(c)
    /\ Go(c, [call[c] EXCEPT !.order = Fresh(c), !.todo = ToSet(Fresh(c)), !.retried = TRUE])
    /\ UNCHANGED <<bodyOn, metaOn, place, marker, repairs, tracked, purge,
                   faults, play>>

\* Where an operation goes that could not write.
Undo(c) ==
    CASE OpOf(c) = "create" -> "unplace"
      [] OpOf(c) \in {"copy_new", "copy_new_meta"} -> "remove"
      [] OTHER -> "failed"

\* AllReplicasFailed.  put and put_opts take the targets offline and write
\* once more to what select_targets then returns.
AllFailed(c) ==
    /\ Answered(c) /\ call[c].placed = {} /\ (call[c].retried \/ Fresh(c) = <<>>)
    /\ LET outer == OpOf(c) \in {"put", "create"} /\ ~ call[c].again
           after == IF outer THEN Marked(ToSet(call[c].targets), "Offline") ELSE HealthAfter(c)
           next  == Targets(after)
       IN  /\ status' = after
           /\ IF outer /\ next # <<>> /\ next # call[c].targets
              THEN Go(c, [FanOut(c, next) EXCEPT !.again = TRUE])
              ELSE Move(c, Undo(c))
    /\ UNCHANGED <<bodyOn, metaOn, place, marker, repairs, tracked, purge,
                   faults, play>>

\* InsufficientWrites.
TooFew(c) ==
    /\ Answered(c) /\ call[c].placed # {} /\ Cardinality(call[c].placed) < Quorum
    /\ status' = HealthAfter(c)
    /\ Move(c, "orphans")
    /\ UNCHANGED <<bodyOn, metaOn, place, marker, repairs, tracked, purge,
                   faults, play>>

\* Mutant of Orphans: what was written is removed whatever the catalog says.
OrphansAnyway(c) ==
    /\ At(c, "orphans")
    /\ Go(c, [call[c] EXCEPT !.step = "clean", !.todo = call[c].placed])
    /\ UNCHANGED <<bodyOn, metaOn, place, status, marker, repairs, tracked,
                   purge, faults, play>>

\* cleanup_orphaned_writes looks for the key in the catalog, then deletes.
Orphans(c) ==
    /\ At(c, "orphans")
    /\ IF place = NoPlace
       THEN Go(c, [call[c] EXCEPT !.step = "clean", !.todo = call[c].placed])
       ELSE Move(c, Undo(c))
    /\ UNCHANGED <<bodyOn, metaOn, place, status, marker, repairs, tracked,
                   purge, faults, play>>

CleanOne(c, s) ==
    /\ At(c, "clean") /\ s \in call[c].todo
    /\ \/ Erase(s) /\ UNCHANGED faults
       \/ Fault /\ UNCHANGED <<bodyOn, metaOn>>
    /\ IF call[c].todo = {s} THEN Move(c, Undo(c)) ELSE Go(c, [call[c] EXCEPT !.todo = @ \ {s}])
    /\ UNCHANGED <<place, status, marker, repairs, tracked, purge, play>>

\* The entry is looked at, and removed in a later step.
Unplace(c) ==
    /\ At(c, "unplace")
    /\ Move(c, IF place # NoPlace /\ place.crc = NoBody THEN "remove" ELSE "failed")
    /\ UNCHANGED <<bodyOn, metaOn, place, status, marker, repairs, tracked,
                   purge, faults, play>>

RemoveEntry(c) ==
    /\ At(c, "remove")
    /\ place' = NoPlace
    /\ Move(c, "failed")
    /\ UNCHANGED <<bodyOn, metaOn, status, marker, repairs, tracked, purge,
                   faults, play>>

\* Mutant of Commit: the entry names the shards that were asked.
CommitTargets(c) ==
    /\ Answered(c) /\ Cardinality(call[c].placed) >= Quorum
    /\ status' = HealthAfter(c)
    /\ place' = Placed(ToSet(call[c].targets), c, MetaOf(c))
    /\ Move(c, IF OpOf(c) \in {"put", "create"} THEN "unmark" ELSE "done")
    /\ UNCHANGED <<bodyOn, metaOn, marker, repairs, tracked, purge, faults, play>>

\* The catalog takes the shards that were written; put and put_opts then
\* remove the delete marker.
Commit(c) ==
    /\ Answered(c) /\ Cardinality(call[c].placed) >= Quorum
    /\ status' = HealthAfter(c)
    /\ place' = Placed(call[c].placed, c, MetaOf(c))
    /\ Move(c, IF OpOf(c) \in {"put", "create"} THEN "unmark" ELSE "done")
    /\ UNCHANGED <<bodyOn, metaOn, marker, repairs, tracked, purge, faults, play>>

\* remove_delete_marker, best effort.
Unmark(c) ==
    /\ At(c, "unmark")
    /\ \/ marker' = FALSE /\ UNCHANGED faults
       \/ marker /\ Fault /\ UNCHANGED marker
    /\ Move(c, "done")
    /\ UNCHANGED <<bodyOn, metaOn, place, status, repairs, tracked, purge, play>>

----------------------------------------------------------------------------
(* Multipart upload: the parts go to the primary, the first target.        *)

Upload(c, seq) ==
    [call[c] EXCEPT !.step = "parts", !.primary = Head(seq), !.order = Tail(seq)]

\* put_multipart_opts; a primary that refuses goes offline and the next
\* choice is asked once.
BeginUpload(c) ==
    /\ At(c, "begin") /\ OpOf(c) = "multipart"
    /\ LET first == Targets(status) IN
       IF play.readOnly \/ first = <<>>
       THEN Move(c, "failed") /\ UNCHANGED <<status, tracked, faults>>
       ELSE \/ /\ Go(c, Upload(c, first))
               /\ tracked' = [tracked EXCEPT ![c] = Head(first)]
               /\ UNCHANGED <<status, faults>>
            \/ /\ Fault
               /\ status' = Marked({Head(first)}, "Offline")
               /\ Move(c, "upload")
               /\ UNCHANGED tracked
    /\ UNCHANGED <<bodyOn, metaOn, place, marker, repairs, purge, play>>

RetryUpload(c) ==
    /\ At(c, "upload")
    /\ IF Targets(status) = <<>> THEN Move(c, "failed") /\ UNCHANGED <<tracked, faults>>
       ELSE \/ /\ Go(c, Upload(c, Targets(status)))
               /\ tracked' = [tracked EXCEPT ![c] = Head(Targets(status))]
               /\ UNCHANGED faults
            \/ Fault /\ Move(c, "failed") /\ UNCHANGED tracked
    /\ UNCHANGED <<bodyOn, metaOn, place, status, marker, repairs, purge, play>>

AbortUpload(c) ==
    /\ At(c, "parts")
    /\ tracked' = [tracked EXCEPT ![c] = NoShard]
    /\ Move(c, "failed")
    /\ UNCHANGED <<bodyOn, metaOn, place, status, marker, repairs, purge, faults, play>>

\* complete: the primary assembles the object; when it fails the upload
\* stays registered.
CompletePrimary(c) ==
    /\ At(c, "parts")
    /\ \/ Store(call[c].primary, c, {}) /\ Move(c, "untrack")
       \/ Fault /\ Move(c, "failed") /\ UNCHANGED <<bodyOn, metaOn>>
    /\ UNCHANGED <<place, status, marker, repairs, tracked, purge, play>>

Untrack(c) ==
    /\ At(c, "untrack")
    /\ tracked' = [tracked EXCEPT ![c] = NoShard]
    /\ Move(c, "readback")
    /\ UNCHANGED <<bodyOn, metaOn, place, status, marker, repairs, purge, faults, play>>

Readable(b) == b \notin {NoBody, BadBody}

\* The meta_len that a shard reports by itself: only raw shards keep one.
IndexedMeta(s) == IF Kind[s] = "raw" THEN metaOn[s] ELSE {}

\* The object is read back from the primary with what metadata is found
\* there, and goes to the other targets; without any it is entered at once.
ReadBack(c) ==
    /\ At(c, "readback")
    /\ LET p == call[c].primary IN
       \/ /\ Readable(bodyOn[p])
          /\ IF call[c].order = <<>>
             THEN place' = Placed({p}, bodyOn[p], IndexedMeta(p)) /\ Move(c, "done")
             ELSE /\ Go(c, [call[c] EXCEPT !.step = "write", !.todo = ToSet(call[c].order), !.placed = {p},
                                !.data = bodyOn[p], !.fields = metaOn[p]])
                  /\ UNCHANGED place
          /\ UNCHANGED faults
       \/ ~ Readable(bodyOn[p]) /\ Move(c, "failed") /\ UNCHANGED <<place, faults>>
       \/ Fault /\ Move(c, "failed") /\ UNCHANGED place
    /\ UNCHANGED <<bodyOn, metaOn, status, marker, repairs, tracked, purge, play>>

CompleteUpload(c) ==
    /\ At(c, "write") /\ call[c].todo = {} /\ OpOf(c) = "multipart"
    /\ IF Cardinality(call[c].placed) < Quorum
       THEN /\ Go(c, [call[c] EXCEPT !.step = "withdraw", !.todo = call[c].placed])
            /\ UNCHANGED place
       ELSE place' = Placed(call[c].placed, call[c].data, call[c].fields) /\ Move(c, "done")
    /\ UNCHANGED <<bodyOn, metaOn, status, marker, repairs, tracked, purge,
                   faults, play>>

\* Without a quorum the object is deleted wherever it was written; a sidecar
\* stays.
WithdrawOne(c, s) ==
    /\ At(c, "withdraw") /\ s \in call[c].todo
    /\ \/ /\ bodyOn' = [bodyOn EXCEPT ![s] = NoBody]
          /\ metaOn' = IF Kind[s] = "sidecar" THEN metaOn ELSE [metaOn EXCEPT ![s] = {}]
          /\ UNCHANGED faults
       \/ Fault /\ UNCHANGED <<bodyOn, metaOn>>
    /\ IF call[c].todo = {s} THEN Move(c, "failed") ELSE Go(c, [call[c] EXCEPT !.todo = @ \ {s}])
    /\ UNCHANGED <<place, status, marker, repairs, tracked, purge, play>>

\* purge_stale_multiparts collects the uploads that have expired, then
\* deletes the location on the primary of each and forgets the upload.
PurgeCollect ==
    /\ purge = {}
    /\ \E stale \in (SUBSET {c \in Callers : tracked[c] # NoShard}) \ {{}} :
           purge' = {<<c, tracked[c]>> : c \in stale}
    /\ call' = [c \in Callers |-> IF Running(c) THEN [call[c] EXCEPT !.clean = FALSE] ELSE call[c]]
    /\ UNCHANGED <<bodyOn, metaOn, place, status, marker, repairs, tracked,
                   faults, play>>

PurgeOne(u) ==
    /\ u \in purge
    /\ bodyOn' = [bodyOn EXCEPT ![u[2]] = NoBody]
    /\ metaOn' = IF Kind[u[2]] = "sidecar" THEN metaOn ELSE [metaOn EXCEPT ![u[2]] = {}]
    /\ tracked' = [tracked EXCEPT ![u[1]] = NoShard]
    /\ purge' = purge \ {u}
    /\ UNCHANGED <<place, status, marker, call, repairs, faults, play>>

----------------------------------------------------------------------------
(* delete.                                                                 *)

BeginDelete(c) ==
    /\ At(c, "begin") /\ OpOf(c) = "delete"
    /\ IF play.readOnly \/ Reachable = {} THEN Move(c, "failed") /\ UNCHANGED <<marker, faults>>
       ELSE \/ marker' = TRUE /\ Move(c, "lookup") /\ UNCHANGED faults
            \/ Fault /\ Move(c, "failed") /\ UNCHANGED marker
    /\ UNCHANGED <<bodyOn, metaOn, place, status, repairs, tracked, purge, play>>

\* The shards of the entry, or all shards on a catalog miss.
Resolved == IF place = NoPlace THEN Reachable ELSE place.shards \cap Reachable

DeleteLookup(c) ==
    /\ At(c, "lookup")
    /\ Go(c, [call[c] EXCEPT !.step = "erase", !.todo = Resolved])
    /\ UNCHANGED <<bodyOn, metaOn, place, status, marker, repairs, tracked,
                   purge, faults, play>>

EraseOne(c, s) ==
    /\ At(c, "erase") /\ s \in call[c].todo
    /\ \/ /\ Erase(s) /\ UNCHANGED faults
          /\ Go(c, [call[c] EXCEPT !.todo = @ \ {s}, !.placed = @ \cup {s}])
       \/ /\ Fault
          /\ bodyOn' = bodyOn
          /\ metaOn' \in {metaOn, IF Kind[s] = "sidecar" THEN [metaOn EXCEPT ![s] = {}] ELSE metaOn}
          /\ Go(c, [call[c] EXCEPT !.todo = @ \ {s}, !.failed = @ \cup {s}])
    /\ UNCHANGED <<place, status, marker, repairs, tracked, purge, play>>

DeleteCollect(c) ==
    /\ At(c, "erase") /\ call[c].todo = {}
    /\ LET gone == call[c].placed IN
       /\ place' = IF call[c].failed = {} THEN NoPlace ELSE Without(gone)
       /\ Move(c, IF \/ call[c].failed = {}
                     \/ IF StrictDelete THEN Cardinality(gone) >= Quorum ELSE gone # {}
                  THEN "done" ELSE "failed")
    /\ UNCHANGED <<bodyOn, metaOn, status, marker, repairs, tracked, purge,
                   faults, play>>

----------------------------------------------------------------------------
(* Reads: read_with_fallback, with the repair of corrupt copies.           *)

BeginGet(c) ==
    /\ At(c, "begin") /\ OpOf(c) = "get"
    /\ IF Resolved = {} THEN Move(c, "failed")
       ELSE Go(c, [call[c] EXCEPT !.step = "read", !.todo = Resolved, !.again = place = NoPlace])
    /\ UNCHANGED <<bodyOn, metaOn, place, status, marker, repairs, tracked,
                   purge, faults, play>>

\* schedule_read_repair
Repair(good, bad) == [good |-> good, bad |-> bad, step |-> "read", data |-> NoBody, fields |-> {}]

\* Read preference and rotation make any shard the next one.  A miss on the
\* catalog enters the shard that answered; a corrupt copy leaves the catalog.
ReadOne(c, s) ==
    LET rest == [call[c] EXCEPT !.todo = @ \ {s}, !.step = IF call[c].todo = {s} THEN "failed" ELSE @] IN
    /\ At(c, "read") /\ s \in call[c].todo
    /\ \/ /\ Readable(bodyOn[s])
          /\ place' = IF call[c].again THEN Replicated(s, IndexedMeta(s)) ELSE place
          /\ repairs' = repairs \cup {Repair(s, b) : b \in call[c].failed \cap Reachable}
          /\ Go(c, [call[c] EXCEPT !.step = "done", !.data = bodyOn[s]])
          /\ UNCHANGED faults
       \/ /\ bodyOn[s] = BadBody
          /\ place' = Without({s})
          /\ Go(c, [rest EXCEPT !.failed = @ \cup {s}])
          /\ UNCHANGED <<repairs, faults>>
       \/ bodyOn[s] = NoBody /\ Go(c, rest) /\ UNCHANGED <<place, repairs, faults>>
       \/ Fault /\ Go(c, rest) /\ UNCHANGED <<place, repairs>>
    /\ UNCHANGED <<bodyOn, metaOn, status, marker, tracked, purge, play>>

Proceed(r, next) == repairs' = (repairs \ {r}) \cup next

RepairRead(r) ==
    /\ r \in repairs /\ r.step = "read"
    /\ \/ /\ Readable(bodyOn[r.good])
          /\ Proceed(r, {[r EXCEPT !.step = "write", !.data = bodyOn[r.good], !.fields = metaOn[r.good]]})
          /\ UNCHANGED faults
       \/ ~ Readable(bodyOn[r.good]) /\ Proceed(r, {}) /\ UNCHANGED faults
       \/ Fault /\ Proceed(r, {})
    /\ UNCHANGED <<bodyOn, metaOn, place, status, marker, call, tracked, purge, play>>

RepairWrite(r) ==
    /\ r \in repairs /\ r.step = "write"
    /\ \/ Store(r.bad, r.data, r.fields) /\ Proceed(r, {[r EXCEPT !.step = "enter"]})
       \/ Refuse(r.bad, r.data, r.fields) /\ Proceed(r, {})
    /\ UNCHANGED <<place, status, marker, call, tracked, purge, play>>

\* Mutant of RepairEnter: the repaired copy stays out of the catalog.
RepairForget(r) ==
    /\ r \in repairs /\ r.step = "enter"
    /\ UNCHANGED place
    /\ Proceed(r, {})
    /\ UNCHANGED <<bodyOn, metaOn, status, marker, call, tracked, purge, faults, play>>

RepairEnter(r) ==
    /\ r \in repairs /\ r.step = "enter"
    /\ place' = Replicated(r.bad, r.fields)
    /\ Proceed(r, {})
    /\ UNCHANGED <<bodyOn, metaOn, status, marker, call, tracked, purge, faults, play>>

----------------------------------------------------------------------------
InitialShards == ToSet(Targets([s \in Ids |-> "Healthy"]))

ClusterInit ==
    /\ play \in Plays
    /\ LET held == IF play.before = "absent" THEN {} ELSE InitialShards
           bad  == IF play.before = "corrupt" THEN {HomeShard} ELSE {}
           last == IF play.before = "altered" THEN {InOrder(held, StepsFromHome)[Cardinality(held)]} ELSE {}
       IN  /\ bodyOn = [s \in Ids |-> CASE s \in bad -> BadBody
                                        [] s \in last -> AlteredBody
                                        [] s \in held \ (bad \cup last) -> OldBody
                                        [] OTHER -> NoBody]
           /\ metaOn = [s \in Ids |-> IF s \in held /\ play.before # "plain" THEN Fields(OldBody) ELSE {}]
           /\ place = IF held = {} THEN NoPlace ELSE Placed(held, OldBody, IF play.before = "plain" THEN {} ELSE Fields(OldBody))
    /\ status = [s \in Ids |-> "Healthy"]
    /\ marker = (play.before = "absent")
    /\ call = [c \in Callers |-> NewCall]
    /\ repairs = {} /\ purge = {}
    /\ tracked = [c \in Callers |-> NoShard]
    /\ faults = MaxFaults

CallNext(c) ==
    \/ BeginPut(c) \/ BeginCreate(c) \/ CopyCheck(c) \/ CopyInsert(c)
    \/ BeginUpload(c) \/ BeginDelete(c) \/ BeginGet(c)
    \/ RetryWrites(c) \/ AllFailed(c) \/ TooFew(c) \/ Orphans(c)
    \/ Unplace(c) \/ RemoveEntry(c) \/ Commit(c) \/ Unmark(c)
    \/ RetryUpload(c) \/ AbortUpload(c) \/ CompletePrimary(c) \/ Untrack(c)
    \/ ReadBack(c) \/ CompleteUpload(c)
    \/ DeleteLookup(c) \/ DeleteCollect(c)
    \/ \E s \in Ids : WriteOne(c, s) \/ CleanOne(c, s) \/ WithdrawOne(c, s) \/ EraseOne(c, s) \/ ReadOne(c, s)

ClusterNext ==
    \/ \E c \in Callers : CallNext(c)
    \/ \E r \in repairs : RepairRead(r) \/ RepairWrite(r) \/ RepairEnter(r)
    \/ PurgeCollect
    \/ \E u \in purge : PurgeOne(u)

ClusterSpec == ClusterInit /\ [][ClusterNext]_clusterVars

----------------------------------------------------------------------------
(* Properties.                                                             *)

OpsUsed == {OpOf(c) : c \in Callers} \ {"none"}

\* What the answer of an operation promises when nothing else ran with it:
\* the entry names min_writes shards or more (a multipart upload with a
\* single target is exempt) and each of them has the body, and the metadata
\* when the operation writes some; a delete leaves no entry and no copy, if
\* no shard failed and no operation before it was disturbed either (a put and
\* a delete that race can leave copies without an entry, a read then enters
\* one of them, and the next delete takes only that one).  About put
\* (lib.rs:2841), put_opts, copy_if_not_exists, put_with_meta
\* (metadata.rs:260), multipart complete and delete_raw.
Exact(c) ==
    CASE OpOf(c) \in {"put", "create", "copy_new", "put_meta", "put_file", "copy_new_meta"} ->
            /\ Cardinality(place.shards) >= Quorum
            /\ \A s \in place.shards : bodyOn[s] = c
            /\ OpOf(c) \in WithMeta => \A s \in place.shards : metaOn[s] = MetaAfter(s, Fields(c))
      [] OpOf(c) = "multipart" ->
            /\ call[c].order # <<>> => Cardinality(place.shards) >= Quorum
            /\ \A s \in place.shards : bodyOn[s] = c
      [] OpOf(c) = "delete" ->
            faults = MaxFaults /\ (\A d \in Callers : call[d].clean) =>
                place = NoPlace /\ \A s \in Ids : ~ Readable(bodyOn[s])
      [] OTHER -> TRUE

UndisturbedOpExact ==
    [][\A c \in Callers : ~ At(c, "done") /\ At(c, "done")' /\ call'[c].clean => Exact(c)']_clusterVars

\* Of operations that must create the key at most one succeeds, and as long
\* as only such operations run every shard of the entry has its body: the
\* placeholder of try_insert (lib.rs:2920, 3305) keeps the others out, through
\* every failure and retry.
CreateOnce ==
    OpsUsed \subseteq Creates =>
        /\ Cardinality({c \in Callers : At(c, "done") \/ At(c, "unmark")}) <= 1
        /\ \A c \in Callers : At(c, "done") \/ At(c, "unmark") =>
               place.crc = c /\ \A s \in place.shards : bodyOn[s] = c

\* Once a put of either write path that ran undisturbed has been answered,
\* the catalog keeps an entry with a readable copy behind it while later puts
\* of the same key run into each other and fail half way:
\* cleanup_orphaned_writes (lib.rs:1244) must not take what it finds written.
AckedPutsReadable ==
    /\ OpsUsed \subseteq {"put", "put_meta", "put_file"}
    /\ \E c \in Callers : At(c, "done") /\ call[c].clean
    => \E s \in place.shards : Readable(bodyOn[s])

\* Once read repair (lib.rs:1032) is through, and unless a shard failed, the
\* corrupt copy has been replaced by the good one and is back in the catalog,
\* however many readers met it.
ReadRepairRestores ==
    /\ OpsUsed = {"get"} /\ faults = MaxFaults
    /\ repairs = {} /\ \A c \in Callers : ~ Running(c)
    /\ \E c \in Callers : At(c, "done") /\ call[c].failed # {}
    => \A s \in InitialShards : s \in place.shards /\ bodyOn[s] = OldBody
=============================================================================
