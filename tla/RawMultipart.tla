---------------------------- MODULE RawMultipart ----------------------------
(***************************************************************************)
(* Multipart uploads over a RawStore (RawMultipartUpload in                *)
(* rawobjstr/src/store.rs).  put_part numbers a part when it is called and *)
(* returns a future that spools the part to a temporary extent; the        *)
(* futures of one upload run in any order, or after the upload has ended.  *)
(* complete joins the parts in call order, abort discards them, and a      *)
(* crash leaves their extents for the next read-write open to purge.       *)
(***************************************************************************)
EXTENDS RawStore, FiniteSets, SequencesExt

CONSTANTS Uploads,      \* upload ids that one process hands out
          MaxParts,     \* bound on the parts of an upload
          Unused        \* an id that next_upload_id has not reached

\* The key of part i of upload u, under MULTIPART_TMP_PREFIX.
PartKey(u, i) == <<u, i>>

\* RawMultipartUpload.  dest: location.  parts: the payloads in the order of
\* the put_part calls.  pending: futures that have not run.  open: neither
\* complete nor abort has cleared part_keys.  late: history, a future ran
\* after that.
Upload == [dest : Keys, parts : Seq(Bodies), pending : SUBSET Nat,
           open : BOOLEAN, late : BOOLEAN]

ASSUME RawMultipartAssumption ==
    /\ MaxParts \in Nat
    /\ TmpKeys = Uploads \X (1..MaxParts)
    /\ Unused \notin Upload

VARIABLE up             \* per id, Unused or the state of the upload

mvars == <<vars, up>>

\* No id is in use at first.
MInit == Init /\ up = [u \in Uploads |-> Unused]

\* put_multipart_opts.
BeginUpload(u, k) ==
    /\ mode = "rw"
    /\ up[u] = Unused
    /\ up' = [up EXCEPT ![u] = [dest |-> k, parts |-> <<>>, pending |-> {},
                                open |-> TRUE, late |-> FALSE]]
    /\ UNCHANGED vars

\* put_part: the number is taken now, the write is left to the future.
PutPart(u, p) ==
    /\ up[u] # Unused
    /\ up[u].open
    /\ Len(up[u].parts) < MaxParts
    /\ up' = [up EXCEPT ![u].parts = Append(@, p),
                        ![u].pending = @ \cup {Len(up[u].parts) + 1}]
    /\ UNCHANGED vars

\* Mutant of RunPart: the future takes its number when it runs.
RunPartLateNumber(u, i) ==
    /\ up[u] # Unused
    /\ i \in up[u].pending
    /\ Put(PartKey(u, Len(up[u].parts) - Cardinality(up[u].pending) + 1),
           up[u].parts[i], <<>>)
    /\ up' = [up EXCEPT ![u].pending = @ \ {i}, ![u].late = @ \/ ~ up[u].open]

\* The future of part i runs do_put.
RunPart(u, i) ==
    /\ up[u] # Unused
    /\ i \in up[u].pending
    /\ Put(PartKey(u, i), up[u].parts[i], <<>>)
    /\ up' = [up EXCEPT ![u].pending = @ \ {i}, ![u].late = @ \/ ~ up[u].open]

\* The caller drops the future of part i, or its write fails.
DropPart(u, i) ==
    /\ up[u] # Unused
    /\ i \in up[u].pending
    /\ up' = [up EXCEPT ![u].pending = @ \ {i}]
    /\ UNCHANGED vars

PartKeys(u) == {PartKey(u, i) : i \in 1..Len(up[u].parts)}

\* Mutant of RemoveParts: the entries go, their extents are not freed.
RemovePartsLeaking(f, fr, parts) ==
    /\ files' = [k \in AllKeys |-> IF k \in parts THEN None ELSE f[k]]
    /\ free' = fr

\* Drop the temporary extents of an upload from an index f with free
\* blocks fr, and free them.
RemoveParts(f, fr, parts) ==
    /\ files' = [k \in AllKeys |-> IF k \in parts THEN None ELSE f[k]]
    /\ free' = IF mode = "rw" THEN fr \cup UNION {Extent(f[k]) : k \in parts} ELSE fr

\* complete: every part must be in the index; their blocks are read back,
\* joined and written to a new extent before anything is freed.
Complete(u) ==
    /\ mode = "rw"
    /\ up[u] # Unused
    /\ up[u].open
    /\ up[u].parts # <<>>
    /\ \A k \in PartKeys(u) : files[k] # None /\ \A b \in Extent(files[k]) : disk[b] # Bad
    /\ LET dest == up[u].dest
           p == FlattenSeq([i \in 1..Len(up[u].parts) |-> Raw(files[PartKey(u, i)])])
       IN \E o \in Blocks :
            /\ FirstFit(o, Len(p))
            /\ WriteBlocks(o, p)
            /\ RemoveParts([files EXCEPT ![dest] = [offset |-> o, crc |-> p, meta_len |-> 0]],
                           (free \ Run(o, Len(p))) \cup Extent(files[dest]),
                           PartKeys(u))
            /\ tombs' = tombs \ {dest}
            /\ shardDirty' = [s \in Shards |->
                  shardDirty[s] \/ \E k \in PartKeys(u) \cup {dest} : ShardOf[k] = s]
            /\ kept' = kept \ (PartKeys(u) \cup {dest})
    /\ dirty' = TRUE
    /\ up' = [up EXCEPT ![u].open = FALSE]
    /\ UNCHANGED <<pfiles, ptombs, lost, wp, flipped, mode>>

\* abort: drop the parts that have been written.
Abort(u) ==
    /\ up[u] # Unused
    /\ up[u].open
    /\ LET parts == {k \in PartKeys(u) : files[k] # None}
       IN  /\ RemoveParts(files, free, parts)
           /\ shardDirty' = [s \in Shards |->
                 shardDirty[s] \/ \E k \in parts : ShardOf[k] = s]
           /\ kept' = kept \ parts
    /\ dirty' = TRUE
    /\ up' = [up EXCEPT ![u].open = FALSE]
    /\ UNCHANGED <<device, tombs, flipped, mode>>

\* A step of the store; the uploads of a process end with it.
StoreStep ==
    /\ Next
    /\ up' = IF mode' = "down" THEN [u \in Uploads |-> Unused] ELSE up

MNext ==
    \/ StoreStep
    \/ \E u \in Uploads :
        \/ \E k \in Keys : BeginUpload(u, k)
        \/ \E p \in Bodies : PutPart(u, p)
        \/ \E i \in 1..MaxParts : RunPart(u, i) \/ DropPart(u, i)
        \/ Complete(u) \/ Abort(u)

MSpec == MInit /\ [][MNext]_mvars

----------------------------------------------------------------------------
\* complete stores the parts in the order of the put_part calls, in
\* whatever order their futures ran and whatever else was written, deleted
\* or scrubbed between them.
CompleteJoinsInOrder ==
    [][\A u \in Uploads : Complete(u) =>
          files'[up[u].dest].crc = FlattenSeq(up[u].parts)]_mvars

\* A temporary extent belongs to an upload that is still open, unless a
\* part's future ran after complete or abort had cleared part_keys: a
\* reopened store, an ended upload and a failed one keep no space.
NoOrphanParts ==
    mode = "rw" => \A k \in TmpKeys : files[k] # None =>
        \E u \in Uploads : up[u] # Unused /\ k \in PartKeys(u) /\ (up[u].open \/ up[u].late)
============================================================================
