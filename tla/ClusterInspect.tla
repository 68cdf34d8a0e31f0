--------------------------- MODULE ClusterInspect ---------------------------
(***************************************************************************)
(* What shardedobjstr reports about the object of ClusterWrites: verify    *)
(* and cross-verify of all its copies, its metadata, and the listings.     *)
(* Each asks the shards one at a time while writes, deletes and repairs go *)
(* on.  An object that a prefix does not cover is not inspected; progress  *)
(* lines and sizes are left out.                                           *)
(***************************************************************************)
EXTENDS ClusterWrites

VARIABLE
    report       \* what each caller has found, shard by shard, and its verdict

inspectVars == <<clusterVars, report>>

Inspections == {"verify", "cross_verify", "head_meta", "get_meta", "head", "list", "list_meta"}
Unread == "unread"
Error == "error"
NoReport == [crc |-> NoBody, seen |-> [s \in Ids |-> Unread], verdict |-> "none", meta |-> {}]

\* An inspection changes only what its caller knows.
Looking == UNCHANGED <<bodyOn, metaOn, place, status, marker, repairs, tracked,
                       purge, play>>

Answer(c, verdict, meta) ==
    /\ report' = [report EXCEPT ![c].verdict = verdict, ![c].meta = meta]
    /\ Move(c, "done")

----------------------------------------------------------------------------
(* verify_object and cross_verify_object.                                  *)

\* The entry is read once; all its shards are then asked, whatever their
\* health.  cross_verify_all passes over objects with one copy.
BeginVerify(c) ==
    /\ At(c, "begin") /\ OpOf(c) \in {"verify", "cross_verify"}
    /\ IF \/ place = NoPlace
          \/ OpOf(c) = "cross_verify" /\ Cardinality(place.shards) < 2
       THEN Answer(c, IF place = NoPlace THEN "errors" ELSE "skipped", {})
       ELSE /\ Go(c, [call[c] EXCEPT !.step = "compare", !.todo = place.shards])
            /\ report' = [report EXCEPT ![c].crc = place.crc]
    /\ Looking /\ UNCHANGED faults

\* The checksum of the copy on shard s: verify reads the body, cross-verify
\* too unless the shard keeps its digest as an ETag.
CompareOne(c, s) ==
    /\ At(c, "compare") /\ s \in call[c].todo
    /\ \/ /\ report' = [report EXCEPT ![c].seen[s] = IF Readable(bodyOn[s]) THEN bodyOn[s] ELSE Error]
          /\ UNCHANGED faults
       \/ Fault /\ report' = [report EXCEPT ![c].seen[s] = Error]
    /\ Go(c, [call[c] EXCEPT !.todo = @ \ {s}])
    /\ Looking

Seen(c) == {report[c].seen[s] : s \in Ids} \ {Unread, Error}
Errors(c) == {s \in Ids : report[c].seen[s] = Error}

\* Mutant of Differ: one copy that agrees with the catalog is enough.
DifferAll(c) == report[c].crc \notin Seen(c)

\* replicas_consistent and matches_catalog, or consistent.
Differ(c) ==
    IF OpOf(c) = "verify"
    THEN Cardinality(Seen(c)) > 1 \/ (report[c].crc # NoBody /\ \E b \in Seen(c) : b # report[c].crc)
    ELSE \/ Cardinality(Seen(c)) > 1
         \/ Errors(c) # {} /\ Cardinality({s \in Ids : report[c].seen[s] \notin {Unread, Error}}) < 2

\* verify_all and cross_verify_all sort an object into one count.
Verdict(c) ==
    /\ At(c, "compare") /\ call[c].todo = {}
    /\ Answer(c, CASE Differ(c) -> "mismatched"
                   [] ~ Differ(c) /\ Errors(c) # {} -> "errors"
                   [] OTHER -> "ok", {})
    /\ Looking /\ UNCHANGED faults

----------------------------------------------------------------------------
(* Metadata.                                                               *)

BeginMeta(c) ==
    /\ At(c, "begin") /\ OpOf(c) \in {"head_meta", "get_meta"}
    /\ IF Resolved = {} THEN Answer(c, "not found", {})
       ELSE Go(c, [call[c] EXCEPT !.step = "meta", !.todo = Resolved]) /\ UNCHANGED report
    /\ Looking /\ UNCHANGED faults

\* The shard has nothing to say: the next one is asked.
AskNext(c, s) ==
    IF call[c].todo = {s} THEN Answer(c, "not found", {})
    ELSE Go(c, [call[c] EXCEPT !.todo = @ \ {s}]) /\ UNCHANGED report

\* What shard s answers to get_metadata: a sidecar shard has an answer when
\* it has the sidecar, whatever became of the object.
AnswersMeta(s) == IF Kind[s] = "sidecar" THEN metaOn[s] # {} ELSE bodyOn[s] # NoBody

GetMeta(c, s) ==
    /\ At(c, "meta") /\ s \in call[c].todo /\ OpOf(c) = "get_meta"
    /\ \/ /\ UNCHANGED faults
          /\ IF AnswersMeta(s) THEN Answer(c, "found", metaOn[s]) ELSE AskNext(c, s)
       \/ Fault /\ AskNext(c, s)
    /\ Looking

\* head_with_meta: meta_len from the index of a raw shard, else from the
\* catalog as it is by then.
HeadMeta(c, s) ==
    /\ At(c, "meta") /\ s \in call[c].todo /\ OpOf(c) = "head_meta"
    /\ \/ /\ UNCHANGED faults
          /\ IF bodyOn[s] = NoBody THEN AskNext(c, s)
             ELSE LET long == IF Kind[s] = "raw" THEN metaOn[s] # {} ELSE place.meta
                  IN  Answer(c, IF long THEN "with metadata" ELSE "without", {})
       \/ Fault /\ AskNext(c, s)
    /\ Looking

\* head does not read the body: a corrupt copy answers too.  A miss on the
\* catalog enters the shard that answered.
BeginHead(c) ==
    /\ At(c, "begin") /\ OpOf(c) = "head"
    /\ IF Resolved = {} THEN Answer(c, "not found", {})
       ELSE /\ Go(c, [call[c] EXCEPT !.step = "head", !.todo = Resolved, !.again = place = NoPlace])
            /\ UNCHANGED report
    /\ Looking /\ UNCHANGED faults

HeadOne(c, s) ==
    /\ At(c, "head") /\ s \in call[c].todo
    /\ \/ /\ bodyOn[s] # NoBody
          /\ Answer(c, "found", {})
          /\ place' = IF call[c].again THEN Replicated(s, IndexedMeta(s)) ELSE place
          /\ UNCHANGED faults
       \/ bodyOn[s] = NoBody /\ AskNext(c, s) /\ UNCHANGED <<place, faults>>
       \/ Fault /\ AskNext(c, s) /\ UNCHANGED place
    /\ UNCHANGED <<bodyOn, metaOn, status, marker, repairs, tracked, purge, play>>

----------------------------------------------------------------------------
(* Listings.                                                               *)

\* list answers from the catalog.
List(c) ==
    /\ At(c, "begin") /\ OpOf(c) = "list"
    /\ Answer(c, IF place = NoPlace THEN "not found" ELSE "found", {})
    /\ Looking /\ UNCHANGED faults

\* list_with_meta asks every shard in the order of their numbers, without
\* the catalog; a shard that fails lists nothing.
BeginList(c) ==
    /\ At(c, "begin") /\ OpOf(c) = "list_meta"
    /\ Go(c, [call[c] EXCEPT !.step = "list", !.todo = Ids])
    /\ Looking /\ UNCHANGED <<faults, report>>

ListOne(c) ==
    LET s == Min(call[c].todo)
        listed == report[c].verdict = "found"
    IN
    /\ At(c, "list")
    /\ \/ /\ report' = [report EXCEPT ![c].verdict =
                           IF listed \/ bodyOn[s] # NoBody THEN "found" ELSE "not found"]
          /\ UNCHANGED faults
       \/ Fault /\ report' = [report EXCEPT ![c].verdict = IF listed THEN "found" ELSE "not found"]
    /\ Go(c, [call[c] EXCEPT !.todo = @ \ {s}, !.step = IF call[c].todo = {s} THEN "done" ELSE "list"])
    /\ Looking

----------------------------------------------------------------------------
(* delete_sidecar: the S3 adapter calls it before it deletes an object.    *)

BeginDrop(c) ==
    /\ At(c, "begin") /\ OpOf(c) = "drop_sidecar"
    /\ LET found == {s \in ToSet(Targets(status)) : Kind[s] = "sidecar"} IN
       IF play.readOnly \/ found = {} THEN Move(c, "done")
       ELSE Go(c, [call[c] EXCEPT !.step = "drop", !.todo = found])
    /\ Looking /\ UNCHANGED <<faults, report>>

DropOne(c, s) ==
    /\ At(c, "drop") /\ s \in call[c].todo
    /\ \/ metaOn' = [metaOn EXCEPT ![s] = {}] /\ UNCHANGED faults
       \/ Fault /\ UNCHANGED metaOn
    /\ Go(c, [call[c] EXCEPT !.todo = @ \ {s}, !.step = IF call[c].todo = {s} THEN "done" ELSE "drop"])
    /\ UNCHANGED <<bodyOn, place, status, marker, repairs, tracked, purge, play,
                   report>>

----------------------------------------------------------------------------
InspectInit == ClusterInit /\ report = [c \in Callers |-> NoReport]

InspectCall(c) ==
    \/ BeginVerify(c) \/ Verdict(c) \/ BeginMeta(c) \/ BeginHead(c)
    \/ List(c) \/ BeginList(c) \/ ListOne(c) \/ BeginDrop(c)
    \/ \E s \in Ids : CompareOne(c, s) \/ GetMeta(c, s) \/ HeadMeta(c, s) \/ HeadOne(c, s) \/ DropOne(c, s)

InspectNext ==
    \/ ClusterNext /\ UNCHANGED report
    \/ \E c \in Callers : InspectCall(c)

InspectSpec == InspectInit /\ [][InspectNext]_inspectVars

----------------------------------------------------------------------------
(* Properties.                                                             *)

\* The object was last written with metadata, by a call that is through.
MetaWriters == {c \in Callers : OpOf(c) \in WithMeta /\ At(c, "done")}

\* What an inspection says of the copies when the calls before it and it
\* itself ran alone and no shard failed.  Verify passes the object exactly if
\* all copies of the entry are readable and alike, whichever write path or
\* repair put them and their checksum there, and two copies that differ are
\* a mismatch; metadata written with the object is found on every kind of
\* shard, at least the headers S3 keeps; head and the listings agree that the
\* object is there.  About verify_object (lib.rs:2068), cross_verify_object
\* (lib.rs:2255), get_metadata (metadata.rs:469), head_with_meta and list.
Found(c) ==
    LET copies == {bodyOn[s] : s \in place.shards}
        told   == report[c].verdict
    IN
    CASE OpOf(c) \in {"verify", "cross_verify"} ->
            /\ told = "ok" => Cardinality(copies) = 1 /\ \A b \in copies : Readable(b)
            /\ told \in {"mismatched", "errors"} => Cardinality(copies) # 1 \/ \E b \in copies : ~ Readable(b)
            /\ told # "skipped" /\ Cardinality({b \in copies : Readable(b)}) > 1 => told = "mismatched"
      [] OpOf(c) = "get_meta" ->
            \A w \in MetaWriters : report[c].meta \in {Fields(w), AttributesOf(Fields(w))}
      [] OpOf(c) = "head_meta" -> MetaWriters # {} => told = "with metadata"
      [] OpOf(c) \in {"head", "list", "list_meta"} -> (told = "found") = (place # NoPlace)
      [] OTHER -> TRUE

InspectionExact ==
    [][\A c \in Callers :
          /\ OpOf(c) \in Inspections /\ ~ At(c, "done") /\ At(c, "done")'
          /\ \A d \in Callers : call'[d].clean /\ call'[d].step # "failed"
          /\ faults' = MaxFaults /\ repairs' = {}
          => Found(c)']_inspectVars
=============================================================================
