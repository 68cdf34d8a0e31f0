----------------------------- MODULE S3Objects -----------------------------
(***************************************************************************)
(* Buckets and objects of the S3 front end, objstrd/src/adapter.rs.  The   *)
(* adapter keeps a bucket registry and a cache of bucket                  *)
(* figures in memory and everything else in the store behind it.  A        *)
(* handler is a task: between two awaits other requests run, so a request  *)
(* is a record in req[c] that moves from step to step.                     *)
(*                                                                         *)
(* A body is a sequence of bytes.  Metadata is the set of headers that the *)
(* client sent, with the etag that the adapter adds; an object written by  *)
(* another program has none.                                               *)
(***************************************************************************)
EXTENDS Integers, Sequences, FiniteSets, Functions

CONSTANTS
    Clients,    \* requests in flight at the same time
    Sends,      \* the operations that each client asks for, and their keys
    Buckets,    \* bucket names
    ObjKeys,    \* object keys
    S3Bodies,   \* what clients put
    Headers,    \* header sets that clients send
    Ranges,     \* Range headers that clients send
    Conds,      \* If-Match and If-None-Match headers that clients send
    WordSize    \* usize arithmetic is modulo this

NoRange == [kind |-> "none"]
NoCond == [kind |-> "none"]
AnyEtag == <<"*">>
NoEtag == <<>>
NoObject == [meta |-> [etag |-> <<"no object">>]]    \* an etag that no object has
NoStats == [count |-> -1, bytes |-> -1]
NoKey == CHOOSE k \in ObjKeys : TRUE     \* what a request for a bucket names
NoRequest == [op |-> "idle"]
Paths == Buckets \X ObjKeys

\* Bodies are shorter than the address space; a Range header that the HTTP
\* layer lets through holds words and does not run backwards.
ASSUME S3Assumption ==
    /\ NoRange \in Ranges /\ NoCond \in Conds
    /\ WordSize \in Nat /\ \A b \in S3Bodies : b \in Seq(Range(b)) /\ Len(b) < WordSize
    /\ \A r \in Ranges \ {NoRange} :
          \/ r.kind = "int" /\ {r.first, r.last} \subseteq 0..(WordSize - 1) /\ r.first <= r.last
          \/ r.kind = "from" /\ r.first \in 0..(WordSize - 1)
          \/ r.kind = "suffix" /\ r.length \in 0..(WordSize - 1)

VARIABLES
    buckets,    \* the bucket registry
    objects,    \* the store: body and metadata by path
    stats,      \* bucket_stats_cache
    req,        \* the request each client has in flight
    torn,       \* ghost: paths written by a copy that another write overtook
    outdated    \* ghost: buckets whose cached figures another write overtook

s3Vars == <<buckets, objects, stats, req, torn, outdated>>

----------------------------------------------------------------------------
(* The store, as the adapter uses it through StoreBackend.                 *)

\* compute_md5: different bodies have different digests.
Md5(body) == <<"md5", body>>
EmptyMd5 == Md5(<<>>)

Stored(p) == objects[p] # NoObject

\* Mutant of Meta: the client's headers are kept and the etag is forgotten.
MetaWithoutEtag(headers, etag) == [headers |-> headers, etag |-> EmptyMd5]

\* build_s3_metadata followed by the insertion of the etag.
Meta(headers, etag) == [headers |-> headers, etag |-> etag]
NoMeta == [headers |-> {}, etag |-> NoEtag]

\* head_with_meta: the size does not count the metadata.
HeadSize(p) == Len(objects[p].body)

\* get_metadata: an object that is gone has none.
GetMetadata(p) == IF Stored(p) THEN objects[p].meta ELSE NoMeta

\* put_with_meta and put_with_meta_from_file.
PutWithMeta(p, body, meta) == objects' = [objects EXCEPT ![p] = [body |-> body, meta |-> meta]]

\* Path, for raw_path and obj_key.
PathOf(r) == <<r.bucket, r.key>>

\* compute_bucket_stats: a listing of the bucket.
InBucket(b) == {p \in Paths : p[1] = b /\ Stored(p)}
ComputeBucketStats(b) ==
    [count |-> Cardinality(InBucket(b)), bytes |-> SumFunction([p \in InBucket(b) |-> HeadSize(p)])]

----------------------------------------------------------------------------
(* Requests.                                                               *)

\* ensure_bucket, the first await of nearly every handler.
EnsureBucket(b) == b \in buckets

Step(c, r) == req' = [req EXCEPT ![c] = r]
Answered(answer) == [op |-> "answered", step |-> "answered", reply |-> answer]
Answer(c, reply) == Step(c, Answered(reply))
Fail(c, code) == Answer(c, [error |-> code])

\* A request as it begins: the fields that no handler has filled yet.
Request(op, b, k) ==
    [op |-> op, step |-> "begin", bucket |-> b, key |-> k, src |-> <<b, k>>,
     body |-> <<>>, headers |-> {}, range |-> NoRange, cond |-> NoCond, dates |-> "pass", keys |-> {},
     size |-> 0, meta |-> NoMeta, figures |-> NoStats, replace |-> FALSE,
     clean |-> TRUE]

At(c, op, step) == req[c].op = op /\ req[c].step = step

\* A change of the store or of the registry overtakes the others' requests.
Overtake(c, r) ==
    req' = [d \in Clients |->
                IF d = c THEN r
                ELSE IF req[d] = NoRequest \/ req[d].step = "answered" THEN req[d]
                ELSE [req[d] EXCEPT !.clean = FALSE]]

\* Client c sends a request; a handler that finds no bucket ends at once.
Send(c, r) ==
    /\ req[c] = NoRequest
    /\ <<r.op, r.key>> \in Sends[c]
    /\ IF r.op = "delete_bucket" \/ (EnsureBucket(r.bucket) /\ EnsureBucket(r.src[1]))
       THEN Step(c, r)
       ELSE Fail(c, "NoSuchBucket")

\* The client has read the answer.
Return(c) ==
    /\ req[c] # NoRequest /\ req[c].step = "answered"
    /\ Step(c, NoRequest)
    /\ UNCHANGED <<buckets, objects, stats, torn, outdated>>

----------------------------------------------------------------------------
(* Buckets.                                                                *)

\* create_bucket: idempotent.
CreateBucket(b) ==
    /\ buckets' = buckets \cup {b}
    /\ UNCHANGED <<objects, stats, req, torn, outdated>>

\* Mutant of DeleteBucketList: the listing is not looked at.
DeleteBucketAnyway(c) ==
    /\ At(c, "delete_bucket", "begin")
    /\ Step(c, [req[c] EXCEPT !.step = "remove"])
    /\ UNCHANGED <<buckets, objects, stats, torn, outdated>>

\* delete_bucket looks for objects, and removes the name in a later step.
DeleteBucketList(c) ==
    /\ At(c, "delete_bucket", "begin")
    /\ IF InBucket(req[c].bucket) # {}
       THEN Fail(c, "BucketNotEmpty")
       ELSE Step(c, [req[c] EXCEPT !.step = "remove"])
    /\ UNCHANGED <<buckets, objects, stats, torn, outdated>>

DeleteBucketRemove(c) ==
    /\ At(c, "delete_bucket", "remove")
    /\ buckets' = buckets \ {req[c].bucket}
    /\ Overtake(c, Answered(IF req[c].bucket \in buckets THEN [ok |-> "deleted"]
                                                         ELSE [error |-> "NoSuchBucket"]))
    /\ UNCHANGED <<objects, stats, torn, outdated>>

\* head_bucket answers from the cache, or lists the bucket without a lock and
\* inserts what it found in a later step.
HeadBucketCached(c) ==
    /\ At(c, "head_bucket", "begin")
    /\ stats[req[c].bucket] # NoStats
    /\ Answer(c, [figures |-> stats[req[c].bucket]])
    /\ UNCHANGED <<buckets, objects, stats, torn, outdated>>

HeadBucketCompute(c) ==
    /\ At(c, "head_bucket", "begin")
    /\ stats[req[c].bucket] = NoStats
    /\ Step(c, [req[c] EXCEPT !.step = "insert", !.figures = ComputeBucketStats(req[c].bucket)])
    /\ UNCHANGED <<buckets, objects, stats, torn, outdated>>

HeadBucketInsert(c) ==
    /\ At(c, "head_bucket", "insert")
    /\ stats' = [stats EXCEPT ![req[c].bucket] = req[c].figures]
    /\ outdated' = IF req[c].clean THEN outdated \ {req[c].bucket}
                                   ELSE outdated \cup {req[c].bucket}
    /\ Answer(c, [figures |-> req[c].figures])
    /\ UNCHANGED <<buckets, objects, torn>>

\* BUCKET_STATS_TTL passes.
StatsExpire(b) ==
    /\ stats[b] # NoStats
    /\ stats' = [stats EXCEPT ![b] = NoStats]
    /\ outdated' = outdated \ {b}
    /\ UNCHANGED <<buckets, objects, req, torn>>

----------------------------------------------------------------------------
(* Writes.  The event is emitted and the figures are invalidated in the    *)
(* steps after the write.                                                  *)

\* put_object: the body has been collected or spooled; it is written, or the
\* store or the client's stream fails and nothing is.
PutObject(c) ==
    /\ At(c, "put_object", "begin")
    /\ PutWithMeta(PathOf(req[c]), req[c].body, Meta(req[c].headers, Md5(req[c].body)))
    /\ torn' = torn \ {PathOf(req[c])}
    /\ Overtake(c, [req[c] EXCEPT !.step = "finish"])
    /\ UNCHANGED <<buckets, stats, outdated>>

PutObjectFails(c) ==
    /\ At(c, "put_object", "begin")
    /\ Fail(c, "InternalError")
    /\ UNCHANGED <<buckets, objects, stats, torn, outdated>>

\* Mutant of FinishWrite: the cached figures are kept.
FinishWriteKeepingStats(c) ==
    /\ req[c] # NoRequest /\ req[c].step = "finish"
    /\ UNCHANGED <<stats, outdated>>
    /\ Answer(c, [ok |-> "written"])
    /\ UNCHANGED <<buckets, objects, torn>>

\* emit_put or emit_delete, and the removal of the cached figures.
FinishWrite(c) ==
    /\ req[c] # NoRequest /\ req[c].step = "finish"
    /\ stats' = [stats EXCEPT ![req[c].bucket] = NoStats]
    /\ outdated' = outdated \ {req[c].bucket}
    /\ Answer(c, [ok |-> "written"])
    /\ UNCHANGED <<buckets, objects, torn>>

\* delete_sidecar, the first step of every deletion: the metadata of an
\* object that is not on a raw shard is a file of its own, and goes first.
WithoutSidecar(o) == IF o = NoObject THEN o ELSE [body |-> o.body, meta |-> NoMeta]

DeleteSidecar(c) ==
    /\ req[c] # NoRequest /\ req[c].op \in {"delete_object", "delete_objects"} /\ req[c].step = "begin"
    /\ \E k \in IF req[c].op = "delete_object" THEN {req[c].key} ELSE req[c].keys :
        /\ \E raw \in BOOLEAN :
            objects' = [objects EXCEPT ![<<req[c].bucket, k>>] = IF raw THEN @ ELSE WithoutSidecar(@)]
        /\ Overtake(c, [req[c] EXCEPT !.step = "delete", !.key = k, !.keys = @ \ {k}])
    /\ UNCHANGED <<buckets, stats, torn, outdated>>

\* delete_object: a key that does not exist is no error.
DeleteObject(c) ==
    /\ At(c, "delete_object", "delete")
    /\ objects' = [objects EXCEPT ![PathOf(req[c])] = NoObject]
    /\ torn' = torn \ {PathOf(req[c])}
    /\ Overtake(c, [req[c] EXCEPT !.step = "finish"])
    /\ UNCHANGED <<buckets, stats, outdated>>

\* What a deletion that reports an error leaves: the object, or nothing.
LeftByError(p) == {objects[p], NoObject}

\* The store's delete fails: the handler returns before it emits the event and
\* removes the cached figures.
DeleteObjectFails(c) ==
    /\ At(c, "delete_object", "delete")
    /\ \E left \in LeftByError(PathOf(req[c])) : objects' = [objects EXCEPT ![PathOf(req[c])] = left]
    /\ outdated' = outdated \cup {req[c].bucket}
    /\ Overtake(c, Answered([error |-> "InternalError"]))
    /\ UNCHANGED <<buckets, stats, torn>>

\* delete_objects deletes one key after the other, goes on after an error and
\* keeps the cached figures.
DeleteObjects(c) ==
    /\ At(c, "delete_objects", "delete")
    /\ \E left \in LeftByError(PathOf(req[c])) : objects' = [objects EXCEPT ![PathOf(req[c])] = left]
    /\ outdated' = outdated \cup {req[c].bucket}
    /\ Overtake(c, IF req[c].keys = {} THEN Answered([ok |-> "deleted"])
                   ELSE [req[c] EXCEPT !.step = "begin"])
    /\ UNCHANGED <<buckets, stats, torn>>

\* copy_object reads the head, the body and the metadata of the source in
\* three steps (read_source_object), then writes the copy.
CopyHead(c) ==
    /\ At(c, "copy_object", "begin")
    /\ IF req[c].src = PathOf(req[c]) /\ ~ req[c].replace THEN Fail(c, "InvalidRequest")
       ELSE IF ~ Stored(req[c].src) THEN Fail(c, "NoSuchKey")
       ELSE Step(c, [req[c] EXCEPT !.step = "body",
                         !.size = IF objects[req[c].src].meta = NoMeta THEN 0 ELSE 1])
    /\ UNCHANGED <<buckets, objects, stats, torn, outdated>>

CopyBody(c) ==
    /\ At(c, "copy_object", "body")
    /\ IF ~ Stored(req[c].src) THEN Fail(c, "NoSuchKey")
       ELSE Step(c, [req[c] EXCEPT !.step = "meta", !.body = objects[req[c].src].body])
    /\ UNCHANGED <<buckets, objects, stats, torn, outdated>>

\* The metadata is only read when the head said that there is some; an etag
\* that it lacks is computed from the body.
CopyMeta(c) ==
    /\ At(c, "copy_object", "meta")
    /\ LET m    == IF req[c].size = 0 THEN NoMeta ELSE GetMetadata(req[c].src)
           etag == IF m.etag = NoEtag THEN Md5(req[c].body) ELSE m.etag
       IN  IF req[c].size = 1 /\ ~ Stored(req[c].src) THEN Fail(c, "InternalError")
           ELSE Step(c, [req[c] EXCEPT !.step = "write", !.meta = Meta(m.headers, etag)])
    /\ UNCHANGED <<buckets, objects, stats, torn, outdated>>

CopyWrite(c) ==
    /\ At(c, "copy_object", "write")
    /\ LET kept == IF req[c].replace THEN req[c].headers ELSE req[c].meta.headers IN
       PutWithMeta(PathOf(req[c]), req[c].body, Meta(kept, req[c].meta.etag))
    /\ torn' = IF req[c].clean THEN (torn \ {PathOf(req[c])}) \cup
                                      (IF req[c].src \in torn THEN {PathOf(req[c])} ELSE {})
               ELSE torn \cup {PathOf(req[c])}
    /\ Overtake(c, [req[c] EXCEPT !.step = "finish"])
    /\ UNCHANGED <<buckets, stats, outdated>>

----------------------------------------------------------------------------
(* Reads.  get_object, head_object and get_object_attributes look the      *)
(* object up, read its metadata, and (get_object) read the body, in three  *)
(* steps.                                                                  *)

Reading == {"get_object", "head_object", "get_object_attributes"}

ReadHead(c) ==
    /\ req[c] # NoRequest /\ req[c].op \in Reading /\ req[c].step = "begin"
    /\ IF ~ Stored(PathOf(req[c])) THEN Fail(c, "NoSuchKey")
       ELSE Step(c, [req[c] EXCEPT !.step = "meta", !.size = HeadSize(PathOf(req[c]))])
    /\ UNCHANGED <<buckets, objects, stats, torn, outdated>>

\* get_object's etag of an object without metadata is that of the empty body.
EtagOr(m, default) == IF m.etag = NoEtag THEN default ELSE m.etag

\* head_object and get_object_attributes answer with the metadata.
HeadMeta(c) ==
    /\ req[c] # NoRequest /\ req[c].op \in Reading \ {"get_object"} /\ req[c].step = "meta"
    /\ Answer(c, [size |-> req[c].size, meta |-> GetMetadata(PathOf(req[c]))])
    /\ UNCHANGED <<buckets, objects, stats, torn, outdated>>

\* The Range and conditional headers of get_object, in the order in which it
\* looks at them.
Unsatisfiable(r) == r.range.kind \in {"int", "from"} /\ r.range.first >= r.size
EtagMatches(cond, etag) == cond.etag = AnyEtag \/ cond.etag = etag

\* What the conditional headers make of the request.  The dates of
\* If-Modified-Since and If-Unmodified-Since are the client's; what they
\* decide is an input.
Verdict(r, etag) ==
    CASE Unsatisfiable(r) -> "InvalidRange"
      [] ~ Unsatisfiable(r) /\ r.dates # "pass" -> r.dates
      [] OTHER -> IF r.cond.kind = "match" /\ ~ EtagMatches(r.cond, etag) THEN "PreconditionFailed"
                  ELSE IF r.cond.kind = "none_match" /\ EtagMatches(r.cond, etag) THEN "NotModified"
                  ELSE "pass"

\* The end of what is read, exclusive; a range is cut at the end of the body.
\* The sum is one of words: behind the greatest last byte comes 0.
RangeEnd(range, size) ==
    LET end == (range.last + 1) % WordSize IN
    IF range.kind = "int" /\ end < size THEN end ELSE size

RangeStart(range, size) ==
    CASE range.kind = "none" -> 0
      [] range.kind \in {"int", "from"} -> range.first
      [] range.kind = "suffix" -> size - (IF range.length < size THEN range.length ELSE size)

GetMeta(c) ==
    /\ At(c, "get_object", "meta")
    /\ LET m       == GetMetadata(PathOf(req[c]))
           verdict == Verdict(req[c], EtagOr(m, EmptyMd5))
       IN  IF verdict # "pass" THEN Fail(c, verdict)
           ELSE Step(c, [req[c] EXCEPT !.step = "body", !.meta = m])
    /\ UNCHANGED <<buckets, objects, stats, torn, outdated>>

\* The store cuts a range at the end of the object it then finds.
Slice(body, start, end) ==
    SubSeq(body, start + 1, IF end < Len(body) THEN end ELSE Len(body))

\* The body of a range is read at once, that of a whole object streamed; the
\* length was fixed when the head was read.
GetBody(c) ==
    /\ At(c, "get_object", "body")
    /\ LET r     == req[c]
           start == RangeStart(r.range, r.size)
           end   == RangeEnd(r.range, r.size)
           reply(data) == [etag |-> EtagOr(r.meta, EmptyMd5), headers |-> r.meta.headers,
                           length |-> end - start, data |-> data,
                           range |-> IF r.range = NoRange THEN <<>>
                                     ELSE <<start, (end - 1) % WordSize, r.size>>]
       IN  IF r.range # NoRange /\ end <= start THEN Answer(c, reply(<<>>))
           ELSE IF ~ Stored(PathOf(r)) THEN Fail(c, "InternalError")
           ELSE IF start >= Len(objects[PathOf(r)].body) /\ r.range # NoRange THEN Fail(c, "InternalError")
           ELSE Answer(c, reply(IF r.range = NoRange THEN objects[PathOf(r)].body
                                ELSE Slice(objects[PathOf(r)].body, start, end)))
    /\ UNCHANGED <<buckets, objects, stats, torn, outdated>>

----------------------------------------------------------------------------
\* The client goes away and hyper drops its handler where it waits; a write
\* that has been made keeps its cached figures.
LoseClient(c) ==
    /\ req[c] # NoRequest /\ req[c].step # "answered"
    /\ Step(c, NoRequest)
    /\ outdated' = IF req[c].step = "finish" THEN outdated \cup {req[c].bucket} ELSE outdated
    /\ UNCHANGED <<buckets, objects, stats, torn>>

\* The server restarts: the registry is rebuilt from the store, the rest of
\* the memory is lost, and so are the requests in flight.
Restart ==
    /\ buckets' = {b \in Buckets : InBucket(b) # {}}
    /\ stats' = [b \in Buckets |-> NoStats]
    /\ outdated' = {}
    /\ req' = [c \in Clients |-> NoRequest]
    /\ UNCHANGED <<objects, torn>>

S3Init ==
    /\ buckets = {}
    /\ objects \in [Paths -> {NoObject} \cup {[body |-> b, meta |-> NoMeta] : b \in S3Bodies}]
    /\ Cardinality({p \in Paths : objects[p] # NoObject}) <= 1
    /\ stats = [b \in Buckets |-> NoStats]
    /\ req = [c \in Clients |-> NoRequest]
    /\ torn = {}
    /\ outdated = {}

\* The requests that clients send.
SendAny(c) ==
    /\ \E b \in Buckets, k \in ObjKeys :
        \/ \E body \in S3Bodies, h \in Headers :
                Send(c, [Request("put_object", b, k) EXCEPT !.body = body, !.headers = h])
        \/ \E range \in Ranges, cond \in Conds, dates \in {"pass", "NotModified", "PreconditionFailed"} :
                /\ range = NoRange \/ cond = NoCond
                /\ dates = "pass" \/ (range = NoRange /\ cond = NoCond)
                /\ Send(c, [Request("get_object", b, k) EXCEPT !.range = range, !.cond = cond,
                                                               !.dates = dates])
        \/ \E op \in {"head_object", "get_object_attributes", "delete_object"} :
                Send(c, Request(op, b, k))
        \/ \E src \in Paths, h \in Headers, rep \in BOOLEAN :
                Send(c, [Request("copy_object", b, k) EXCEPT !.src = src, !.headers = h,
                                                             !.replace = rep])
        \/ \E op \in {"head_bucket", "delete_bucket"} : Send(c, Request(op, b, NoKey))
        \/ Send(c, [Request("delete_objects", b, NoKey) EXCEPT !.keys = ObjKeys])
    /\ UNCHANGED <<buckets, objects, stats, torn, outdated>>

S3Next ==
    \/ \E c \in Clients :
        \/ SendAny(c) \/ Return(c) \/ LoseClient(c)
        \/ DeleteBucketList(c) \/ DeleteBucketRemove(c)
        \/ HeadBucketCached(c) \/ HeadBucketCompute(c) \/ HeadBucketInsert(c)
        \/ PutObject(c) \/ PutObjectFails(c) \/ FinishWrite(c)
        \/ DeleteSidecar(c) \/ DeleteObject(c) \/ DeleteObjectFails(c) \/ DeleteObjects(c)
        \/ CopyHead(c) \/ CopyBody(c) \/ CopyMeta(c) \/ CopyWrite(c)
        \/ ReadHead(c) \/ HeadMeta(c) \/ GetMeta(c) \/ GetBody(c)
    \/ \E b \in Buckets : CreateBucket(b)
    \/ \E b \in Buckets : StatsExpire(b)
    \/ Restart

S3Spec == S3Init /\ [][S3Next]_s3Vars

----------------------------------------------------------------------------
(* Properties.                                                             *)

\* What a GET answers when nothing else runs: the bytes asked for, counted
\* from 0, in their order.
Asked(range, size) ==
    {i \in 0..(size - 1) :
        CASE range.kind = "none" -> TRUE
          [] range.kind = "int" -> i >= range.first /\ i <= range.last
          [] range.kind = "from" -> i >= range.first
          [] range.kind = "suffix" -> i >= size - range.length}

ExactGet(r, a) ==
    LET o     == objects[PathOf(r)]
        asked == Asked(r.range, Len(o.body))
    IN  /\ a.etag = EtagOr(o.meta, EmptyMd5) /\ a.headers = o.meta.headers
        /\ Len(a.data) = Cardinality(asked)
        /\ \A i \in asked : a.data[Cardinality({j \in asked : j <= i})] = o.body[i + 1]

\* The range whose last byte is the greatest word: get_object adds 1 to it,
\* reads nothing and answers with a negative length.
WrappingRange(range) == range.kind = "int" /\ range.last + 1 = WordSize

Answering(c) ==
    /\ req[c] # NoRequest /\ req[c].step # "answered"
    /\ req'[c] # NoRequest /\ req'[c].step = "answered"

\* A GET that no write overtook answers with exactly the bytes, the length,
\* the etag and the headers of one object, and only when the precondition
\* holds for it; and a bucket that delete_bucket removed undisturbed was
\* empty.  Both handlers look several times with other requests between.
\* Ranges up to the greatest word are excepted: see WrappingRange.
UndisturbedAnswersExact ==
    [][\A c \in Clients :
        Answering(c) /\ req[c].clean =>
            LET r == req[c]
                a == req'[c].reply
            IN  /\ r.op = "get_object" /\ "data" \in DOMAIN a /\ ~ WrappingRange(r.range) =>
                    /\ Stored(PathOf(r))
                    /\ ExactGet(r, a)
                    /\ a.length = Len(a.data)
                    /\ r.cond.kind = "match" => EtagMatches(r.cond, a.etag)
                    /\ r.cond.kind = "none_match" => ~ EtagMatches(r.cond, a.etag)
                    /\ a.range # <<>> /\ a.data # <<>> => a.range[2] - a.range[1] + 1 = a.length
                /\ r.op = "delete_bucket" /\ "ok" \in DOMAIN a => InBucket(r.bucket) = {}]_s3Vars

\* The etag of every object that has one is the digest of its body, unless
\* the object is a copy whose source changed while copy_object read it.
EtagMatchesBody ==
    \A p \in Paths \ torn :
        Stored(p) /\ objects[p].meta.etag # NoEtag => objects[p].meta.etag = Md5(objects[p].body)

\* The figures that head_bucket serves from its cache are those of the
\* bucket, but for writes that have not reached their invalidation, for
\* figures that a write overtook on their way into the cache, and for those
\* that are never invalidated: delete_objects, a delete_object that reports an
\* error, and a write whose client goes away before the invalidation.
CachedStatsExact ==
    \A b \in Buckets \ outdated :
        \/ stats[b] = NoStats
        \/ \E c \in Clients : req[c] # NoRequest /\ req[c].step = "finish" /\ req[c].bucket = b
        \/ stats[b] = ComputeBucketStats(b)
============================================================================
