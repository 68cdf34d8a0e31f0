------------------------------ MODULE MCGateway ------------------------------
(* TLC instance of the parts of objstrd in front of the shards, which do   *)
(* not share state: listings, object requests and uploads of the S3        *)
(* adapter, the encoding of metadata, the life of the server process and   *)
(* its event stream.  A behaviour runs one of them; the others stay in an  *)
(* initial state.                                                          *)
EXTENDS S3Listing, S3Objects, S3Uploads, MetadataTlv, ServerLifecycle, EventStream

VARIABLE part   \* the part that runs

gatewayVars == <<listingVars, s3Vars, uploadVars, tlvVars, lifeVars, eventVars, part>>

\* Keys around one slash (1), and prefixes that end before and behind it.
MCUniverse == {<<2>>, <<2, 1>>, <<2, 1, 3>>, <<2, 3>>, <<3>>}
MCPrefixes == {<<>>, <<2>>, <<2, 1>>}

\* One client writes a key, the other reads, copies and removes.
MCBodies == {<<>>, <<7, 8>>}
MCHeaders == {{"h"}}
MCByteRanges == {NoRange, [kind |-> "int", first |-> 0, last |-> 0],
                 [kind |-> "int", first |-> 1, last |-> 5], [kind |-> "int", first |-> 0, last |-> 15],
                 [kind |-> "from", first |-> 1], [kind |-> "suffix", length |-> 1]}
MCConds == {NoCond, [kind |-> "match", etag |-> Md5(<<7, 8>>)],
            [kind |-> "none_match", etag |-> Md5(<<7, 8>>)], [kind |-> "none_match", etag |-> AnyEtag]}
MCSends ==
    [c \in Clients |->
        IF c = "writer" THEN {"put_object", "delete_object"} \X {"k1"}
        ELSE {"get_object", "head_object", "get_object_attributes", "head_bucket",
              "delete_bucket", "delete_objects"} \X {"k1"} \cup {<<"copy_object", "k2">>}]

\* A part list that is empty, and one against the order of the part numbers.
MCPartLists == {<<>>, <<2, 1>>}
PartSymmetry == Permutations(PartData)

\* Two tags around the custom one's bit, a table of two values; values that
\* look like entries, and of the greatest length and one more.
MCFieldOrder == <<"content-type", "etag", "other", "x-amz-meta-a">>
MCTag == "content-type" :> 1 @@ "etag" :> 3
MCSuffix == "x-amz-meta-a" :> <<5>>
MCTable == "content-type" :> <<<<2>>, <<1, 1>>>> @@ "etag" :> <<>>
MCText == {<<>>, <<1, 1>>, <<4, 0, 1, 0>>} \cup {[i \in 1..n |-> 4] : n \in {63, 64}}
MCFieldValues == [f \in {"content-type", "etag", "x-amz-meta-a"} |-> MCText] @@ "other" :> {<<1>>}

\* One key, and another that trimming takes for it.
MCTrimmed == "a" :> "a" @@ "a " :> "a"
MCOps == {"a"} \X {"put", "delete", "copy_if_not_exists"} \cup {<<"a ", "delete">>}

\* The operations of a behaviour that reads objects, and of one that copies and
\* counts them.
MCAsked(p) ==
    \A c \in Clients :
        req'[c].op \notin (IF p = "objects" THEN {"copy_object", "head_bucket"} ELSE Reading)

\* A second client competes for the reader's place where the shards are shared;
\* it has no catalog.
MCReplicas ==
    /\ conn'["r2"].queue = <<>> /\ conn'["r2"].rebuild = conn["r2"].rebuild
    /\ (kind = "shared" /\ mirror # {0}) \/ conn'["r2"] = conn["r2"]

GatewayInit ==
    /\ part \in {"listing", "objects", "copies", "uploads", "metadata", "lifecycle", "events"}
    /\ part = "listing" \/ keys = {}
    /\ part \in {"objects", "copies"} \/ objects = [p \in Paths |-> NoObject]
    /\ part = "metadata" \/ headers = <<>>
    /\ part = "lifecycle" \/ (devices = {0} /\ catPath = TRUE)
    /\ part = "events" \/ (present = {} /\ kind = "shared" /\ mirror = {0})
    /\ ListingInit /\ S3Init /\ UploadsInit /\ TlvInit /\ LifeInit /\ EventInit

GatewayNext ==
    \/ part = "listing" /\ ListingNext
       /\ UNCHANGED <<s3Vars, uploadVars, tlvVars, lifeVars, eventVars, part>>
    \/ part \in {"objects", "copies"} /\ S3Next /\ MCAsked(part)
       /\ UNCHANGED <<listingVars, uploadVars, tlvVars, lifeVars, eventVars, part>>
    \/ part = "uploads" /\ UploadsNext
       /\ UNCHANGED <<listingVars, s3Vars, tlvVars, lifeVars, eventVars, part>>
    \/ part = "metadata" /\ TlvNext
       /\ UNCHANGED <<listingVars, s3Vars, uploadVars, lifeVars, eventVars, part>>
    \/ part = "lifecycle" /\ LifeNext
       /\ UNCHANGED <<listingVars, s3Vars, uploadVars, tlvVars, eventVars, part>>
    \/ part = "events" /\ EventNext /\ MCReplicas
       /\ UNCHANGED <<listingVars, s3Vars, uploadVars, tlvVars, lifeVars, part>>

GatewaySpec == GatewayInit /\ [][GatewayNext]_gatewayVars
=============================================================================
