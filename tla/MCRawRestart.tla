---------------------------- MODULE MCRawRestart ----------------------------
(* TLC instance of RawMultipart: one upload to one path, whose payloads are *)
(* the one-block bodies over Data, so the data symbols are symmetric.  The *)
(* behaviours are of three kinds: those with metadata and no upload, and   *)
(* those with an upload of one part and no metadata, which use all blocks  *)
(* but the last and restart at any time; and those with an upload of two   *)
(* parts, in one lifetime of the store.                                    *)
EXTENDS RawMultipart, TLC

CONSTANTS k1, d1, d2
VARIABLE kind

MCShardOf == [k \in AllKeys |-> 0]
MCBodies == {<<d>> : d \in Data}
MCMetas == {<<>>} \cup {<<d>> : d \in Data}
MCTmpKeys == Uploads \X (1..MaxParts)
DataSymmetry == Permutations(Data)

Restarts == media'[NBlocks - 1] = {Bad} /\ \A u \in Uploads : up'[u] # Unused => Len(up'[u].parts) <= 1
NoMetadata == \A k \in AllKeys : files'[k] # None => files'[k].meta_len = 0
OfKind ==
    \/ kind = "metadata" /\ UNCHANGED up /\ Restarts
    \/ /\ kind = "uploads" /\ Restarts /\ NoMetadata
       /\ \E d \in Data : \A b \in Blocks : media'[b] \subseteq {Bad, d}
    \/ kind = "parts" /\ NoMetadata /\ mode' # "down"

RestartInit == MInit /\ kind \in {"metadata", "uploads", "parts"}
RestartSpec == RestartInit /\ [][MNext /\ UNCHANGED kind /\ OfKind]_<<mvars, kind>>
=============================================================================
