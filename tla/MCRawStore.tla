----------------------------- MODULE MCRawStore -----------------------------
(* TLC instance of RawReads: two client paths in two shards and one        *)
(* streaming reader.  The behaviours are of three kinds: those with        *)
(* payloads of one or two blocks whose failing flushes stop before the     *)
(* first slot or after the commit; those with payloads of one block on all *)
(* blocks but the last, whose flushes stop anywhere; and those with a      *)
(* reader, in one lifetime of the store and between two index flushes,     *)
(* which touch no data block.                                              *)
EXTENDS RawReads, TLC

CONSTANTS k1, k2, d1, d2
VARIABLE kind

MCShardOf == [k \in AllKeys |-> IF k = k1 THEN 0 ELSE 1]
MCBodies == {<<d1>>, <<d2, d1>>}
MCNoMetas == {<<>>}

OfKind ==
    \/ kind = "space" /\ flipped' \cup lost' = {} /\ UNCHANGED reading
    \/ /\ kind = "slots" /\ UNCHANGED reading
       /\ media'[NBlocks - 1] = {Bad}
       /\ \A k \in AllKeys : files'[k] # None => Len(files'[k].crc) = 1
    \/ kind = "reads" /\ mode' # "down" /\ UNCHANGED <<pfiles, ptombs, lost, flipped>>

StoreInit == RInit /\ kind \in {"space", "slots", "reads"}
StoreSpec == StoreInit /\ [][RNext /\ UNCHANGED kind /\ OfKind]_<<rvars, kind>>
============================================================================
