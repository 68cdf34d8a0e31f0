----------------------------- MODULE MCRawReads -----------------------------
(* TLC instance of RawReads: one streaming reader beside the full store.   *)
EXTENDS RawReads, TLC

CONSTANTS k1, k2, d1, d2

MCShardOf == [k \in AllKeys |-> 0]
MCBodies == {<<d1>>, <<d2, d1>>}
MCMetas == {<<>>}
============================================================================
