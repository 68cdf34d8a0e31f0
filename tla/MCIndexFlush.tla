---------------------------- MODULE MCIndexFlush ----------------------------
(* TLC instances of IndexFlush: two shards, and which faults one behaviour *)
(* may contain.                                                            *)
EXTENDS IndexFlush

Plan(e, k, p, t) == [errors |-> e, kills |-> k, losses |-> p, torn |-> t]

\* Three power losses with atomic superblock writes, one with writes that
\* tear, three process deaths, or one failed device call.
MCSurvivable == {Plan(0, 0, 3, FALSE), Plan(0, 0, 1, TRUE), Plan(0, 3, 0, TRUE),
                 Plan(1, 0, 0, TRUE)}

\* A failed flush that is retried, and a power loss.
MCRetry == {Plan(1, 0, 1, FALSE)}
============================================================================
