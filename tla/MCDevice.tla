------------------------------ MODULE MCDevice ------------------------------
(* TLC instance of the parts of rawobjstr below the object store, which do *)
(* not share state: the extent allocator, the commit of the index, the     *)
(* read-only handle that follows it, and the block codec.  A behaviour     *)
(* runs one of them; the others stay in an initial state.                  *)
EXTENDS ExtentAllocator, MCIndexFlush, IndexReader, BlockCodec

VARIABLE part   \* the part that runs

deviceVars == <<avars, flushVars, readerVars, codecVars, part>>

\* Beside a reader: no fault and commits up to transaction 3, or one death of
\* the writer or one failed call and commits up to transaction 2.
MCCalm == {Plan(0, 0, 0, FALSE)}
MCStormy == {Plan(0, 1, 0, FALSE), Plan(1, 0, 0, FALSE)}
MCPlans == MCSurvivable \cup MCCalm \cup MCStormy

\* Ranges that begin, end or lie empty at the borders of blocks of two cells.
MCRanges == [kind : {"bounded"}, start : {0, 2, 4, 6}, end : {0, 3, 4, 9}]
            \cup [kind : {"offset"}, start : {1, 4, 9}]
            \cup [kind : {"suffix"}, length : {0, 2, 9}]

MCPlainObject == [payload |-> Cells(1), meta |-> 0, packed |-> FALSE]

MCReaderTxn == IF part = "reader" THEN 3 ELSE 2

DeviceInit ==
    /\ part \in {"allocator", "flush", "reader", "reader beside faults", "codec"}
    /\ AllocInit /\ ReaderInit /\ CodecInit
    /\ plan \in CASE part = "flush" -> MCSurvivable
                  [] part = "reader beside faults" -> MCStormy
                  [] OTHER -> MCCalm
    /\ subscribed <=> part # "flush"
    /\ part # "codec" => object = MCPlainObject

DeviceNext ==
    \/ part = "allocator" /\ AllocNext /\ UNCHANGED <<flushVars, readerVars,
                                                      codecVars, part>>
    \/ part = "flush" /\ FlushNext /\ UNCHANGED <<avars, readerVars, codecVars, part>>
    \/ part \in {"reader", "reader beside faults"} /\ ReaderNext /\ msb'.txn <= MCReaderTxn
       /\ UNCHANGED <<avars, codecVars, part>>
    \/ part = "codec" /\ CodecNext /\ UNCHANGED <<avars, flushVars, readerVars, part>>

DeviceSpec == DeviceInit /\ [][DeviceNext]_deviceVars
=============================================================================
