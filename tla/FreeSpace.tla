----------------------------- MODULE FreeSpace -----------------------------
(***************************************************************************)
(* What the callers of rawobjstr/src/allocator.rs rely on: the data area   *)
(* is a set of blocks; an allocation takes the lowest run of free blocks   *)
(* that is long enough, it is refused only when there is no such run, and  *)
(* a freed extent can be allocated again.  Nothing here says how the free  *)
(* blocks are represented.  ExtentAllocator implements this module.        *)
(***************************************************************************)
EXTENDS Integers

CONSTANTS NBlocks,      \* blocks in the data area [DATA_START, data_end)
          MaxExtent     \* largest extent asked for, in blocks

VARIABLES free,         \* blocks that belong to no extent
          held,         \* extents handed out, as <<offset, size>>
          last          \* outcome of the last call: an offset, or -1 for NoSpace

fvars == <<free, held, last>>

Blocks == 0..(NBlocks - 1)

\* The blocks of an extent of n blocks that starts at block o.
Run(o, n) == o..(o + n - 1)

NoSpace == -1

TypeOK ==
    /\ free \subseteq Blocks
    /\ held \subseteq (Blocks \X (1..NBlocks))
    /\ last \in Blocks \cup {NoSpace}

Init ==
    /\ free = Blocks
    /\ held = {}
    /\ last = NoSpace

\* n free blocks lie side by side from block o on.
Fits(o, n) == Run(o, n) \subseteq free

Alloc(n) ==
    \E o \in Blocks :
        /\ last' = o
        /\ held' = held \cup {<<o, n>>}
        /\ Fits(o, n) /\ \A q \in 0..(o - 1) : ~ Fits(q, n)
        /\ free' = free \ Run(o, n)

Refuse(n) ==
    /\ last' = NoSpace
    /\ \A o \in Blocks : ~ Fits(o, n)
    /\ UNCHANGED <<free, held>>

Free(o, n) ==
    /\ <<o, n>> \in held
    /\ free' = free \cup Run(o, n)
    /\ held' = held \ {<<o, n>>}
    /\ UNCHANGED last

Next ==
    \/ \E n \in 1..MaxExtent : Alloc(n) \/ Refuse(n)
    \/ \E e \in held : Free(e[1], e[2])

Spec == Init /\ [][Next]_fvars
============================================================================
