-------------------------- MODULE ExtentAllocator --------------------------
(***************************************************************************)
(* The first-fit extent allocator of rawobjstr/src/allocator.rs and the    *)
(* rebuild of its free list from the index (rebuild_free_list in           *)
(* rawobjstr/src/store.rs).  Offsets and sizes are counted in 4 KB blocks  *)
(* from DATA_START: every caller passes sizes that padded_extent_size has  *)
(* already rounded up, so align_up is the identity on them.                *)
(***************************************************************************)
EXTENDS Integers, Sequences, FiniteSets, SequencesExt

CONSTANTS NBlocks, MaxExtent

ASSUME AllocatorAssumption == NBlocks \in Nat \ {0} /\ MaxExtent \in 1..NBlocks

VARIABLES free_list,    \* sequence of <<offset, size>>, meant to be sorted
          held,         \* extents the index refers to
          last          \* result of the last alloc, NoSpace when it failed

avars == <<free_list, held, last>>

Run(o, n) == o..(o + n - 1)
NoSpace == -1

\* ExtentAllocator::new over a non-empty data area.
AllocInit ==
    /\ free_list = << <<0, NBlocks>> >>
    /\ held = {}
    /\ last = NoSpace

\* free_list.iter().position(|(_, size)| size >= needed): the entries that
\* fit; alloc takes the first one.
Fitting(n) == {i \in DOMAIN free_list : free_list[i][2] >= n}

\* The list without the first n blocks of entry i: a remainder stays in
\* place, an exact fit removes the entry.
TakeFrom(i, n) ==
    LET off == free_list[i][1]
        sz  == free_list[i][2]
    IN  IF sz - n > 0 THEN [free_list EXCEPT ![i] = <<off + n, sz - n>>]
                      ELSE RemoveAt(free_list, i)

Alloc(n) ==
    /\ Fitting(n) # {}
    /\ LET i == CHOOSE j \in Fitting(n) : \A k \in Fitting(n) : j <= k
       IN  /\ last' = free_list[i][1]
           /\ held' = held \cup {<<free_list[i][1], n>>}
           /\ free_list' = TakeFrom(i, n)

AllocNoSpace(n) ==
    /\ Fitting(n) = {}
    /\ last' = NoSpace
    /\ UNCHANGED <<free_list, held>>

----------------------------------------------------------------------------
\* Join entry i with its successor when the two touch.
MergeWithNext(fl, i) ==
    IF i \in 1..(Len(fl) - 1) /\ fl[i][1] + fl[i][2] = fl[i + 1][1]
    THEN RemoveAt([fl EXCEPT ![i] = <<@[1], @[2] + fl[i + 1][2]>>], i + 1)
    ELSE fl

\* Mutant of FreeInto: the merge with the previous entry is forgotten.
FreeIntoNextOnly(fl, o, n) ==
    LET pos == Cardinality({i \in DOMAIN fl : fl[i][1] < o}) + 1
    IN  MergeWithNext(InsertAt(fl, pos, <<o, n>>), pos)

\* partition_point(|(o, _)| o < offset), insert there, then merge with the
\* next entry and after that with the previous one.
FreeInto(fl, o, n) ==
    LET pos == Cardinality({i \in DOMAIN fl : fl[i][1] < o}) + 1
    IN  MergeWithNext(MergeWithNext(InsertAt(fl, pos, <<o, n>>), pos), pos - 1)

Free(o, n) ==
    /\ <<o, n>> \in held
    /\ free_list' = FreeInto(free_list, o, n)
    /\ held' = held \ {<<o, n>>}
    /\ UNCHANGED last

----------------------------------------------------------------------------
\* sort_by_key of extents by offset: the i-th has i - 1 before it.
ByOffset(S) ==
    [i \in 1..Cardinality(S) |-> CHOOSE e \in S : Cardinality({d \in S : d[1] < e[1]}) = i - 1]

\* The gaps between the held extents in offset order, each from the end of
\* the one before it (the cursor) to the start of the next, the last one up
\* to data_end; empty gaps are not listed.
Gaps ==
    LET used == ByOffset(held)
        start(i) == IF i = 1 THEN 0 ELSE used[i - 1][1] + used[i - 1][2]
        stop(i)  == IF i > Len(used) THEN NBlocks ELSE used[i][1]
    IN  {<<start(i), stop(i) - start(i)>> : i \in {j \in 1..(Len(used) + 1) : stop(j) > start(j)}}

\* from_free_list: sort, and drop empty and out-of-bounds entries.
Restored(gaps) ==
    ByOffset({g \in gaps : g[2] > 0 /\ g[1] >= 0 /\ g[1] + g[2] <= NBlocks})

\* open and repair throw the list away and derive it from the index.
Rebuild ==
    /\ free_list' = Restored(Gaps)
    /\ UNCHANGED <<held, last>>

AllocNext ==
    \/ \E n \in 1..MaxExtent : Alloc(n) \/ AllocNoSpace(n)
    \/ \E e \in held : Free(e[1], e[2])
    \/ Rebuild

AllocSpec == AllocInit /\ [][AllocNext]_avars

----------------------------------------------------------------------------
FreeBlocks == UNION {Run(free_list[i][1], free_list[i][2]) : i \in DOMAIN free_list}

Abstract == INSTANCE FreeSpace WITH free <- FreeBlocks

\* The free list implements the set-of-blocks allocator that the store is
\* written against: lowest fit, NoSpace only when no run of blocks fits, no
\* block leaked or freed twice; rebuilding the list from the index (open,
\* repair) changes nothing.
ImplementsFreeSpace == Abstract!Spec
============================================================================
