----------------------------- MODULE MmDriven ------------------------------
(***************************************************************************)
(* The driver of mdriver.c and the allocator of mm.c side by side: what    *)
(* mm.c's heap looks like after each request, when the driver is linked    *)
(* with mm.c.                                                              *)
(***************************************************************************)
EXTENDS Mdriver, Mm

\* The blocks of mm.c fill the heap and their tags agree: a PREV_ALLOC bit, which
\* another block's free or place maintains, is never wrong (mm.c 397, 590).
Sound == impl = "mm" => Tiled(heap) /\ Tagged(heap)

\* No two free blocks of mm.c are neighbours, after whatever coalesce did (mm.c 223).
Coalesced == impl = "mm" => Merged(heap)

\* Each free block of mm.c is on the list of its size, once, with its links right (mm.c 295).
Listed == impl = "mm" => OnLists(heap)

\* mm.c refuses a request only if no free block would have held it and the heap
\* cannot grow: the search skips no list and no list lacks a block (mm.c 341, 536).
FailsOnlyFull ==
    [][\A i \in Ids, n \in Sizes :
         impl = "mm" /\ (\/ status' = "mm_malloc failed" /\ Alloc(i, n)
                         \/ status' = "mm_realloc failed" /\ Realloc(i, n)) =>
              /\ \A bp \in FreeBlocks(heap) : GET_SIZE(heap, HDRP(bp)) < BlockFor(n)
              /\ ~CanGrow(heap, Larger(BlockFor(n), CHUNKSIZE))]_vars
=============================================================================
