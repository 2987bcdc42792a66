----------------------------- MODULE MmExplicit -----------------------------
(***************************************************************************)
(* mm-explicit.c: one list of free blocks, headers and footers that hold   *)
(* the size of the payload alone, and the links of a free block at bp      *)
(* (previous) and bp + 8 (next).  A free block that is split keeps its     *)
(* place on the list; its end is what is allocated.                        *)
(***************************************************************************)
EXTENDS Memlib, FiniteSets

\* The list's head, and how many of its blocks a search looks at.
free_list(H) == H.glob[1]
MaxSteps == 300

FTRP_(H, bp) == bp + GET_SIZE(H, HDRP(bp))
NEXT_BLK(H, bp) == bp + GET_SIZE(H, HDRP(bp)) + 2 * WSIZE
PREV_BLK(H, bp) == bp - GET_SIZE(H, bp - DSIZE) - 2 * WSIZE
GET_NEXT(H, bp) == GET(H, bp + DSIZE)
GET_PREV(H, bp) == GET(H, bp)
SET_NEXT(H, bp, p) == PUT(H, bp + DSIZE, p)
SET_PREV(H, bp, p) == PUT(H, bp, p)

\* Header and footer of a payload of size bytes.
Set(H, bp, size, alloc) == Wr(Wr(H, HDRP(bp), PACK(size, alloc)), bp + size, PACK(size, alloc))

add(H, bp) ==
    LET head == free_list(H)
        H1   == SET_PREV(SET_NEXT(H, bp, head), bp, NULL)
    IN  [IF head = NULL THEN H1 ELSE SET_PREV(H1, head, bp) EXCEPT !.glob[1] = bp]

delete(H, bp) ==
    LET next == GET_NEXT(H, bp)
        prev == GET_PREV(H, bp)
        cut  == IF prev = NULL THEN [H EXCEPT !.glob[1] = next] ELSE SET_NEXT(H, prev, next)
    IN  IF next = NULL THEN cut ELSE SET_PREV(cut, next, prev)

splitter(H, bp, newsize) ==
    LET H1 == Set(H, bp, GET_SIZE(H, HDRP(bp)) - newsize - 2 * WSIZE, 0)
        p  == NEXT_BLK(H1, bp)
    IN  Result(Set(H1, p, newsize, 1), p)

mm_init(H) ==
    IF CanGrow(H, 2 * WSIZE)
    THEN Result([Wr(Wr(mem_sbrk(H, 2 * WSIZE), 0, PACK(0, 1)), WSIZE, PACK(0, 1))
                   EXCEPT !.glob[1] = NULL], 0)
    ELSE Result(H, -1)

\* First fit over the list; a block taken whole keeps its size.
malloc(H, size) ==
    LET newsize == IF size <= 4 * DSIZE THEN 4 * DSIZE ELSE ALIGN(size)
        list == ListFrom(H, free_list(H), DSIZE, MaxSteps)
        fits == {k \in DOMAIN list : GET_SIZE(H, HDRP(list[k])) >= newsize}
        bp   == list[CHOOSE k \in fits : \A l \in fits : k <= l]
        tempsize == GET_SIZE(H, HDRP(bp))
        top  == H.brk
        H1   == Set(mem_sbrk(H, newsize + 2 * WSIZE), top, newsize, 1)
    IN  IF size = 0 THEN Result(H, NULL)
        ELSE IF fits # {}
        THEN IF tempsize >= newsize + 32 THEN splitter(H, bp, newsize)
             ELSE Result(Set(delete(H, bp), bp, tempsize, 1), bp)
        ELSE IF ~CanGrow(H, newsize + 2 * WSIZE) THEN Result(H, NULL)
        ELSE Result(Wr(H1, FTRP_(H1, top) + WSIZE, PACK(0, 1)), top)

\* Only a merge with the block before leaves the list as it is.
coalesce(H, bp) ==
    LET size     == GET_SIZE(H, HDRP(bp))
        next     == NEXT_BLK(H, bp)
        prev     == PREV_BLK(H, bp)
        nextSize == GET_SIZE(H, HDRP(next)) + 2 * WSIZE
        prevSize == GET_SIZE(H, HDRP(prev)) + 2 * WSIZE
        prevFree == GET_ALLOC(H, bp - DSIZE) = 0
        nextFree == GET_ALLOC(H, FTRP_(H, bp) + WSIZE) = 0
    IN  CASE ~prevFree /\ ~nextFree -> add(H, bp)
          [] ~prevFree /\ nextFree  -> add(Set(delete(H, next), bp, size + nextSize, 0), bp)
          [] prevFree /\ ~nextFree  -> Set(H, prev, size + prevSize, 0)
          [] prevFree /\ nextFree   -> delete(Set(H, prev, size + prevSize + nextSize, 0), next)

free(H, bp) ==
    LET H1 == Set(H, bp, GET_SIZE(H, HDRP(bp)), 0)
    IN  IF bp = NULL THEN H
        ELSE IF free_list(H) # NULL THEN coalesce(H1, bp) ELSE add(H1, bp)

realloc(H, bp, size) ==
    LET new == malloc(H, size)
    IN  IF size = 0 THEN Result(free(H, bp), NULL)
        ELSE IF bp = NULL THEN malloc(H, size)
        ELSE IF new.p = NULL THEN new
        ELSE Result(free(Copy(new.h, new.p, bp, Smaller(size, GET_SIZE(new.h, HDRP(bp)))), bp),
                    new.p)

FirstBlock == 2 * WSIZE
FreeList(H) == ListFrom(H, free_list(H), DSIZE, MaxBlocks)

\* mm_check exits when a block of the list is not in the heap.
mm_check(H) == \A k \in DOMAIN FreeList(H) : InHeap(H, FreeList(H)[k])

\* The blocks, each found from the payload size of the one before.
RECURSIVE BlocksOf(_, _, _)
BlocksOf(H, bp, fuel) ==
    IF fuel = 0 \/ GET_SIZE(H, HDRP(bp)) <= 0 THEN <<>>
    ELSE <<bp>> \o BlocksOf(H, NEXT_BLK(H, bp), fuel - 1)

Blocks(H) == BlocksOf(H, FirstBlock, MaxBlocks)
=============================================================================
