------------------------------- MODULE MmBook -------------------------------
(***************************************************************************)
(* mm-book.c: an implicit list.  Every block has a header and a footer,    *)
(* there are no links, and a search goes over all blocks, from where the   *)
(* last one stopped (NEXT_FIT): the rover is glob[1].                      *)
(***************************************************************************)
EXTENDS Memlib, FiniteSets

\* The prologue's payload, which the second half of a search starts at.
heap_listp == 2 * WSIZE
rover(H) == H.glob[1]

Set(H, bp, w) == Wr(Wr(H, HDRP(bp), w), bp + SizeOf(w) - DSIZE, w)

\* A merge moves a rover that would point into the block.
coalesce(H, bp) ==
    LET prev     == PREV_BLKP(H, bp)
        next     == NEXT_BLKP(H, bp)
        prevFree == GET_ALLOC(H, FTRP(H, prev)) = 0
        nextFree == GET_ALLOC(H, HDRP(next)) = 0
        first    == IF prevFree THEN prev ELSE bp
        size     == GET_SIZE(H, HDRP(bp))
                      + (IF prevFree THEN GET_SIZE(H, HDRP(prev)) ELSE 0)
                      + (IF nextFree THEN GET_SIZE(H, HDRP(next)) ELSE 0)
        H1       == Set(H, first, PACK(size, 0))
    IN  IF ~prevFree /\ ~nextFree THEN Result(H, bp)
        ELSE Result([H1 EXCEPT !.glob[1] =
                       IF @ > first /\ @ < NEXT_BLKP(H1, first) THEN first ELSE @], first)

extend_heap(H, bytes) ==
    LET size == ALIGN(bytes)
        bp == H.brk
        H1 == Set(mem_sbrk(H, size), bp, PACK(size, 0))
        H2 == Wr(H1, HDRP(NEXT_BLKP(H1, bp)), PACK(0, 1))
    IN  IF ~CanGrow(H, size) THEN Result(H, NULL) ELSE coalesce(H2, bp)

mm_init(H) ==
    LET start == [mem_sbrk(H, 4 * WSIZE) EXCEPT !.glob[1] = heap_listp]
        H1 == Wr(Wr(start, 0, 0), WSIZE, PACK(DSIZE, 1))
        H2 == Wr(Wr(H1, 2 * WSIZE, PACK(DSIZE, 1)), 3 * WSIZE, PACK(0, 1))
    IN  extend_heap(H2, CHUNKSIZE)

place(H, bp, asize) ==
    LET csize == GET_SIZE(H, HDRP(bp))
    IN  IF csize - asize >= 2 * DSIZE
        THEN Set(Set(H, bp, PACK(asize, 1)), bp + asize, PACK(csize - asize, 0))
        ELSE Set(H, bp, PACK(csize, 1))

\* The rover is left at the block found, and otherwise where it started or beyond.
find_fit(H, asize) ==
    LET Fits(bp) == GET_ALLOC(H, HDRP(bp)) = 0 /\ asize <= GET_SIZE(H, HDRP(bp))
        end(s, from) == IF s = <<>> THEN from ELSE NEXT_BLKP(H, s[Len(s)])
        up   == BlocksFrom(H, rover(H), MaxBlocks)
        all  == BlocksFrom(H, heap_listp, MaxBlocks)
        down == SelectSeq(all, LAMBDA bp : bp < rover(H))
        in(s) == {k \in DOMAIN s : Fits(s[k])}
        first(s) == s[CHOOSE k \in in(s) : \A l \in in(s) : k <= l]
    IN  IF in(up) # {} THEN Result([H EXCEPT !.glob[1] = first(up)], first(up))
        ELSE IF in(down) # {} THEN Result([H EXCEPT !.glob[1] = first(down)], first(down))
        ELSE Result([H EXCEPT !.glob[1] = end(down, heap_listp)], NULL)

malloc(H, size) ==
    LET asize == IF size <= DSIZE THEN 2 * DSIZE ELSE ALIGN(size + DSIZE)
        found == find_fit(H, asize)
        more  == extend_heap(found.h, Larger(asize, CHUNKSIZE))
    IN  IF size = 0 THEN Result(H, NULL)
        ELSE IF found.p # NULL THEN Result(place(found.h, found.p, asize), found.p)
        ELSE IF more.p = NULL THEN more
        ELSE Result(place(more.h, more.p, asize), more.p)

free(H, bp) ==
    IF bp = NULL THEN H
    ELSE coalesce(Set(H, bp, PACK(GET_SIZE(H, HDRP(bp)), 0)), bp).h

\* The old size counts the header and the footer: up to eight bytes too many are copied.
realloc(H, bp, size) ==
    LET new == malloc(H, size)
    IN  IF size = 0 THEN Result(free(H, bp), NULL)
        ELSE IF bp = NULL THEN malloc(H, size)
        ELSE IF new.p = NULL THEN new
        ELSE Result(free(Copy(new.h, new.p, bp, Smaller(size, GET_SIZE(new.h, HDRP(bp)))), bp),
                    new.p)

(***************************************************************************)
(* checkheap: the prologue, the blocks and the epilogue.                   *)
(***************************************************************************)
Blocks(H) == BlocksFrom(H, heap_listp, MaxBlocks)

checkblock(H, bp) == bp % 8 = 0 /\ Rd(H, HDRP(bp)) = Rd(H, FTRP(H, bp))

checkheap(H) ==
    LET b == Blocks(H)
    IN  /\ GET_SIZE(H, HDRP(heap_listp)) = DSIZE /\ GET_ALLOC(H, HDRP(heap_listp)) = 1
        /\ \A k \in DOMAIN b : checkblock(H, b[k])
        /\ Rd(H, HDRP(NEXT_BLKP(H, b[Len(b)]))) = PACK(0, 1)
=============================================================================
