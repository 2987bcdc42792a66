--------------------------- MODULE MmSegregated ---------------------------
(***************************************************************************)
(* mm-segregated.c: the first version of mm.c, with the blocks, the lists  *)
(* and the searches of the final one.  Its functions that do what mm.c's   *)
(* do are those; the others are written out.                               *)
(***************************************************************************)
EXTENDS Memlib, FiniteSets

mm == INSTANCE Mm

addingtoseglist(H, bp, size) == mm!insert_list(H, bp, size)

\* The head is found by the size the caller gives.
removefromseglist(H, bp, size) ==
    LET next == GET(H, mm!SUCCESSOR(bp))
        prev == GET(H, mm!PREDECESSOR(bp))
        cut  == IF prev = NULL THEN [H EXCEPT !.glob[mm!index_of(size)] = next]
                ELSE PUT(H, mm!SUCCESSOR(prev), next)
    IN  IF next = NULL THEN cut ELSE PUT(cut, mm!PREDECESSOR(next), prev)

coalesce(H, bp) ==
    LET prevFree == GET_PREV_ALLOC(H, HDRP(bp)) = 0
        next     == NEXT_BLKP(H, bp)
        nextFree == GET_ALLOC(H, HDRP(next)) = 0
        first    == IF prevFree THEN PREV_BLKP(H, bp) ELSE bp
        size  == GET_SIZE(H, HDRP(bp))
        psize == IF prevFree THEN GET_SIZE(H, HDRP(first)) ELSE 0
        nsize == IF nextFree THEN GET_SIZE(H, HDRP(next)) ELSE 0
        H1 == removefromseglist(H, bp, size)
        H2 == IF prevFree THEN removefromseglist(H1, first, psize) ELSE H1
        H3 == IF nextFree THEN removefromseglist(H2, next, nsize) ELSE H2
        H4 == mm!Tag(H3, first, PACK(size + psize + nsize, GET_PREV_ALLOC(H3, HDRP(first))))
    IN  IF ~prevFree /\ ~nextFree THEN Result(H, bp)
        ELSE Result(addingtoseglist(H4, first, size + psize + nsize), first)

extend_heap(H, size) ==
    LET bp == H.brk
        H1 == mem_sbrk(H, size)
        H2 == mm!Tag(H1, bp, PACK(size, GET_PREV_ALLOC(H1, HDRP(bp))))
        H3 == addingtoseglist(H2, bp, size)
        H4 == Wr(H3, HDRP(NEXT_BLKP(H3, bp)), PACK(0, 1))
    IN  IF ~CanGrow(H, size) THEN Result(H, NULL) ELSE coalesce(H4, bp)

find(H, i, asize) == mm!find(H, i, asize)
find_fit(H, asize) == mm!find_list(H, asize)

place(H, bp, asize) ==
    LET csize  == GET_SIZE(H, HDRP(bp))
        remain == csize - asize
        next   == HDRP(NEXT_BLKP(H, bp))
        H1     == removefromseglist(H, bp, csize)
        prev   == GET_PREV_ALLOC(H1, HDRP(bp))
        rest   == bp + asize
        split  == mm!Tag(Wr(H1, HDRP(bp), PACK(asize, prev + mm!CUR_ALLOC)),
                         rest, PACK(remain, mm!PREV_ALLOC))
        whole  == Wr(H1, HDRP(bp), PACK(csize, prev + mm!CUR_ALLOC))
    IN  IF remain >= mm!MINBLOCK THEN addingtoseglist(split, rest, remain)
        ELSE Wr(whole, next, Rd(H, next) - GET_PREV_ALLOC(H, next) + mm!PREV_ALLOC)

mm_init(H) ==
    LET start == mem_sbrk([H EXCEPT !.glob = [i \in 1..mm!TOTALLIST |-> NULL]], 4 * WSIZE)
        H1    == Wr(Wr(start, 0, 0), WSIZE, PACK(DSIZE, 1))
        H2    == Wr(Wr(H1, 2 * WSIZE, PACK(DSIZE, 1)), 3 * WSIZE, PACK(0, 3))
    IN  extend_heap(H2, CHUNKSIZE)

malloc(H, size) ==
    LET asize == mm!BlockFor(size)
        found == find_fit(H, asize)
        more  == extend_heap(H, Larger(asize, CHUNKSIZE))
    IN  IF size = 0 THEN Result(H, NULL)
        ELSE IF found # NULL THEN Result(place(H, found, asize), found)
        ELSE IF more.p = NULL THEN more
        ELSE Result(place(more.h, more.p, asize), more.p)

free(H, ptr) ==
    LET size == GET_SIZE(H, HDRP(ptr))
        next == HDRP(NEXT_BLKP(H, ptr))
        H1   == mm!Tag(H, ptr, PACK(size, GET_PREV_ALLOC(H, HDRP(ptr))))
        H2   == Wr(H1, next, PACK(GET_SIZE(H1, next), GET_ALLOC(H1, next)))
    IN  IF ptr = NULL THEN H
        ELSE coalesce(addingtoseglist(H2, ptr, size), ptr).h

\* What malloc returned is not looked at before the copy.
realloc(H, old, size) ==
    LET new      == malloc(H, size)
        copysize == Smaller(size, GET_SIZE(new.h, HDRP(old)) - WSIZE)
    IN  IF old = NULL THEN malloc(H, size)
        ELSE IF size = 0 THEN Result(free(H, old), NULL)
        ELSE Result(free(Copy(new.h, new.p, old, copysize), old), new.p)

\* The first byte of each element is set to zero, and no other.
calloc(H, nmemb, size) ==
    LET new    == malloc(H, nmemb * size)
        starts == {new.p + k * size : k \in 0..(nmemb - 1)}
    IN  IF new.p = NULL THEN [new EXCEPT !.h.fault = nmemb > 0]
        ELSE [new EXCEPT !.h.mem = [a \in Word |->
                IF a \in starts THEN @[a] - (@[a] % 256) ELSE @[a]]]
=============================================================================
