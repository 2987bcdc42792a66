-------------------------------- MODULE MmMy --------------------------------
(***************************************************************************)
(* mm-my.c: a circular list of free blocks through a head at the start of  *)
(* the heap.  A header is 24 bytes: the size, the next and the previous    *)
(* block.  Blocks are neither split nor merged, and a null pointer is not  *)
(* told from another.                                                      *)
(***************************************************************************)
EXTENDS Memlib, FiniteSets

BLK_HDR_SIZE == 24
heap_lo == 0

next(H, bp) == GET(H, bp + 8)
prev(H, bp) == GET(H, bp + 16)
size_of(H, bp) == Rd(H, bp)

\* An address field; the head, at offset 0, is no null pointer here.
SetField(H, a, p) == Wr(Wr(H, a, p), a + 4, HeapHigh)

mm_init(H) ==
    SetField(SetField(Wr(Wr(mem_sbrk(H, BLK_HDR_SIZE), heap_lo, BLK_HDR_SIZE), heap_lo + 4, 0),
                      heap_lo + 8, heap_lo), heap_lo + 16, heap_lo)

\* The free blocks, from the head's next.
FreeList(H) == ListFrom(H, next(H, heap_lo), 8, MaxBlocks)

find_fit(H, size) ==
    LET list == FreeList(H)
        fits == {k \in DOMAIN list : size_of(H, list[k]) >= size}
    IN  IF fits = {} THEN NULL ELSE list[CHOOSE k \in fits : \A l \in fits : k <= l]

malloc(H, size) ==
    LET newsize == ALIGN(BLK_HDR_SIZE + size)
        bp == find_fit(H, newsize)
        H1 == SetField(H, prev(H, bp) + 8, next(H, bp))
    IN  IF bp # NULL
        THEN Result(SetField(H1, next(H, bp) + 16, prev(H, bp)), bp + BLK_HDR_SIZE)
        ELSE IF ~CanGrow(H, newsize) THEN Result(H, NULL)
        ELSE Result(Wr(Wr(mem_sbrk(H, newsize), H.brk, newsize), H.brk + 4, 0),
                    H.brk + BLK_HDR_SIZE)

\* bp->next->prev is set through the block's new next.
free(H, ptr) ==
    LET bp    == ptr - BLK_HDR_SIZE
        first == next(H, heap_lo)
        H1    == SetField(SetField(H, bp + 8, first), bp + 16, heap_lo)
        H2    == SetField(H1, heap_lo + 8, bp)
    IN  IF ptr = NULL THEN [H EXCEPT !.fault = TRUE]
        ELSE SetField(H2, next(H2, bp) + 16, bp)

realloc(H, old, size) ==
    LET new  == malloc(H, size)
        kept == size_of(new.h, old - BLK_HDR_SIZE) - BLK_HDR_SIZE
    IN  IF new.p = NULL THEN new
        ELSE IF old = NULL THEN [new EXCEPT !.h.fault = TRUE]
        ELSE Result(free(Copy(new.h, new.p, old, Smaller(size, kept)), old), new.p)

calloc(H, nmemb, size) ==
    LET new == malloc(H, nmemb * size)
    IN  Result(Fill(new.h, new.p, nmemb * size, 0), new.p)

RECURSIVE BlocksOf(_, _, _)
BlocksOf(H, bp, fuel) ==
    IF fuel = 0 \/ bp >= H.brk THEN <<>>
    ELSE <<bp>> \o BlocksOf(H, bp + size_of(H, bp), fuel - 1)

Blocks(H) == BlocksOf(H, BLK_HDR_SIZE, MaxBlocks)
=============================================================================
