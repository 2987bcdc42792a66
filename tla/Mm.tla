--------------------------------- MODULE Mm ---------------------------------
(***************************************************************************)
(* mm.c: an allocator with fourteen segregated free lists.                 *)
(*                                                                         *)
(* A block starts with a 4-byte header, its size plus CUR_ALLOC and        *)
(* PREV_ALLOC; only a free block has a footer, so whether the block before *)
(* is free is known from PREV_ALLOC alone.  A free block holds the next    *)
(* block of its list at bp and the previous one at bp + 8.  The list of    *)
(* index i is glob[i].  Each function of the file is an operator from a    *)
(* heap to a heap, or to a heap and the pointer returned.                  *)
(***************************************************************************)
EXTENDS Memlib, FiniteSets

ASSUME HeapAssumption ==
    /\ MaxHeap \in Nat /\ MaxHeap >= 16                          \* mm_init's four words
    /\ CHUNKSIZE \in Nat /\ CHUNKSIZE % 8 = 0 /\ CHUNKSIZE >= 24 \* a block

OVERHEAD == 8
MINBLOCK == 24
CUR_ALLOC == 1
PREV_ALLOC == 2
TOTALLIST == 14

\* The largest size of each list but the last.
ClassLimits == {24, 48, 72, 96, 120, 480, 960, 1920, 3840, 7680, 15360, 30720, 61440}

index_of(size) == Cardinality({m \in ClassLimits : m < size}) + 1

SUCCESSOR(bp) == bp
PREDECESSOR(bp) == bp + DSIZE

insert_list(H, bp, size) ==
    LET i    == index_of(size)
        head == H.glob[i]
        top  == [PUT(H, PREDECESSOR(bp), NULL) EXCEPT !.glob[i] = bp]
    IN  PUT(IF head = NULL THEN top ELSE PUT(top, PREDECESSOR(head), bp),
            SUCCESSOR(bp), head)

\* A fault: the next block keeps its link back.
remove_list_KeepsBack(H, bp) ==
    LET next == GET(H, SUCCESSOR(bp))
        prev == GET(H, PREDECESSOR(bp))
    IN  IF prev = NULL THEN [H EXCEPT !.glob[index_of(GET_SIZE(H, HDRP(bp)))] = next]
        ELSE PUT(H, SUCCESSOR(prev), next)

\* The head is found by the size in the block's own header.
remove_list(H, bp) ==
    LET next == GET(H, SUCCESSOR(bp))
        prev == GET(H, PREDECESSOR(bp))
        i    == index_of(GET_SIZE(H, HDRP(bp)))
        cut  == IF prev = NULL THEN [H EXCEPT !.glob[i] = next]
                ELSE PUT(H, SUCCESSOR(prev), next)
    IN  IF next = NULL THEN cut ELSE PUT(cut, PREDECESSOR(next), prev)

\* Write a free block's header and its footer.
Tag(H, bp, w) == Wr(Wr(H, HDRP(bp), w), bp + SizeOf(w) - DSIZE, w)

coalesce(H, bp) ==
    LET prevFree == GET_PREV_ALLOC(H, HDRP(bp)) = 0
        next     == NEXT_BLKP(H, bp)
        nextFree == GET_ALLOC(H, HDRP(next)) = 0
        first    == IF prevFree THEN PREV_BLKP(H, bp) ELSE bp
        size     == GET_SIZE(H, HDRP(bp))
                      + (IF prevFree THEN GET_SIZE(H, HDRP(first)) ELSE 0)
                      + (IF nextFree THEN GET_SIZE(H, HDRP(next)) ELSE 0)
        H1 == remove_list(H, bp)
        H2 == IF prevFree THEN remove_list(H1, first) ELSE H1
        H3 == IF nextFree THEN remove_list(H2, next) ELSE H2
        H4 == Tag(H3, first, PACK(size, GET_PREV_ALLOC(H3, HDRP(first))))
    IN  IF ~prevFree /\ ~nextFree THEN Result(H, bp)
        ELSE Result(insert_list(H4, first, size), first)

extend_heap(H, asize) ==
    LET bp == H.brk
        H1 == mem_sbrk(H, asize)
        H2 == Tag(H1, bp, PACK(asize, GET_PREV_ALLOC(H1, HDRP(bp))))
        H3 == insert_list(H2, bp, asize)
        H4 == Wr(H3, HDRP(NEXT_BLKP(H3, bp)), PACK(0, CUR_ALLOC))
    IN  IF asize <= 0 \/ ~CanGrow(H, asize) THEN Result(H, NULL)
        ELSE coalesce(H4, bp)

\* The first block of the list at bp that is large enough, or NULL.
find(H, i, asize) ==
    LET list == ListFrom(H, H.glob[i], 0, MaxBlocks)
        fits == {k \in DOMAIN list : asize <= GET_SIZE(H, HDRP(list[k]))}
    IN  IF fits = {} THEN NULL
        ELSE list[CHOOSE k \in fits : \A l \in fits : k <= l]

\* A fault: only the list of the size's own class is searched.
find_list_OneClass(H, asize) == IF asize <= 0 THEN NULL ELSE find(H, index_of(asize), asize)

find_list(H, asize) ==
    LET found == {i \in index_of(asize)..TOTALLIST : find(H, i, asize) # NULL}
    IN  IF asize <= 0 \/ found = {} THEN NULL
        ELSE find(H, CHOOSE i \in found : \A j \in found : i <= j, asize)

place(H, bp, asize) ==
    LET csize  == GET_SIZE(H, HDRP(bp))
        remain == csize - asize
        prev   == GET_PREV_ALLOC(H, HDRP(bp))
        next   == HDRP(NEXT_BLKP(H, bp))
        H1     == remove_list(H, bp)
        rest   == bp + asize
        split  == Tag(Wr(H1, HDRP(bp), PACK(asize, prev + CUR_ALLOC)),
                      rest, PACK(remain, PREV_ALLOC))
        whole  == Wr(H1, HDRP(bp), PACK(csize, prev + CUR_ALLOC))
    IN  IF remain >= MINBLOCK THEN insert_list(split, rest, remain)
        ELSE Wr(whole, next, Rd(H, next) - GET_PREV_ALLOC(H, next) + PREV_ALLOC)

mm_init(H) ==
    LET start == mem_sbrk([H EXCEPT !.glob = [i \in 1..TOTALLIST |-> NULL]], 4 * WSIZE)
        H1    == Wr(Wr(start, 0, 0), WSIZE, PACK(DSIZE, CUR_ALLOC))
        H2    == Wr(Wr(H1, 2 * WSIZE, PACK(DSIZE, CUR_ALLOC)),
                    3 * WSIZE, PACK(0, PREV_ALLOC + CUR_ALLOC))
    IN  extend_heap(H2, CHUNKSIZE)

\* The block that holds a request of this size.
BlockFor(size) == IF size <= 2 * DSIZE THEN MINBLOCK ELSE ALIGN(size + WSIZE)

malloc(H, size) ==
    LET req   == BlockFor(size)
        found == find_list(H, req)
        more  == extend_heap(H, Larger(req, CHUNKSIZE))
    IN  IF size = 0 THEN Result(H, NULL)
        ELSE IF found # NULL THEN Result(place(H, found, req), found)
        ELSE IF more.p # NULL THEN Result(place(more.h, more.p, req), more.p)
        ELSE Result(more.h, NULL)

\* A fault: the block after still says that this one is in use.
free_KeepsBit(H, ptr) ==
    LET size == GET_SIZE(H, HDRP(ptr))
        H1   == Tag(H, ptr, PACK(size, GET_PREV_ALLOC(H, HDRP(ptr))))
    IN  IF ptr = NULL THEN H ELSE coalesce(insert_list(H1, ptr, size), ptr).h

\* A fault: the block is not merged with its neighbours.
free_Unmerged(H, ptr) ==
    LET size == GET_SIZE(H, HDRP(ptr))
        next == HDRP(NEXT_BLKP(H, ptr))
        H1   == Tag(H, ptr, PACK(size, GET_PREV_ALLOC(H, HDRP(ptr))))
        H2   == Wr(H1, next, PACK(GET_SIZE(H, next), GET_ALLOC(H, next)))
    IN  IF ptr = NULL THEN H ELSE insert_list(H2, ptr, size)

free(H, ptr) ==
    LET size == GET_SIZE(H, HDRP(ptr))
        next == HDRP(NEXT_BLKP(H, ptr))
        H1   == Tag(H, ptr, PACK(size, GET_PREV_ALLOC(H, HDRP(ptr))))
        H2   == Wr(H1, next, PACK(GET_SIZE(H, next), GET_ALLOC(H, next)))
    IN  IF ptr = NULL THEN H
        ELSE coalesce(insert_list(H2, ptr, size), ptr).h

\* A fault: the old block is freed before its data have been copied.
realloc_FreesFirst(H, old, size) ==
    LET new == malloc(H, size)
    IN  IF size = 0 THEN Result(free(H, old), NULL)
        ELSE IF old = NULL THEN malloc(H, size)
        ELSE IF new.p = NULL THEN new
        ELSE Result(Copy(free(new.h, old), new.p, old, size), new.p)

\* A fault: what malloc returned is not looked at.
realloc_Unchecked(H, old, size) ==
    LET new == malloc(H, size)
    IN  IF size = 0 THEN Result(free(H, old), NULL)
        ELSE IF old = NULL THEN malloc(H, size)
        ELSE Result(free(Copy(new.h, new.p, old, size), old), new.p)

(***************************************************************************)
(* The old size is taken from the eight bytes before the payload; the      *)
(* header is their upper half, so it is never the smaller of the two and   *)
(* size bytes are always copied, past the old block's end when it grows.   *)
(***************************************************************************)
realloc(H, old, size) ==
    LET new == malloc(H, size)
    IN  IF size = 0 THEN Result(free(H, old), NULL)
        ELSE IF old = NULL THEN malloc(H, size)
        ELSE IF new.p = NULL THEN new
        ELSE Result(free(Copy(new.h, new.p, old, size), old), new.p)

calloc(H, nmemb, size) ==
    LET new == malloc(H, nmemb * size)
    IN  Result(Fill(new.h, new.p, nmemb * size, 0), new.p)

(***************************************************************************)
(* What the heap must look like between two calls.                         *)
(***************************************************************************)
FirstBlock == 4 * WSIZE

\* mm_checkheap walks the blocks, and each list.
Blocks(H) == BlocksFrom(H, FirstBlock, MaxBlocks)
FreeList(H, i) == ListFrom(H, H.glob[i], 0, MaxBlocks)

IsFree(H, bp) == GET_ALLOC(H, HDRP(bp)) = 0

FreeBlocks(H) ==
    LET b == Blocks(H)
    IN  {b[k] : k \in {j \in DOMAIN b : IsFree(H, b[j])}}

\* The blocks fill the heap up to the epilogue, whose header ends it.
Tiled(H) ==
    LET b == Blocks(H)
        end == IF b = <<>> THEN FirstBlock ELSE NEXT_BLKP(H, b[Len(b)])
    IN  end = H.brk /\ \A k \in DOMAIN b : GET_SIZE(H, HDRP(b[k])) >= MINBLOCK

\* Each header's PREV_ALLOC is the block before's CUR_ALLOC, and a free block's footer is its header.
Tagged(H) ==
    LET b == Blocks(H)
    IN  /\ \A k \in DOMAIN b :
             /\ GET_PREV_ALLOC(H, HDRP(NEXT_BLKP(H, b[k]))) = 2 * GET_ALLOC(H, HDRP(b[k]))
             /\ IsFree(H, b[k]) => Rd(H, FTRP(H, b[k])) = Rd(H, HDRP(b[k]))
        /\ b # <<>> => GET_PREV_ALLOC(H, HDRP(b[1])) = PREV_ALLOC

Merged(H) ==
    LET b == Blocks(H)
    IN  \A k \in 1..Len(b) - 1 : ~(IsFree(H, b[k]) /\ IsFree(H, b[k + 1]))

\* Each free block is on one list, once, and the list is its size's.
OnLists(H) ==
    LET frees == FreeBlocks(H)
    IN  /\ \A i \in 1..TOTALLIST :
             LET l == FreeList(H, i)
             IN  \A k \in DOMAIN l :
                   /\ l[k] \in frees
                   /\ index_of(GET_SIZE(H, HDRP(l[k]))) = i
                   /\ GET(H, PREDECESSOR(l[k])) = (IF k = 1 THEN NULL ELSE l[k - 1])
        /\ \A bp \in frees :
             LET l == FreeList(H, index_of(GET_SIZE(H, HDRP(bp))))
             IN  Cardinality({k \in DOMAIN l : l[k] = bp}) = 1
=============================================================================
