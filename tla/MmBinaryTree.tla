---------------------------- MODULE MmBinaryTree ----------------------------
(***************************************************************************)
(* mm-binarytree.c: free blocks of 24 bytes and more in a binary search    *)
(* tree by size, blocks of one size chained as brothers below the node;    *)
(* those of 16 bytes on a doubly linked list, those of 8 on a singly       *)
(* linked one.  Links are the lower halves of addresses, so that the null  *)
(* block is the start of the heap: what is written to its fields goes to   *)
(* the heap's first words, which are kept free for that.  glob[1], glob[2] *)
(* and glob[3] are the root and the two lists.                             *)
(***************************************************************************)
EXTENDS Memlib, FiniteSets

HEAP_NIL == 0
HEADSIZE == 4
HNF == 8
BLKSIZE == 24

root(H) == H.glob[1]
small_list_ptr(H) == H.glob[2]
mini_list_ptr(H) == H.glob[3]

\* The header's bits about the block before: free, and free and of 8 bytes.
Sign(H, bp) == (Rd(H, HDRP(bp)) % 8) - (Rd(H, HDRP(bp)) % 2)
E_FREE(w) == (w % 8) - (w % 4)
PREVALLOC(w) == (w % 4) - (w % 2)

HeadWord(H, bp) == Rd(H, HDRP(bp))
BlkSize(H, bp) == GET_SIZE(H, HDRP(bp))
Used(H, bp) == GET_ALLOC(H, HDRP(bp)) = 1

SET_PREVALLOC(H, bp) == Wr(H, HDRP(bp), HeadWord(H, bp) - PREVALLOC(HeadWord(H, bp)) + 2)
RESET_PREVALLOC(H, bp) == Wr(H, HDRP(bp), HeadWord(H, bp) - PREVALLOC(HeadWord(H, bp)))
SET_PREV_E_FREE(H, bp) == Wr(H, HDRP(bp), HeadWord(H, bp) - E_FREE(HeadWord(H, bp)) + 4)
RESET_PREV_E_FREE(H, bp) == Wr(H, HDRP(bp), HeadWord(H, bp) - E_FREE(HeadWord(H, bp)))

PUT_HEAD(H, bp, w) == Wr(H, HDRP(bp), w)

\* PUT_HEAD and PUT_FOOT.
Tag(H, bp, w) == Wr(Wr(H, HDRP(bp), w), bp + SizeOf(w) - DSIZE, w)

GET_NEXT(H, bp) == bp + BlkSize(H, bp)
GET_PREV(H, bp) == IF E_FREE(HeadWord(H, bp)) # 0 THEN bp - 8 ELSE bp - GET_SIZE(H, bp - DSIZE)

LEFT(H, bp) == Rd(H, bp)
RIGHT(H, bp) == Rd(H, bp + 4)
PARENT(H, bp) == Rd(H, bp + 8)
BROTHER(H, bp) == Rd(H, bp + 12)
PUT_LEFT(H, bp, p) == Wr(H, bp, p)
PUT_RIGHT(H, bp, p) == Wr(H, bp + 4, p)
PUT_PARENT(H, bp, p) == Wr(H, bp + 8, p)
PUT_BROTHER(H, bp, p) == Wr(H, bp + 12, p)

(***************************************************************************)
(* insert_node: the tree is descended to a node of the block's size or to  *)
(* an empty place; a node of its size becomes its brother.                 *)
(***************************************************************************)
RECURSIVE Seek(_, _, _, _, _)
Seek(H, temp, parent, size, fuel) ==
    IF temp = HEAP_NIL \/ BlkSize(H, temp) = size \/ fuel = 0 THEN [at |-> temp, parent |-> parent]
    ELSE Seek(H, IF size < BlkSize(H, temp) THEN LEFT(H, temp) ELSE RIGHT(H, temp),
              temp, size, fuel - 1)

InsertMini(H, bp) ==
    [PUT_LEFT(SET_PREV_E_FREE(H, GET_NEXT(H, bp)), bp, mini_list_ptr(H)) EXCEPT !.glob[3] = bp]

InsertSmall(H, bp) ==
    [PUT_LEFT(PUT_RIGHT(PUT_LEFT(H, bp, HEAP_NIL), bp, small_list_ptr(H)), small_list_ptr(H), bp)
       EXCEPT !.glob[2] = bp]

InsertTree(H, bp) ==
    LET size == BlkSize(H, bp)
        spot == Seek(H, root(H), HEAP_NIL, size, MaxBlocks)
        temp == spot.at
        leaf == PUT_BROTHER(PUT_PARENT(PUT_RIGHT(PUT_LEFT(H, bp, HEAP_NIL), bp, HEAP_NIL),
                                       bp, spot.parent), bp, HEAP_NIL)
        L  == LEFT(H, temp)
        R  == RIGHT(H, temp)
        H1 == PUT_RIGHT(PUT_LEFT(H, bp, L), bp, R)
        H2 == PUT_PARENT(PUT_PARENT(PUT_PARENT(H1, L, bp), R, bp), bp, spot.parent)
        same == PUT_LEFT(PUT_BROTHER(H2, bp, temp), temp, bp)
        H3 == IF temp = HEAP_NIL THEN leaf ELSE same
    IN  IF spot.parent = HEAP_NIL THEN [H3 EXCEPT !.glob[1] = bp]
        ELSE IF size < BlkSize(H, spot.parent) THEN PUT_LEFT(H3, spot.parent, bp)
        ELSE PUT_RIGHT(H3, spot.parent, bp)

insert_node(H, bp) ==
    LET H1   == RESET_PREVALLOC(H, GET_NEXT(H, bp))
        size == BlkSize(H1, bp)
    IN  IF size = 8 THEN InsertMini(H1, bp)
        ELSE IF size = 16 THEN InsertSmall(H1, bp)
        ELSE IF size < BLKSIZE THEN H1
        ELSE InsertTree(H1, bp)

(***************************************************************************)
(* delete_node.                                                            *)
(***************************************************************************)
DeleteMini(H, bp) ==
    LET list   == ListFrom(H, mini_list_ptr(H), 0, MaxBlocks)
        before == {k \in DOMAIN list : LEFT(H, list[k]) = bp}
        temp   == IF before = {} THEN HEAP_NIL ELSE list[CHOOSE k \in before : TRUE]
        H1     == RESET_PREV_E_FREE(H, GET_NEXT(H, bp))
    IN  IF mini_list_ptr(H) = bp THEN [H1 EXCEPT !.glob[3] = LEFT(H, bp)]
        ELSE PUT_LEFT(H1, temp, LEFT(H, bp))

DeleteSmall(H, bp) ==
    LET L == LEFT(H, bp)
        R == RIGHT(H, bp)
    IN  [PUT_LEFT(PUT_RIGHT(H, L, R), R, L)
           EXCEPT !.glob[2] = IF @ = bp THEN R ELSE @]

\* Put the block new where bp is: at the root, or below bp's parent.
Replace(H, bp, new) ==
    LET P == PARENT(H, bp)
    IN  IF bp = root(H)
        THEN [IF new = HEAP_NIL THEN H ELSE PUT_PARENT(H, new, HEAP_NIL) EXCEPT !.glob[1] = new]
        ELSE PUT_PARENT(IF LEFT(H, P) = bp THEN PUT_LEFT(H, P, new) ELSE PUT_RIGHT(H, P, new),
                        new, P)

RECURSIVE Leftmost(_, _, _)
Leftmost(H, temp, fuel) ==
    IF fuel = 0 \/ LEFT(H, temp) = HEAP_NIL THEN temp ELSE Leftmost(H, LEFT(H, temp), fuel - 1)

\* The only block of its node: the least of the right subtree takes its place.
DeleteNode(H, bp) ==
    LET L == LEFT(H, bp)
        R == RIGHT(H, bp)
        temp  == Leftmost(H, R, MaxBlocks)
        tempR == RIGHT(H, temp)
        tempP == PARENT(H, temp)
        H1 == PUT_PARENT(PUT_LEFT(Replace(H, bp, temp), temp, L), L, temp)
        H2 == PUT_PARENT(PUT_RIGHT(H1, temp, R), R, temp)
    IN  IF R = HEAP_NIL THEN Replace(H, bp, L)
        ELSE IF temp = R THEN H1
        ELSE PUT_PARENT(PUT_LEFT(H2, tempP, tempR), tempR, tempP)

\* The first block of its node: its brother takes its place and its links.
DeleteFirst(H, bp) ==
    LET temp == BROTHER(H, bp)
        H1 == Replace(H, bp, temp)
        H2 == PUT_RIGHT(PUT_LEFT(H1, temp, LEFT(H1, bp)), temp, RIGHT(H1, bp))
    IN  PUT_PARENT(PUT_PARENT(H2, LEFT(H2, bp), temp), RIGHT(H2, bp), temp)

\* A block below the first of its node is known by being its left neighbour's brother.
DeleteTree(H, bp) ==
    LET L == LEFT(H, bp)
        B == BROTHER(H, bp)
    IN  IF L # HEAP_NIL /\ BROTHER(H, L) = bp THEN PUT_LEFT(PUT_BROTHER(H, L, B), B, L)
        ELSE IF B = HEAP_NIL THEN DeleteNode(H, bp)
        ELSE DeleteFirst(H, bp)

delete_node(H, bp) ==
    LET H1   == SET_PREVALLOC(H, GET_NEXT(H, bp))
        size == BlkSize(H1, bp)
    IN  IF size = 8 THEN DeleteMini(H1, bp)
        ELSE IF size = 16 THEN DeleteSmall(H1, bp)
        ELSE IF size < BLKSIZE THEN H1
        ELSE DeleteTree(H1, bp)

coalesce(H, bp) ==
    LET prevFree == PREVALLOC(HeadWord(H, bp)) = 0
        nextFree == ~Used(H, GET_NEXT(H, bp))
        prev == GET_PREV(H, bp)
        next == GET_NEXT(H, bp)
        first == IF prevFree THEN prev ELSE bp
        size == BlkSize(H, bp) + (IF prevFree THEN BlkSize(H, prev) ELSE 0)
                               + (IF nextFree THEN BlkSize(H, next) ELSE 0)
        H1 == IF prevFree THEN delete_node(H, prev) ELSE H
        H2 == IF nextFree THEN delete_node(H1, next) ELSE H1
        sign == IF prevFree /\ ~nextFree THEN Sign(H, prev) ELSE Sign(H2, bp)
    IN  IF ~prevFree /\ ~nextFree THEN Result(H, bp)
        ELSE Result(Tag(H2, first, PACK(size, sign)), first)

\* A free block at the end of the heap counts towards what is asked for.
extend_heap(H, asked) ==
    LET end  == Rd(H, H.brk - 4)
        last == IF PREVALLOC(end) # 0 THEN 0
                ELSE IF E_FREE(end) # 0 THEN 8 ELSE GET_SIZE(H, H.brk - 8)
        size == Larger(CHUNKSIZE, asked - last)
        bp == H.brk
        H1 == Tag(mem_sbrk(H, size), bp, PACK(size, Sign(H, bp)))
        r  == coalesce(PUT_HEAD(H1, GET_NEXT(H1, bp), PACK(0, 1)), bp)
    IN  IF asked - last <= 0 \/ ~CanGrow(H, size) THEN H ELSE insert_node(r.h, r.p)

mm_init(H) ==
    LET start == [mem_sbrk(H, 6 * WSIZE) EXCEPT !.glob = [i \in 1..14 |-> HEAP_NIL]]
        H1 == Wr(Wr(start, 2 * WSIZE, 0), 3 * WSIZE, PACK(DSIZE, 1))
        H2 == Wr(Wr(H1, 4 * WSIZE, PACK(DSIZE, 1)), 5 * WSIZE, PACK(0, 3))
    IN  extend_heap(H2, BLKSIZE)

\* The least block of the tree that is large enough.
RECURSIVE BestFit(_, _, _, _, _)
BestFit(H, temp, fit, asize, fuel) ==
    IF fuel = 0 \/ temp = HEAP_NIL THEN fit
    ELSE IF asize <= BlkSize(H, temp) THEN BestFit(H, LEFT(H, temp), temp, asize, fuel - 1)
    ELSE BestFit(H, RIGHT(H, temp), fit, asize, fuel - 1)

match(H, asize) ==
    IF asize = 8 /\ mini_list_ptr(H) # HEAP_NIL THEN mini_list_ptr(H)
    ELSE IF asize <= 16 /\ small_list_ptr(H) # HEAP_NIL THEN small_list_ptr(H)
    ELSE BestFit(H, root(H), HEAP_NIL, asize, MaxBlocks)

\* A fault: the rest is in neither the tree nor a list.
GiveBack_Lost(H, bp, newsize, csize) ==
    LET H1 == PUT_HEAD(H, bp, PACK(newsize, 1 + Sign(H, bp)))
    IN  coalesce(Tag(H1, bp + newsize, PACK(csize - newsize, 2)), bp + newsize).h

\* The end of a block that is larger than newsize becomes a free block, and is merged.
GiveBack(H, bp, newsize, csize) ==
    LET H1 == PUT_HEAD(H, bp, PACK(newsize, 1 + Sign(H, bp)))
        r  == coalesce(Tag(H1, bp + newsize, PACK(csize - newsize, 2)), bp + newsize)
    IN  insert_node(r.h, r.p)

place(H, bp, asize) ==
    LET csize == BlkSize(H, bp)
        H1    == delete_node(H, bp)
    IN  IF csize - asize >= HNF THEN GiveBack(H1, bp, asize, csize)
        ELSE PUT_HEAD(H1, bp, PACK(csize, 1 + Sign(H1, bp)))

BlockFor(size) == ALIGN(size + HEADSIZE)

\* A block that fits, with the heap extended once to find one.
Obtain(H, asize) ==
    LET H1 == IF match(H, asize) = HEAP_NIL THEN extend_heap(H, asize) ELSE H
        bp == match(H1, asize)
    IN  IF bp = HEAP_NIL THEN Result(H1, NULL) ELSE Result(place(H1, bp, asize), bp)

malloc(H, size) == IF size = 0 THEN Result(H, NULL) ELSE Obtain(H, BlockFor(size))

free(H, bp) ==
    LET r == coalesce(Tag(H, bp, PACK(BlkSize(H, bp), Sign(H, bp))), bp)
    IN  IF bp = NULL \/ ~Used(H, bp) THEN H ELSE insert_node(r.h, r.p)

\* In place: the end of the block, with a free block after it, is given back.
Shrink(H, ptr, newsize) ==
    LET oldsize == BlkSize(H, ptr)
        next    == GET_NEXT(H, ptr)
    IN  IF ~Used(H, next)
        THEN GiveBack(delete_node(H, next), ptr, newsize, oldsize + BlkSize(H, next))
        ELSE IF oldsize - newsize >= HNF THEN GiveBack(H, ptr, newsize, oldsize)
        ELSE H

(***************************************************************************)
(* Into the free block after it, as its size was before the heap is        *)
(* extended, or into a new block.  The heap is extended when the block     *)
(* after is the epilogue, or when the word at the start of the second      *)
(* block after it is zero.                                                 *)
(***************************************************************************)
Grow(H, ptr, newsize) ==
    LET oldsize == BlkSize(H, ptr)
        next    == GET_NEXT(H, ptr)
        csize   == oldsize + BlkSize(H, next)
        H1 == IF BlkSize(H, next) = 0 \/ Rd(H, GET_NEXT(H, next)) = 0
              THEN extend_heap(H, newsize - oldsize) ELSE H
        H2 == delete_node(H1, GET_NEXT(H1, ptr))
        H3 == PUT_HEAD(H2, ptr, PACK(csize, 1 + Sign(H2, ptr)))
        new == Obtain(H1, newsize)
    IN  IF ~Used(H, next) /\ csize >= newsize
        THEN Result(IF csize - newsize >= HNF THEN GiveBack(H2, ptr, newsize, csize)
                    ELSE SET_PREVALLOC(H3, GET_NEXT(H3, ptr)), ptr)
        ELSE IF new.p = NULL THEN new
        ELSE Result(free(Copy(new.h, new.p, ptr, oldsize - HEADSIZE), ptr), new.p)

realloc(H, ptr, size) ==
    IF ptr = NULL THEN malloc(H, size)
    ELSE IF size = 0 THEN Result(free(H, ptr), NULL)
    ELSE IF BlockFor(size) <= BlkSize(H, ptr) THEN Result(Shrink(H, ptr, BlockFor(size)), ptr)
    ELSE Grow(H, ptr, BlockFor(size))

(***************************************************************************)
(* The blocks, and the free ones in the tree and on the lists.             *)
(***************************************************************************)
FirstBlock == 6 * WSIZE
Blocks(H) == BlocksFrom(H, FirstBlock, MaxBlocks)

RECURSIVE Tree(_, _, _)
Tree(H, bp, fuel) ==
    IF bp = HEAP_NIL \/ fuel = 0 THEN <<>>
    ELSE Tree(H, LEFT(H, bp), fuel - 1) \o ListFrom(H, bp, 12, MaxBlocks)
           \o Tree(H, RIGHT(H, bp), fuel - 1)

\* What checktree, checksmalllist and checkminilist visit.
checktree(H) == Tree(H, root(H), 6)
checksmalllist(H) == ListFrom(H, small_list_ptr(H), 4, MaxBlocks)
checkminilist(H) == ListFrom(H, mini_list_ptr(H), 0, MaxBlocks)

mm_checkheap(H) ==
    LET b == Blocks(H)
        end == IF b = <<>> THEN FirstBlock ELSE GET_NEXT(H, b[Len(b)])
    IN  /\ GET_SIZE(H, 4 * WSIZE) = DSIZE /\ GET_ALLOC(H, 4 * WSIZE) = 1
        /\ \A k \in DOMAIN b : b[k] % 8 = 0
        /\ BlkSize(H, end) = 0 /\ Used(H, end)
=============================================================================
