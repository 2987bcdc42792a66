--------------------------- MODULE MmSegregated2 ---------------------------
(***************************************************************************)
(* mm-segregated2.c: six lists of free blocks by payload size, with a      *)
(* header and a footer on each block, and the links of a free block 4-byte *)
(* offsets into the heap: the next one at ptr, the previous one at         *)
(* ptr + 4.  The heap grows by the block asked for and no more.            *)
(***************************************************************************)
EXTENDS Memlib, FiniteSets

numlists == 6

HEADER(p) == p - 4
FOOTER(H, p) == p + GET_SIZE(H, HEADER(p)) - 8
NEXT(H, p) == Rd(H, p)
PREV(H, p) == Rd(H, p + 4)

\* The most significant bit of the size decides: 6 and 7, 8 and 9, ...
index_of(size) == Cardinality({m \in {64, 256, 1024, 4096, 16384} : size >= m})

\* Header and footer, the footer placed by the size in the header.
Set(H, p, w) == Wr(Wr(H, HEADER(p), w), p + SizeOf(w) - 8, w)

IndexOf(H, p) == index_of(GET_SIZE(H, HEADER(p)) - 8) + 1

mm_init(H) ==
    LET start == mem_sbrk([mem_reset_brk(H) EXCEPT !.glob = [i \in 1..14 |-> NULL]], 8)
    IN  Wr(Wr(start, 0, 1), 4, 1)

\* ptr's neighbours on its list are given; its own links are not looked at.
delink(H, ptr, next, prev) ==
    IF next # NULL /\ prev # NULL THEN Wr(Wr(H, prev, next), next + 4, prev)
    ELSE IF next # NULL THEN [Wr(H, next + 4, 0) EXCEPT !.glob[IndexOf(H, ptr)] = next]
    ELSE IF prev # NULL THEN Wr(H, prev, 0)
    ELSE [H EXCEPT !.glob[IndexOf(H, ptr)] = NULL]

place_block(H, ptr) ==
    LET i    == IndexOf(H, ptr)
        head == H.glob[i]
        H1   == IF head = NULL THEN H ELSE Wr(H, head + 4, ptr)
    IN  [Wr(Wr(H1, ptr, head), ptr + 4, 0) EXCEPT !.glob[i] = ptr]

split(H, size, ptr) ==
    LET newsize == size + 8
        rest    == ptr + newsize
        H1 == delink(H, ptr, NEXT(H, ptr), PREV(H, ptr))
        H2 == Set(H1, rest, GET_SIZE(H, HEADER(ptr)) - newsize)
    IN  place_block(Set(H2, ptr, newsize + 1), rest)

\* The first block of a list that is large enough, taken; or NULL.
traverse_list(H, size, index) ==
    LET newsize == size + 8
        list == ListFrom(H, H.glob[index + 1], 0, MaxBlocks)
        fits == {k \in DOMAIN list : GET_SIZE(H, HEADER(list[k])) >= newsize}
        ptr  == list[CHOOSE k \in fits : \A l \in fits : k <= l]
        blocksize == GET_SIZE(H, HEADER(ptr))
        H1   == Set(H, ptr, blocksize + 1)
        H2   == delink(H1, ptr, NEXT(H1, ptr), PREV(H1, ptr))
    IN  IF fits = {} THEN Result(H, NULL)
        ELSE IF blocksize - newsize - 16 < 0
        THEN Result(Wr(Wr(H2, ptr, 0), ptr + 4, 0), ptr)
        ELSE Result(split(H, size, ptr), ptr)

\* The list of the size's class, then those above it.
fit_block(H, size) ==
    LET alignsize == ALIGN(size)
        found == {i \in index_of(alignsize)..(numlists - 1) :
                    traverse_list(H, alignsize, i).p # NULL}
    IN  IF found = {} THEN Result(H, NULL)
        ELSE traverse_list(H, alignsize, CHOOSE i \in found : \A j \in found : i <= j)

(***************************************************************************)
(* The new block's header takes the place of the epilogue.  Whether        *)
(* mem_sbrk failed is asked after the header has been written, 5 bytes     *)
(* before address 0.                                                       *)
(***************************************************************************)
malloc(H, size) ==
    LET found     == fit_block(H, size)
        blocksize == ALIGN(size) + 8
        H1 == mem_sbrk(Wr(H, H.brk - 4, 0), blocksize)
        H2 == Wr(H1, H1.brk - 4, 1)
    IN  IF found.p # NULL THEN found
        ELSE IF CanGrow(H, blocksize) THEN Result(Set(H2, H.brk, blocksize + 1), H.brk)
        ELSE Result([H2 EXCEPT !.fault = TRUE], NULL)

coalesce(H, ptr) ==
    LET size     == GET_SIZE(H, HEADER(ptr))
        prevFree == GET_ALLOC(H, ptr - 8) = 0
        nextFree == GET_ALLOC(H, FOOTER(H, ptr) + 4) = 0
        prev  == ptr - GET_SIZE(H, ptr - 8)
        next  == ptr + size
        first == IF prevFree THEN prev ELSE ptr
        newsize == size + (IF prevFree THEN GET_SIZE(H, ptr - 8) ELSE 0)
                        + (IF nextFree THEN GET_SIZE(H, next - 4) ELSE 0)
        \* Both neighbours free and next to each other on one list: they leave together.
        H1 == IF ~nextFree THEN delink(H, prev, NEXT(H, prev), PREV(H, prev))
              ELSE IF ~prevFree THEN delink(H, next, NEXT(H, next), PREV(H, next))
              ELSE IF next = NEXT(H, prev) THEN delink(H, next, NEXT(H, next), PREV(H, prev))
              ELSE IF prev = NEXT(H, next) THEN delink(H, prev, NEXT(H, prev), PREV(H, next))
              ELSE delink(delink(H, next, NEXT(H, next), PREV(H, next)),
                          prev, NEXT(H, prev), PREV(H, prev))
    IN  IF ~prevFree /\ ~nextFree THEN Result(H, ptr)
        ELSE Result(Set(H1, first, newsize), first)

\* Pointers outside the heap are ignored.
free(H, ptr) ==
    LET r == coalesce(Set(H, ptr, GET_SIZE(H, HEADER(ptr))), ptr)
    IN  IF ptr = NULL \/ ~InHeap(H, ptr) THEN H ELSE place_block(r.h, r.p)

\* A fault: the old block is copied whole into a smaller one.
realloc_CopiesAll(H, old, size) ==
    LET new == malloc(H, size)
    IN  IF size = 0 THEN Result(free(H, old), NULL)
        ELSE IF old = NULL THEN malloc(H, size)
        ELSE IF new.p = NULL THEN new
        ELSE Result(free(Copy(new.h, new.p, old, Rd(new.h, HEADER(old))), old), new.p)

\* The old size is the header, its allocation bit included.
realloc(H, old, size) ==
    LET new == malloc(H, size)
    IN  IF size = 0 THEN Result(free(H, old), NULL)
        ELSE IF old = NULL THEN malloc(H, size)
        ELSE IF new.p = NULL THEN new
        ELSE Result(free(Copy(new.h, new.p, old, Smaller(size, Rd(new.h, HEADER(old)))), old),
                    new.p)

calloc(H, nmemb, size) ==
    LET new == malloc(H, nmemb * size)
    IN  Result(Fill(new.h, new.p, nmemb * size, 0), new.p)

(***************************************************************************)
(* mm_checkheap: the prologue and the epilogue, each list, each block.     *)
(***************************************************************************)
FirstBlock == 8
Blocks(H) == BlocksFrom(H, FirstBlock, MaxBlocks)
FreeList(H, i) == ListFrom(H, H.glob[i], 0, MaxBlocks)
BlockSet(H) == {Blocks(H)[k] : k \in DOMAIN Blocks(H)}

OnList(H, i, p) ==
    /\ InHeap(H, p) /\ p % 8 = 0
    /\ IndexOf(H, p) = i
    /\ GET_ALLOC(H, HEADER(p)) = 0 /\ GET_ALLOC(H, FOOTER(H, p)) = 0
    /\ NEXT(H, p) # NULL => PREV(H, NEXT(H, p)) = p

mm_checkheap(H) ==
    /\ Rd(H, 0) = 1 /\ Rd(H, H.brk - 4) = 1
    /\ \A i \in 1..numlists : \A k \in DOMAIN FreeList(H, i) : OnList(H, i, FreeList(H, i)[k])
    /\ \A p \in BlockSet(H) \cup {FirstBlock} :
         /\ InHeap(H, p) /\ FOOTER(H, p) < H.brk /\ p % 8 = 0
         /\ GET_SIZE(H, HEADER(p)) = GET_SIZE(H, FOOTER(H, p))
         /\ GET_SIZE(H, HEADER(p)) >= 16
=============================================================================
