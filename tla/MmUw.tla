-------------------------------- MODULE MmUw --------------------------------
(***************************************************************************)
(* mm-uw.c: one list of free blocks.  A block starts with an 8-byte        *)
(* header, its size, TAG_USED and TAG_PRECEDING_USED, and its links are at *)
(* b + 8 (next) and b + 16 (previous); a block in use keeps its footer, so *)
(* that freeing it need not write one.  The heap's first word is the       *)
(* list's head, and its last a header that says used.                      *)
(***************************************************************************)
EXTENDS Memlib, FiniteSets

WORD_SIZE == 8
MIN_BLOCK_SIZE == 32
TAG_USED == 1
TAG_PRECEDING_USED == 2

FREE_LIST_HEAD(H) == GET(H, 0)

\* The 8-byte header, and the footer that ends a block.
Size(H, b) == GET_SIZE(H, b)
SetWord(H, b, w) == Wr(Wr(H, b, w), b + 4, 0)
Used(H, b) == GET_ALLOC(H, b) = 1
PrecedingTag(H, b) == GET_PREV_ALLOC(H, b)

Next(H, b) == GET(H, b + WORD_SIZE)
Prev(H, b) == GET(H, b + 2 * WORD_SIZE)
FreeList(H) == ListFrom(H, FREE_LIST_HEAD(H), WORD_SIZE, MaxBlocks)

searchFreeList(H, reqSize) ==
    LET list == FreeList(H)
        fits == {k \in DOMAIN list : Size(H, list[k]) >= reqSize}
    IN  IF fits = {} THEN NULL ELSE list[CHOOSE k \in fits : \A l \in fits : k <= l]

\* The new first block's prev is left as it was.
insertFreeBlock(H, b) ==
    LET old == FREE_LIST_HEAD(H)
        H1  == PUT(H, b + WORD_SIZE, old)
    IN  PUT(IF old = NULL THEN H1 ELSE PUT(H1, old + 2 * WORD_SIZE, b), 0, b)

removeFreeBlock(H, b) ==
    LET next == Next(H, b)
        prev == Prev(H, b)
        H1   == IF next = NULL THEN H ELSE PUT(H, next + 2 * WORD_SIZE, prev)
    IN  IF b = FREE_LIST_HEAD(H) THEN PUT(H1, 0, next) ELSE PUT(H1, prev + WORD_SIZE, next)

\* The free blocks before the cursor leave the list, nearest first.
RECURSIVE Before(_, _, _)
Before(H, cursor, fuel) ==
    IF fuel = 0 \/ PrecedingTag(H, cursor) # 0 THEN Result(H, cursor)
    ELSE LET b == cursor - GET_SIZE(H, cursor - WORD_SIZE)
         IN  Before(removeFreeBlock(H, b), b, fuel - 1)

\* And those from the cursor on.
RECURSIVE After(_, _, _)
After(H, cursor, fuel) ==
    IF fuel = 0 \/ Used(H, cursor) THEN Result(H, cursor)
    ELSE After(removeFreeBlock(H, cursor), cursor + Size(H, cursor), fuel - 1)

coalesceFreeBlock(H, old) ==
    LET before == Before(H, old, MaxBlocks)
        after  == After(before.h, old + Size(H, old), MaxBlocks)
        size   == after.p - before.p
        H1 == removeFreeBlock(after.h, old)
        H2 == SetWord(SetWord(H1, before.p, size + TAG_PRECEDING_USED),
                      after.p - WORD_SIZE, size + TAG_PRECEDING_USED)
    IN  IF size = Size(H, old) THEN H ELSE insertFreeBlock(H2, before.p)

\* The heap grows by whole pages; the process exits when it cannot.
requestMoreSpace(H, reqSize) ==
    LET totalSize == ((reqSize + CHUNKSIZE - 1) \div CHUNKSIZE) * CHUNKSIZE
        b  == H.brk - WORD_SIZE
        w  == totalSize + PrecedingTag(H, b)
        H1 == SetWord(mem_sbrk(H, totalSize), b, w)
        H2 == SetWord(SetWord(H1, b + totalSize - WORD_SIZE, w), b + totalSize, TAG_USED)
    IN  IF ~CanGrow(H, totalSize) THEN H
        ELSE coalesceFreeBlock(insertFreeBlock(H2, b), b)

mm_init(H) ==
    LET first == WORD_SIZE
        total == MIN_BLOCK_SIZE
        H1 == SetWord(mem_sbrk(H, total + 2 * WORD_SIZE), first, total + TAG_PRECEDING_USED)
        H2 == PUT(PUT(H1, first + WORD_SIZE, NULL), first + 2 * WORD_SIZE, NULL)
        H3 == SetWord(H2, first + total - WORD_SIZE, total + TAG_PRECEDING_USED)
    IN  PUT(SetWord(H3, H3.brk - WORD_SIZE, TAG_USED), 0, first)

\* Room for the header, and for the footer that a block in use keeps.
BlockFor(size) == Larger(MIN_BLOCK_SIZE, ALIGN(size + WORD_SIZE)) + 8

Or(tag1, tag2) == Larger(tag1, tag2)

malloc(H, size) ==
    LET req   == BlockFor(size)
        found == searchFreeList(H, req)
        H1 == IF found = NULL THEN requestMoreSpace(H, req) ELSE H
        b  == searchFreeList(H1, req)
        tag  == IF found = NULL THEN TAG_PRECEDING_USED ELSE PrecedingTag(H, found)
        all  == Size(H1, b)
        rest == all - req
        next == b + all
        H2 == removeFreeBlock(H1, b)
        H3 == SetWord(SetWord(H2, b + req, rest + TAG_PRECEDING_USED), b + req - WORD_SIZE, req)
        split == insertFreeBlock(SetWord(SetWord(H3, b, req + tag + TAG_USED),
                                         next - WORD_SIZE, rest), b + req)
        H4 == SetWord(H2, next - WORD_SIZE, all)
        H5 == Wr(H4, next, Rd(H4, next) - PrecedingTag(H4, next) + TAG_PRECEDING_USED)
        whole == Wr(H5, b, all + Or(PrecedingTag(H5, b), tag) + TAG_USED)
    IN  IF size = 0 THEN Result(H, NULL)
        ELSE IF b = NULL THEN Result(H1, NULL)
        ELSE Result(IF rest > MIN_BLOCK_SIZE THEN split ELSE whole, b + WORD_SIZE)

\* The tag cleared last is that of the block after the one freed, as its header now gives it.
free(H, ptr) ==
    LET b  == ptr - WORD_SIZE
        H1 == Wr(H, b, Rd(H, b) - TAG_USED)
        H2 == coalesceFreeBlock(insertFreeBlock(H1, b), b)
        following == b + Size(H2, b)
    IN  IF ptr = NULL \/ ~Used(H, b) THEN H
        ELSE Wr(H2, following, Rd(H2, following) - PrecedingTag(H2, following))

realloc(H, ptr, size) ==
    LET new == malloc(H, size)
    IN  IF size = 0 THEN Result(free(H, ptr), NULL)
        ELSE IF ptr = NULL THEN malloc(H, size)
        ELSE IF new.p = NULL THEN new
        ELSE Result(free(Copy(new.h, new.p, ptr, Smaller(size, Size(new.h, ptr - WORD_SIZE))), ptr),
                    new.p)

\* The blocks of the heap in address order, up to the last word.
RECURSIVE ExamineFrom(_, _, _)
ExamineFrom(H, b, fuel) ==
    IF fuel = 0 \/ Size(H, b) <= 0 THEN <<>>
    ELSE <<b>> \o ExamineFrom(H, b + Size(H, b), fuel - 1)

examine_heap(H) == ExamineFrom(H, WORD_SIZE, MaxBlocks)
=============================================================================
