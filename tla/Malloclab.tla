----------------------------- MODULE Malloclab -----------------------------
(***************************************************************************)
(* The driver linked with each of the allocators: mm.c, the seven kept     *)
(* beside it, and mm-naive.c; what the heap of each looks like; and what   *)
(* must be true of it.  The driver's constants are given the definitions   *)
(* below (each a LET, which TLC does not unfold when it counts what the    *)
(* actions cost).                                                          *)
(***************************************************************************)
EXTENDS MmDriven, SequencesExt

segregated  == INSTANCE MmSegregated
segregated2 == INSTANCE MmSegregated2
explicit    == INSTANCE MmExplicit
book        == INSTANCE MmBook
uw          == INSTANCE MmUw
binarytree  == INSTANCE MmBinaryTree
naive       == INSTANCE MmNaive
my          == INSTANCE MmMy

\* mm-naive.c keeps nothing between requests, mm-book.c no list, and the lists of
\* mm-segregated.c are those of mm.c.
MCNumOps ==
    [pkg \in Packages |-> CASE pkg = "naive" -> 4
                            [] pkg \in {"book", "segregated"} -> 5
                            [] OTHER -> 6]

MCinit(pkg, H) ==
    LET linked ==
          CASE pkg = "mm"          -> mm_init(H).h
            [] pkg = "segregated"  -> segregated!mm_init(H).h
            [] pkg = "segregated2" -> segregated2!mm_init(H)
            [] pkg = "explicit"    -> explicit!mm_init(H).h
            [] pkg = "book"        -> book!mm_init(H).h
            [] pkg = "uw"          -> uw!mm_init(H)
            [] pkg = "binarytree"  -> binarytree!mm_init(H)
            [] pkg = "naive"       -> naive!mm_init(H)
            [] pkg = "my"          -> my!mm_init(H)
    IN  linked

MCmalloc(pkg, H, n) ==
    LET linked ==
          CASE pkg = "mm"          -> malloc(H, n)
            [] pkg = "segregated"  -> segregated!malloc(H, n)
            [] pkg = "segregated2" -> segregated2!malloc(H, n)
            [] pkg = "explicit"    -> explicit!malloc(H, n)
            [] pkg = "book"        -> book!malloc(H, n)
            [] pkg = "uw"          -> uw!malloc(H, n)
            [] pkg = "binarytree"  -> binarytree!malloc(H, n)
            [] pkg = "naive"       -> naive!malloc(H, n)
            [] pkg = "my"          -> my!malloc(H, n)
    IN  linked

\* The packages without a calloc leave the C library's.
MCHasCalloc == {"mm", "segregated", "segregated2", "naive", "my"}

MCcalloc(pkg, H, nmemb, n) ==
    LET linked ==
          CASE pkg = "mm"          -> calloc(H, nmemb, n)
            [] pkg = "segregated"  -> segregated!calloc(H, nmemb, n)
            [] pkg = "segregated2" -> segregated2!calloc(H, nmemb, n)
            [] pkg = "naive"       -> naive!calloc(H, nmemb, n)
            [] pkg = "my"          -> my!calloc(H, nmemb, n)
    IN  linked

MCfree(pkg, H, p) ==
    LET linked ==
          CASE pkg = "mm"          -> free(H, p)
            [] pkg = "segregated"  -> segregated!free(H, p)
            [] pkg = "segregated2" -> segregated2!free(H, p)
            [] pkg = "explicit"    -> explicit!free(H, p)
            [] pkg = "book"        -> book!free(H, p)
            [] pkg = "uw"          -> uw!free(H, p)
            [] pkg = "binarytree"  -> binarytree!free(H, p)
            [] pkg = "naive"       -> naive!free(H, p)
            [] pkg = "my"          -> my!free(H, p)
    IN  linked

MCrealloc(pkg, H, p, n) ==
    LET linked ==
          CASE pkg = "mm"          -> realloc(H, p, n)
            [] pkg = "segregated"  -> segregated!realloc(H, p, n)
            [] pkg = "segregated2" -> segregated2!realloc(H, p, n)
            [] pkg = "explicit"    -> explicit!realloc(H, p, n)
            [] pkg = "book"        -> book!realloc(H, p, n)
            [] pkg = "uw"          -> uw!realloc(H, p, n)
            [] pkg = "binarytree"  -> binarytree!realloc(H, p, n)
            [] pkg = "naive"       -> naive!realloc(H, p, n)
            [] pkg = "my"          -> my!realloc(H, p, n)
    IN  linked

(***************************************************************************)
(* Every block of the heap, in address order, by its payload's address;    *)
(* those of them that are free; and those the allocator finds again, in    *)
(* the order of its lists.                                                 *)
(***************************************************************************)
Set(s) == {s[k] : k \in DOMAIN s}
Shift(s, d) == [k \in DOMAIN s |-> s[k] + d]

AllBlocks(H) ==
    CASE impl \in {"mm", "segregated"} -> Blocks(H)
      [] impl = "segregated2" -> segregated2!Blocks(H)
      [] impl = "explicit"    -> explicit!Blocks(H)
      [] impl = "book"        -> SelectSeq(book!Blocks(H), LAMBDA bp : bp # book!heap_listp)
      [] impl = "uw"          -> Shift(uw!examine_heap(H), uw!WORD_SIZE)
      [] impl = "binarytree"  -> binarytree!Blocks(H)
      [] impl = "naive"       -> <<>>
      [] impl = "my"          -> Shift(my!Blocks(H), my!BLK_HDR_SIZE)

FreeLists(H) ==
    CASE impl \in {"mm", "segregated"} -> FoldLeft(LAMBDA l, i : l \o FreeList(H, i), <<>>, [i \in 1..14 |-> i])
      [] impl = "segregated2" -> FoldLeft(LAMBDA l, i : l \o segregated2!FreeList(H, i), <<>>, [i \in 1..6 |-> i])
      [] impl = "explicit"    -> explicit!FreeList(H)
      [] impl = "book"        -> SelectSeq(AllBlocks(H), LAMBDA bp : GET_ALLOC(H, HDRP(bp)) = 0)
      [] impl = "uw"          -> Shift(uw!FreeList(H), uw!WORD_SIZE)
      [] impl = "binarytree"  -> binarytree!checktree(H) \o binarytree!checksmalllist(H)
                                   \o binarytree!checkminilist(H)
      [] impl = "naive"       -> <<>>
      [] impl = "my"          -> Shift(my!FreeList(H), my!BLK_HDR_SIZE)

\* A block of the heap is in use by the program or can be found again, and not
\* both: nothing is leaked and nothing is on a list twice (mm.c 223, 366, and
\* coalesce, split and free of the other versions).  mm-naive.c frees nothing, and mm-my.c
\* leaves a block of no bytes behind whenever a block is resized to zero.
Accounted ==
    LET l == FreeLists(heap)
        used == {blocks[i].lo : i \in Live}
    IN  impl \notin {"naive", "my"} =>
          /\ \A j, k \in DOMAIN l : j # k => l[j] # l[k]
          /\ Set(l) \cap used = {}
          /\ Set(AllBlocks(heap)) = Set(l) \cup used
=============================================================================
