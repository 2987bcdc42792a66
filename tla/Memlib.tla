------------------------------- MODULE Memlib -------------------------------
(***************************************************************************)
(* The simulated heap of memlib.c, and the reads and writes of memory that *)
(* every allocator of the lab is written with.                             *)
(*                                                                         *)
(* A heap is a record: mem, the 4-byte words at the addresses divisible by *)
(* four; brk, the break; glob, the allocator's own global words (the heads *)
(* of its free lists, a tree's root, a rover), which the code keeps in the *)
(* heap's first bytes or in static variables; fault, whether the program   *)
(* has touched address 0.  Addresses count from the first byte after those *)
(* globals.  A word is an integer: a header or a footer is its size plus   *)
(* its flag bits, and a client's data are negative, so that neither can be *)
(* taken for the other.                                                    *)
(***************************************************************************)
EXTENDS Integers, Sequences

CONSTANTS MaxHeap,    \* MAX_HEAP, in bytes
          CHUNKSIZE   \* what an allocator asks for when it grows the heap

NULL == 0

\* The heap is mapped at 0x800000000: the upper half of each pointer into it.
HeapHigh == 8

WSIZE == 4
DSIZE == 8

Word == {4 * i : i \in 0..(MaxHeap \div 4 - 1)}

ALIGN(n) == ((n + 7) \div 8) * 8

\* The larger of the two, which the allocators write with ?:.
Larger(a, b) == IF a > b THEN a ELSE b
Smaller(a, b) == IF a < b THEN a ELSE b

mem_init == [mem   |-> [a \in Word |-> 0], brk |-> 0,
             glob  |-> [i \in 1..14 |-> NULL], fault |-> FALSE]

mem_reset_brk(H) == [H EXCEPT !.brk = 0]

CanGrow(H, n) == n >= 0 /\ H.brk + n <= MaxHeap

mem_sbrk(H, n) == IF CanGrow(H, n) THEN [H EXCEPT !.brk = @ + n] ELSE H

InHeap(H, p) == p >= 0 /\ p < H.brk

(***************************************************************************)
(* Words.  Nothing lies outside the mapped memory: a read there gives a    *)
(* zero word and a write is lost.                                          *)
(***************************************************************************)
Rd(H, a) == IF a \in DOMAIN H.mem THEN H.mem[a] ELSE 0

Wr(H, a, w) == IF a \in DOMAIN H.mem THEN [H EXCEPT !.mem[a] = w] ELSE H

\* An 8-byte pointer takes two words.
GET(H, a) == Rd(H, a)

PUT(H, a, p) == Wr(Wr(H, a, p), a + 4, IF p = NULL THEN 0 ELSE HeapHigh)

\* memset of n bytes.
Fill(H, p, n, w) ==
    IF p = NULL THEN [H EXCEPT !.fault = @ \/ n > 0]
    ELSE [H EXCEPT !.mem = [a \in Word |->
                              IF a \in p..(p + n - 1) THEN w ELSE @[a]]]

\* memcpy and memmove of n bytes.
Copy(H, to, from, n) ==
    IF to = NULL THEN [H EXCEPT !.fault = @ \/ n > 0]
    ELSE [H EXCEPT !.mem = [a \in Word |-> IF a \in to..(to + n - 1)
                                           THEN Rd(H, from + (a - to))
                                           ELSE @[a]]]

(***************************************************************************)
(* Headers and footers: a size that is a multiple of eight, and three flag *)
(* bits.                                                                   *)
(***************************************************************************)
PACK(size, bits) == size + bits

SizeOf(w) == w - (w % 8)
GET_SIZE(H, a) == SizeOf(Rd(H, a))
GET_ALLOC(H, a) == Rd(H, a) % 2

\* The bit the boundary-tag-free designs keep about the block before.
GET_PREV_ALLOC(H, a) == (Rd(H, a) % 4) - (Rd(H, a) % 2)

HDRP(bp) == bp - WSIZE
FTRP(H, bp) == bp + GET_SIZE(H, HDRP(bp)) - DSIZE
NEXT_BLKP(H, bp) == bp + GET_SIZE(H, HDRP(bp))
PREV_BLKP(H, bp) == bp - GET_SIZE(H, bp - DSIZE)

\* What an allocator's function leaves behind, and what it returns.
Result(H, p) == [h |-> H, p |-> p]

(***************************************************************************)
(* The blocks between the prologue and the epilogue, in address order, and *)
(* the blocks on a list, from its first: both walks stop after a number of *)
(* blocks that no heap of this size can hold.                              *)
(***************************************************************************)
\* The addresses from bp on, each the next of the one before it, up to a NULL.
Follow(next, bp, fuel) ==
    LET walk[n \in 0..fuel] ==
          [b \in Int |-> IF n = 0 \/ b = NULL THEN <<>>
                         ELSE <<b>> \o walk[n - 1][next[b]]]
    IN  walk[fuel][bp]

\* A block of size 0 ends the heap.
BlockAt(H, bp) == IF GET_SIZE(H, HDRP(bp)) <= 0 THEN NULL ELSE bp

BlocksFrom(H, bp, fuel) ==
    Follow([b \in Int |-> BlockAt(H, NEXT_BLKP(H, b))], BlockAt(H, bp), fuel)

ListFrom(H, bp, link, fuel) == Follow([b \in Int |-> GET(H, b + link)], bp, fuel)

MaxBlocks == MaxHeap \div 8 + 1
=============================================================================
