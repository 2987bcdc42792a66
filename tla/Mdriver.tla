------------------------------ MODULE Mdriver ------------------------------
(***************************************************************************)
(* mdriver.c: the driver of the allocator lab, linked with one of the      *)
(* allocators, interpreting one request of a trace per step.  A trace is   *)
(* any sequence of requests over a few block numbers and sizes that        *)
(* allocates a number before it frees it.                                  *)
(***************************************************************************)
EXTENDS Memlib, FiniteSets

CONSTANTS Packages,   \* the allocators the driver may be linked with
          PkgInit(_, _), PkgMalloc(_, _, _), PkgCalloc(_, _, _, _), PkgFree(_, _, _),
          PkgRealloc(_, _, _, _),   \* what a package makes of a heap: see Malloclab
          HasCalloc,  \* those that define a calloc
          NumIds,     \* trace->num_ids
          Sizes,      \* the sizes requested, multiples of four
          NumOps      \* package -> the bound on trace->num_ops

ASSUME DriverAssumption ==
    /\ NumIds \in Nat
    /\ \A n \in Sizes : n \in Nat /\ n > 0 /\ n % WSIZE = 0

VARIABLES impl,       \* the allocator the driver is linked with
          heap,       \* the simulated heap
          blocks,     \* trace->blocks and block_sizes, and the range list
          total, hwm, \* the bytes in live blocks, and the most there have been
          ops,        \* the requests interpreted so far
          status      \* what the driver has found

vars == <<impl, heap, blocks, total, hwm, ops, status>>

Ids == 1..NumIds
NoBlock == [lo |-> NULL, size |-> 0]
Live == {i \in Ids : blocks[i].size > 0}

\* What block i is filled with: neither a header, a footer nor a pointer.
Data(i) == -i
WordsOf(b) == {a \in Word : a \in b.lo..(b.lo + b.size - 1)}

randomize_block(H, i, b) == Fill(H, b.lo, b.size, Data(i))

check_index(H, i, b) == \A a \in WordsOf(b) : Rd(H, a) = Data(i)

\* The new range is compared with the others by its two ends only.
add_range(H, lo, size, others) ==
    LET hi == lo + size - 1
    IN  IF lo % 8 # 0 THEN "not aligned"
        ELSE IF ~InHeap(H, lo) \/ ~InHeap(H, hi) THEN "outside heap"
        ELSE IF \E j \in others :
                  LET p == blocks[j]
                  IN  \/ lo \in p.lo..(p.lo + p.size - 1)
                      \/ hi \in p.lo..(p.lo + p.size - 1)
             THEN "overlaps"
        ELSE "valid"

\* eval_mm_util's account of one request.
Account(newsize, oldsize) ==
    /\ total' = total + newsize - oldsize
    /\ hwm' = Larger(hwm, total')

(***************************************************************************)
(* A trace is evaluated three times: in a new mapping, and then twice in   *)
(* the memory the last evaluation left, here full of another block's data. *)
(***************************************************************************)
Memories == {mem_init, Fill(mem_init, WSIZE, MaxHeap, -(NumIds + 1))}

FreshHeaps == [pkg \in Packages |-> {PkgInit(pkg, mem_reset_brk(M)) : M \in Memories}]

\* A number is used again as soon as it is free, the least first.
Unused(i) == i \notin Live /\ \A j \in 1..(i - 1) : j \in Live

Init ==
    /\ impl \in Packages
    /\ heap \in FreshHeaps[impl]
    /\ status = "valid"
    /\ blocks = [i \in Ids |-> NoBlock]
    /\ total = 0 /\ hwm = 0 /\ ops = 0

Request ==
    /\ status = "valid" /\ ops < NumOps[impl]
    /\ ops' = ops + 1
    /\ UNCHANGED impl

\* The call touched address 0: the process is killed, and nothing is left of it.
Killed ==
    /\ status' = "killed"
    /\ UNCHANGED <<heap, blocks, total, hwm>>

\* The request is refused, and the evaluation given up.
Failed(H, why) ==
    /\ heap' = H /\ status' = why
    /\ UNCHANGED <<blocks, total, hwm>>

Alloc(i, n) ==
    /\ Request /\ Unused(i)
    /\ LET r == PkgMalloc(impl, heap, n)
           b == [lo |-> r.p, size |-> n]
       IN  \/ r.h.fault /\ Killed
           \/ ~r.h.fault /\ r.p = NULL /\ Failed(r.h, "mm_malloc failed")
           \/ /\ ~r.h.fault /\ r.p # NULL
              /\ status' = add_range(r.h, r.p, n, Live)
              /\ heap' = randomize_block(r.h, i, b)
              /\ blocks' = [blocks EXCEPT ![i] = b]
              /\ Account(n, 0)

\* The driver has no such request: a program linked with the package makes it, for
\* words, and looks for a word that is not zero.
Calloc(i, nmemb) ==
    /\ Request /\ Unused(i) /\ impl \in HasCalloc
    /\ LET n == nmemb * WSIZE
           r == PkgCalloc(impl, heap, nmemb, WSIZE)
           b == [lo |-> r.p, size |-> n]
       IN  \/ r.h.fault /\ Killed
           \/ ~r.h.fault /\ r.p = NULL /\ Failed(r.h, "calloc failed")
           \/ /\ ~r.h.fault /\ r.p # NULL
              /\ status' = IF \E a \in WordsOf(b) : Rd(r.h, a) # 0 THEN "not zeroed"
                           ELSE add_range(r.h, r.p, n, Live)
              /\ heap' = randomize_block(r.h, i, b)
              /\ blocks' = [blocks EXCEPT ![i] = b]
              /\ Account(n, 0)

\* The old data are looked at before the call, and what is left of them after it.
Realloc(i, n) ==
    /\ Request /\ (i \in Live \/ Unused(i))
    /\ LET old  == blocks[i]
           r    == PkgRealloc(impl, heap, old.lo, n)
           b    == [lo |-> r.p, size |-> n]
           kept == [lo |-> r.p, size |-> Smaller(n, old.size)]
       IN  \/ r.h.fault /\ Killed
           \/ ~r.h.fault /\ r.p = NULL /\ n # 0 /\ Failed(r.h, "mm_realloc failed")
           \/ ~r.h.fault /\ r.p # NULL /\ n = 0
                /\ Failed(r.h, "mm_realloc with size 0 returned non-NULL")
           \/ /\ ~r.h.fault /\ (r.p = NULL <=> n = 0)
              /\ status' = IF ~check_index(heap, i, old) \/ ~check_index(r.h, i, kept)
                           THEN "garbled"
                           ELSE IF n = 0 THEN "valid"
                           ELSE add_range(r.h, r.p, n, Live \ {i})
              /\ heap' = IF n = 0 THEN r.h ELSE randomize_block(r.h, i, b)
              /\ blocks' = [blocks EXCEPT ![i] = IF n = 0 THEN NoBlock ELSE b]
              /\ Account(n, old.size)

\* A request to free number -1 frees a null pointer.
Free(i) ==
    /\ Request /\ i \in Live
    /\ status' = IF check_index(heap, i, blocks[i]) THEN "valid" ELSE "garbled"
    /\ heap' = PkgFree(impl, heap, blocks[i].lo)
    /\ blocks' = [blocks EXCEPT ![i] = NoBlock]
    /\ Account(0, blocks[i].size)

FreeNull ==
    /\ Request
    /\ LET H == PkgFree(impl, heap, NULL)
       IN  \/ H.fault /\ Killed
           \/ ~H.fault /\ heap' = H /\ UNCHANGED <<blocks, total, hwm, status>>

\* The trace ends, or its evaluation is given up: the next evaluation starts.
NextEval ==
    /\ status # "killed"
    /\ heap' \in FreshHeaps[impl]
    /\ status' = "valid"
    /\ blocks' = [i \in Ids |-> NoBlock]
    /\ total' = 0 /\ hwm' = 0 /\ ops' = 0
    /\ UNCHANGED impl

Next ==
    \/ \E i \in Ids, n \in Sizes : Alloc(i, n)
    \/ \E i \in Ids, n \in Sizes : Calloc(i, n \div WSIZE)
    \/ \E i \in Ids, n \in Sizes \cup {0} : Realloc(i, n)
    \/ \E i \in Ids : Free(i)
    \/ FreeNull
    \/ NextEval

Spec == Init /\ [][Next]_vars

(***************************************************************************)
(* Properties.                                                             *)
(***************************************************************************)

\* eval_mm_valid's own tests pass: no payload is misaligned, outside the heap,
\* on another one or garbled, whatever the requests before (mdriver.c 560, 682),
\* and calloc's is zero; and eval_mm_util's ratio is at most one: the live bytes have
\* never exceeded the heap (mdriver.c 1066).  mm-my.c gives a block to a request for
\* no bytes, which the driver refuses; mm-segregated.c zeroes one byte of each element.
Accepted ==
    /\ \/ status \in {"valid", "killed", "mm_malloc failed", "mm_realloc failed", "calloc failed"}
       \/ status = "mm_realloc with size 0 returned non-NULL" /\ impl = "my"
       \/ status = "not zeroed" /\ impl = "segregated"
    /\ hwm <= heap.brk

\* No call touches address 0, a call that finds the heap full included (mm.c 427,
\* 460), but a calloc, which zeroes what malloc returned unseen, mm-my.c's, which
\* frees null pointers, and those of mm-segregated.c and mm-segregated2.c, which
\* look at what they were given only after they have used it.
NoFault ==
    [][status' = "killed" => \/ impl \in {"my", "segregated", "segregated2"}
                             \/ \E i \in Ids, n \in Sizes : Calloc(i, n \div WSIZE)]_vars

\* The driver with any of the allocators does what Allocator says.
Promise == INSTANCE Allocator WITH
             Address <- Word, Words <- LAMBDA lo, n : {a \in Word : a \in lo..(lo + n - 1)},
             mem <- heap.mem
Promised == Promise!Spec
=============================================================================
