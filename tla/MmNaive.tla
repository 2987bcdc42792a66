------------------------------ MODULE MmNaive ------------------------------
(***************************************************************************)
(* mm-naive.c: a block is never used twice.                                *)
(***************************************************************************)
EXTENDS Memlib

SIZE_T_SIZE == 8

mm_init(H) == H

\* The request's size is kept in the eight bytes before the payload.
malloc(H, size) ==
    LET newsize == ALIGN(size + SIZE_T_SIZE)
        H1 == mem_sbrk(H, newsize)
    IN  IF ~CanGrow(H, newsize) THEN Result(H, NULL)
        ELSE Result(Wr(Wr(H1, H.brk, size), H.brk + 4, 0), H.brk + SIZE_T_SIZE)

free(H, ptr) == H

realloc(H, old, size) ==
    LET new == malloc(H, size)
    IN  IF size = 0 THEN Result(free(H, old), NULL)
        ELSE IF old = NULL \/ new.p = NULL THEN new
        ELSE Result(free(Copy(new.h, new.p, old, Smaller(size, Rd(new.h, old - SIZE_T_SIZE))), old),
                    new.p)

calloc(H, nmemb, size) ==
    LET new == malloc(H, nmemb * size)
    IN  Result(Fill(new.h, new.p, nmemb * size, 0), new.p)
=============================================================================
