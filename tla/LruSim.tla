------------------------------- MODULE LruSim -------------------------------
(***************************************************************************)
(* What a set-associative cache with least-recently-used replacement does  *)
(* with an access, and what is counted: the meaning of the numbers that    *)
(* csim.c prints.  A set is the sequence of the blocks it holds, the one   *)
(* used last at the end.                                                   *)
(***************************************************************************)
EXTENDS Integers, Sequences, SequencesExt

CONSTANTS Addresses   \* the addresses of a trace

VARIABLES geometry,   \* the number of sets, of blocks in each, and of bytes in each
          held,       \* the blocks in each set
          hits, misses, evictions

vars == <<geometry, held, hits, misses, evictions>>

BlockOf(addr) == addr \div geometry.B

SetOf(addr) == BlockOf(addr) % geometry.S

Without(q, x) == RemoveAt(q, CHOOSE n \in DOMAIN q : q[n] = x)

Init ==
    /\ held = [i \in 0..(geometry.S - 1) |-> <<>>]
    /\ hits = 0 /\ misses = 0 /\ evictions = 0

\* One access; again counts a second one to the same block, a hit.
Access(addr, again) ==
    LET x == BlockOf(addr)
        q == held[SetOf(addr)]
        hit == \E k \in DOMAIN q : q[k] = x
        full == Len(q) = geometry.E
    IN  /\ held' = [held EXCEPT ![SetOf(addr)] =
                      IF hit THEN Append(Without(q, x), x)
                      ELSE IF full THEN Append(Tail(q), x) ELSE Append(q, x)]
        /\ hits' = hits + (IF hit THEN 1 ELSE 0) + (IF again THEN 1 ELSE 0)
        /\ misses' = misses + (IF hit THEN 0 ELSE 1)
        /\ evictions' = evictions + (IF full /\ ~hit THEN 1 ELSE 0)
        /\ UNCHANGED geometry

Next == \E addr \in Addresses, again \in BOOLEAN : Access(addr, again)

Spec == Init /\ [][Next]_vars
=============================================================================
