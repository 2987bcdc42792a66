----------------------------- MODULE Allocator -----------------------------
(***************************************************************************)
(* What every allocator of the lab promises the program that calls it,     *)
(* with nothing said of how: a request is given a payload that no other    *)
(* live payload touches, and nobody but its owner changes a live payload.  *)
(* The owner of block i fills it with the word Data(i).                    *)
(***************************************************************************)
EXTENDS Integers

CONSTANTS Ids,      \* the block numbers
          Address,  \* the addresses of words
          Sizes,    \* the sizes requested
          Words(_, _), \* the words of a payload: those of a first address and a size
          Data(_)   \* what the owner of a block fills it with

VARIABLES blocks,   \* each number's payload, of size 0 when it has none
          mem       \* the memory, by words

vars == <<blocks, mem>>

WordsOf(b) == Words(b.lo, b.size)

Live == {i \in Ids : blocks[i].size # 0}

Init ==
    /\ blocks \in [Ids -> [lo : {0}, size : {0}]]
    /\ DOMAIN mem = Address

\* The memory after a call: the live payloads of the others are as they were.
Kept(others) == \A j \in others : \A a \in WordsOf(blocks[j]) : mem'[a] = mem[a]

\* A block number is given a payload apart from the others', and fills it.
Give(i, lo, n) ==
    /\ blocks' = [blocks EXCEPT ![i] = [lo |-> lo, size |-> n]]
    /\ n # 0
    /\ LET new == Words(lo, n)
       IN  /\ new \subseteq Address
           /\ \A j \in Live \ {i} : WordsOf(blocks[j]) \cap new = {}
           /\ \A a \in new : mem'[a] = Data(i)
           /\ Kept(Live \ {i})

Free(i) ==
    /\ blocks' = [blocks EXCEPT ![i] = [lo |-> 0, size |-> 0]]
    /\ Kept(Live \ {i})

\* A request that is refused, or that asks for nothing.
Refuse == blocks' = blocks /\ Kept(Live)

Reset == blocks' = [i \in Ids |-> [lo |-> 0, size |-> 0]]

Next ==
    /\ DOMAIN mem' = Address
    /\ \/ \E i \in Ids, n \in Sizes, lo \in Address : Give(i, lo, n)
       \/ \E i \in Ids : Free(i)
       \/ Refuse
       \/ Reset

Spec == Init /\ [][Next]_vars

(***************************************************************************)
(* What follows for the program.                                           *)
(***************************************************************************)
\* Two live payloads have no word in common: what mdriver.c's add_range is there to find out.
Disjoint ==
    \A i, j \in Live : i # j => WordsOf(blocks[i]) \cap WordsOf(blocks[j]) = {}

\* Each live payload still holds what its owner wrote: mdriver.c's check_index.
Unspoilt == \A i \in Live : \A a \in WordsOf(blocks[i]) : mem[a] = Data(i)
=============================================================================
