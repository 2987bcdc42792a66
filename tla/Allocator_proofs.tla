-------------------------- MODULE Allocator_proofs --------------------------
(***************************************************************************)
(* What an allocator promises is enough for the program: its payloads stay *)
(* apart and keep what was written to them, for any sets of block numbers, *)
(* sizes and addresses.                                                    *)
(***************************************************************************)
EXTENDS Allocator, TLAPS

\* The invariant: payloads lie in the memory, apart, with their owners' data.
Inv ==
    /\ blocks = [i \in Ids |-> blocks[i]]
    /\ Disjoint
    /\ Unspoilt

\* Before the first request no payload is live.
LEMMA InitInv == Init => Inv
<1>1. SUFFICES ASSUME Init PROVE Inv
  OBVIOUS
<1>2. Live = {}
  BY <1>1 DEF Init, Live
<1>3. blocks = [i \in Ids |-> blocks[i]]
  BY <1>1 DEF Init
<1> QED
  BY <1>2, <1>3 DEF Inv, Disjoint, Unspoilt

\* A payload given to i, apart from the others', keeps the payloads apart and their data.
LEMMA GiveInv ==
    ASSUME Inv, NEW i \in Ids, NEW n \in Sizes, NEW lo \in Address, Give(i, lo, n)
    PROVE  Inv'
<1> DEFINE new == Words(lo, n)
<1>1. /\ \A j \in Ids \ {i} : blocks'[j] = blocks[j]
      /\ blocks'[i].lo = lo /\ blocks'[i].size = n
  BY DEF Inv, Give
<1>2. Live' = Live \cup {i}
  <2>1. i \in Live'
    BY <1>1 DEF Live, Give
  <2>2. \A j \in Ids \ {i} : j \in Live' <=> j \in Live
    BY <1>1 DEF Live
  <2> QED
    BY <2>1, <2>2 DEF Live
<1>3. WordsOf(blocks'[i]) = new
  BY <1>1 DEF WordsOf
<1>4. \A j \in Live \ {i} : WordsOf(blocks[j]) \cap new = {} /\ blocks'[j] = blocks[j]
  BY <1>1 DEF Give, Live
<1>5. Disjoint'
  <2>1. SUFFICES ASSUME NEW j \in Live', NEW k \in Live', j # k
                 PROVE  WordsOf(blocks'[j]) \cap WordsOf(blocks'[k]) = {}
    BY DEF Disjoint, WordsOf
  <2>2. CASE j = i
    BY <2>1, <2>2, <1>2, <1>3, <1>4
  <2>3. CASE k = i
    BY <2>1, <2>3, <1>2, <1>3, <1>4
  <2>4. CASE j # i /\ k # i
    BY <2>1, <2>4, <1>2, <1>4 DEF Inv, Disjoint
  <2> QED
    BY <2>2, <2>3, <2>4
<1>6. Unspoilt'
  <2>1. SUFFICES ASSUME NEW j \in Live', NEW a \in WordsOf(blocks'[j])
                 PROVE  mem'[a] = Data(j)
    BY DEF Unspoilt, WordsOf
  <2>2. CASE j = i
    BY <2>1, <2>2, <1>3 DEF Give
  <2>3. CASE j # i
    BY <2>1, <2>3, <1>2, <1>4 DEF Give, Kept, Inv, Unspoilt
  <2> QED
    BY <2>2, <2>3
<1>7. blocks' = [j \in Ids |-> blocks'[j]]
  BY DEF Inv, Give
<1> QED
  BY <1>5, <1>6, <1>7 DEF Inv

\* Fewer live payloads, each as it was.
LEMMA KeepInv ==
    ASSUME Inv, blocks' = [j \in Ids |-> blocks'[j]], Live' \subseteq Live,
           \A j \in Live' : blocks'[j] = blocks[j],
           \A j \in Live' : \A a \in WordsOf(blocks[j]) : mem'[a] = mem[a]
    PROVE  Inv'
<1>1. Disjoint'
  BY DEF Inv, Disjoint, WordsOf
<1>2. Unspoilt'
  BY DEF Inv, Unspoilt, WordsOf
<1> QED
  BY <1>1, <1>2 DEF Inv

\* Every request, and the driver's writing, keeps the invariant.
LEMMA NextInv == Inv /\ [Next]_vars => Inv'
<1>1. SUFFICES ASSUME Inv, [Next]_vars PROVE Inv'
  OBVIOUS
<1>2. ASSUME NEW i \in Ids, NEW n \in Sizes, NEW lo \in Address, Give(i, lo, n) PROVE Inv'
  BY <1>1, <1>2, GiveInv
<1>3. ASSUME NEW i \in Ids, Free(i) PROVE Inv'
  <2>1. blocks' = [j \in Ids |-> blocks'[j]]
    BY <1>1, <1>3 DEF Inv, Free
  <2>2. /\ \A j \in Ids \ {i} : blocks'[j] = blocks[j]
        /\ blocks'[i].size = 0
    BY <1>1, <1>3 DEF Inv, Free
  <2>3. Live' \subseteq Live \ {i}
    BY <2>2 DEF Live
  <2> QED
    BY <1>1, <1>3, <2>1, <2>2, <2>3, KeepInv DEF Free, Kept, Live
<1>4. CASE Refuse
  BY <1>1, <1>4, KeepInv DEF Refuse, Kept, Inv, Live
<1>5. CASE Reset
  <2>1. Live' = {}
    BY <1>5 DEF Reset, Live
  <2>2. blocks' = [j \in Ids |-> blocks'[j]]
    BY <1>5 DEF Reset
  <2> QED
    BY <1>1, <2>1, <2>2, KeepInv
<1>6. CASE UNCHANGED vars
  BY <1>1, <1>6, KeepInv DEF vars, Inv, Live
<1> QED
  BY <1>1, <1>2, <1>3, <1>4, <1>5, <1>6 DEF Next

\* Two live payloads have no word in common (what add_range is there for, mdriver.c 560).
THEOREM PayloadsApart == Spec => []Disjoint
<1>1. Inv => Disjoint
  BY DEF Inv
<1> QED
  BY InitInv, NextInv, <1>1, PTL DEF Spec

\* A live payload holds what its owner wrote to it (check_index, mdriver.c 682).
THEOREM PayloadsUnspoilt == Spec => []Unspoilt
<1>1. Inv => Unspoilt
  BY DEF Inv
<1> QED
  BY InitInv, NextInv, <1>1, PTL DEF Spec
=============================================================================
