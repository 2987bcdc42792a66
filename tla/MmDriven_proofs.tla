--------------------------- MODULE MmDriven_proofs ---------------------------
(***************************************************************************)
(* Proofs about mm.c under the driver of mdriver.c, for any heap size, any *)
(* chunk, any number of blocks and any sizes.                              *)
(*                                                                         *)
(* A heap is described by a plan: the set B of its blocks, their sizes S,  *)
(* and the set F of those that are free.  Shape says that the headers, the *)
(* footers and the fourteen lists in memory are those of the plan; r ranks *)
(* the free blocks so that each list climbs, which is what makes the walks *)
(* end.  Each function of mm.c is shown to take a heap with a plan to a    *)
(* heap with another plan, and to leave the words of the blocks in use     *)
(* alone; then each request of the driver is shown to keep Ready, which    *)
(* adds that the blocks in use are those of the trace and hold its data.   *)
(***************************************************************************)
EXTENDS MmDriven, DataLemmas

-----------------------------------------------------------------------------
(* Numbers: multiples of eight, headers and addresses.                     *)

\* Block addresses and sizes.
Eights == {x \in Int : x % 8 = 0}

\* Multiples of eight are closed under sums.
LEMMA EightsSum ==
  ASSUME NEW x \in Eights, NEW y \in Eights
  PROVE  x + y \in Eights /\ x - y \in Eights
BY DEF Eights

\* The next multiple is eight larger.
LEMMA EightsApart ==
  ASSUME NEW x \in Eights, NEW y \in Eights, x < y
  PROVE  x + 8 <= y
BY DEF Eights

\* What PACK packs, the macros find.
LEMMA TagParts ==
  ASSUME NEW s \in Eights, NEW a \in {0, 1}, NEW p \in {0, 2}
  PROVE  /\ SizeOf(s + a + p) = s
         /\ (s + a + p) % 2 = a
         /\ ((s + a + p) % 4) - ((s + a + p) % 2) = p
BY DEF Eights, SizeOf

\* Where words are.
LEMMA WordAt ==
  ASSUME NEW x \in Int, x % 4 = 0, 0 <= x, x + 4 <= MaxHeap
  PROVE  x \in Word
<1>1. x \div 4 \in 0..(MaxHeap \div 4 - 1) /\ x = 4 * (x \div 4)
  BY HeapAssumption
<1> QED BY <1>1 DEF Word

\* Headers and footers are never at the same place.
LEMMA TagsDiffer ==
  ASSUME NEW c \in Eights, NEW f \in Eights, NEW s \in Eights
  PROVE  c - 4 # f + s - 8 /\ c - 4 \in Int /\ f + s - 8 \in Int /\ c \in Int /\ f \in Int /\ s \in Int
BY DEF Eights

-----------------------------------------------------------------------------
(* Words of the heap.                                                      *)

\* The fourteen lists.
Lists == 1..14

\* What is between two calls.
IsHeap(H) == H \in [mem : [Word -> Int], brk : Nat, glob : [Lists -> Int], fault : BOOLEAN]

\* G is H with other words, and perhaps other list heads.
SameSize(H, G) == IsHeap(G) /\ G.brk = H.brk /\ G.fault = H.fault

\* Every word reads as an integer.
LEMMA ReadInt == ASSUME NEW H, IsHeap(H) PROVE \A x : Rd(H, x) \in Int
BY DEF IsHeap, Rd

\* A write changes the word at its address and nothing else.
LEMMA WriteIs ==
  ASSUME NEW H, IsHeap(H), NEW a \in Word, NEW w \in Int
  PROVE  /\ SameSize(H, Wr(H, a, w)) /\ Wr(H, a, w).glob = H.glob
         /\ \A x : Rd(Wr(H, a, w), x) = IF x = a THEN w ELSE Rd(H, x)
<1> DEFINE G == Wr(H, a, w)
<1>1. G = [H EXCEPT !.mem[a] = w] /\ a \in DOMAIN H.mem
  BY DEF Wr, IsHeap
<1>2. /\ G.mem = [H.mem EXCEPT ![a] = w] /\ G.brk = H.brk /\ G.glob = H.glob /\ G.fault = H.fault
      /\ G \in [mem : [Word -> Int], brk : Nat, glob : [Lists -> Int], fault : BOOLEAN]
  BY <1>1 DEF IsHeap
<1>3. \A x : Rd(G, x) = IF x = a THEN w ELSE Rd(H, x)
  BY <1>1, <1>2 DEF Rd, IsHeap
<1> QED BY <1>2, <1>3 DEF IsHeap, SameSize

\* A pointer takes a word, and spoils the next.
LEMMA PutIs ==
  ASSUME NEW H, IsHeap(H), NEW a \in Word, a + 4 \in Word, NEW p \in Int
  PROVE  /\ SameSize(H, PUT(H, a, p)) /\ PUT(H, a, p).glob = H.glob
         /\ \A x : x # a + 4 => Rd(PUT(H, a, p), x) = IF x = a THEN p ELSE Rd(H, x)
<1> DEFINE G == Wr(H, a, p)
           hi == IF p = NULL THEN 0 ELSE HeapHigh
<1>1. SameSize(H, G) /\ G.glob = H.glob /\ \A x : Rd(G, x) = IF x = a THEN p ELSE Rd(H, x)
  BY WriteIs
<1>2. hi \in Int /\ IsHeap(G)
  BY <1>1 DEF HeapHigh, SameSize
<1> HIDE DEF G, hi
<1>3. /\ SameSize(G, Wr(G, a + 4, hi)) /\ Wr(G, a + 4, hi).glob = G.glob
      /\ \A x : Rd(Wr(G, a + 4, hi), x) = IF x = a + 4 THEN hi ELSE Rd(G, x)
  BY <1>2, WriteIs
<1>4. PUT(H, a, p) = Wr(G, a + 4, hi)
  BY DEF PUT, G, hi
<1> QED BY <1>1, <1>3, <1>4 DEF SameSize

\* A list gets another head.
LEMMA HeadIs ==
  ASSUME NEW H, IsHeap(H), NEW i \in Lists, NEW p \in Int
  PROVE  LET G == [H EXCEPT !.glob[i] = p]
         IN  /\ SameSize(H, G) /\ G.glob = [H.glob EXCEPT ![i] = p]
             /\ \A x : Rd(G, x) = Rd(H, x)
<1> DEFINE G == [H EXCEPT !.glob[i] = p]
<1>1. /\ G.mem = H.mem /\ G.brk = H.brk /\ G.fault = H.fault /\ G.glob = [H.glob EXCEPT ![i] = p]
      /\ G \in [mem : [Word -> Int], brk : Nat, glob : [Lists -> Int], fault : BOOLEAN]
  BY DEF IsHeap
<1> QED BY <1>1 DEF IsHeap, SameSize, Rd

\* There are fourteen lists.
LEMMA ClassRange == \A s : index_of(s) \in Lists
<1> SUFFICES ASSUME NEW s PROVE index_of(s) \in Lists
  OBVIOUS
<1>1. IsFiniteSet(ClassLimits) /\ Cardinality(ClassLimits) <= 13
  <2> DEFINE top == 61440
  <2>1. ClassLimits \in SUBSET (0..top) /\ top \in Int
    BY DEF ClassLimits
  <2> HIDE DEF top
  <2>2. IsFiniteSet(ClassLimits)
    <3>1. IsFiniteSet(0..top)
      BY <2>1, FS_Interval
    <3> QED BY <2>1, <3>1, FS_Subset
  <2> DEFINE f == [k \in 1..13 |-> CASE k = 1 -> 24 [] k = 2 -> 48 [] k = 3 -> 72 [] k = 4 -> 96
                                  [] k = 5 -> 120 [] k = 6 -> 480 [] k = 7 -> 960 [] k = 8 -> 1920
                                  [] k = 9 -> 3840 [] k = 10 -> 7680 [] k = 11 -> 15360
                                  [] k = 12 -> 30720 [] k = 13 -> 61440]
  <2>3. \A p, q \in 1..13 : f[p] = f[q] => p = q
    OBVIOUS
  <2>4. /\ f[1] = 24 /\ f[2] = 48 /\ f[3] = 72 /\ f[4] = 96 /\ f[5] = 120 /\ f[6] = 480 /\ f[7] = 960
        /\ f[8] = 1920 /\ f[9] = 3840 /\ f[10] = 7680 /\ f[11] = 15360 /\ f[12] = 30720 /\ f[13] = 61440
    OBVIOUS
  <2> HIDE DEF f
  <2>5. \A w : w \in ClassLimits <=> \E p \in 1..13 : f[p] = w
    <3>1. \A p \in 1..13 : \/ p = 1 \/ p = 2 \/ p = 3 \/ p = 4 \/ p = 5 \/ p = 6 \/ p = 7
                          \/ p = 8 \/ p = 9 \/ p = 10 \/ p = 11 \/ p = 12 \/ p = 13
      OBVIOUS
    <3>2. ASSUME NEW w \in ClassLimits PROVE \E p \in 1..13 : f[p] = w
      <4>1. /\ 1 \in 1..13 /\ 2 \in 1..13 /\ 3 \in 1..13 /\ 4 \in 1..13 /\ 5 \in 1..13 /\ 6 \in 1..13
            /\ 7 \in 1..13 /\ 8 \in 1..13 /\ 9 \in 1..13 /\ 10 \in 1..13 /\ 11 \in 1..13
            /\ 12 \in 1..13 /\ 13 \in 1..13
        OBVIOUS
      <4>2. \/ w = f[1] \/ w = f[2] \/ w = f[3] \/ w = f[4] \/ w = f[5] \/ w = f[6] \/ w = f[7]
            \/ w = f[8] \/ w = f[9] \/ w = f[10] \/ w = f[11] \/ w = f[12] \/ w = f[13]
        BY <2>4 DEF ClassLimits
      <4> QED BY ONLY <4>1, <4>2, Zenon
    <3>3. ASSUME NEW p \in 1..13 PROVE f[p] \in ClassLimits
      BY <2>4, <3>1 DEF ClassLimits
    <3> QED BY <3>2, <3>3
  <2>6. Cardinality(ClassLimits) = 13
    <3>1. \A n \in {13} : /\ \A p, q \in 1..n : f[p] = f[q] => p = q
                         /\ \A w : w \in ClassLimits <=> \E p \in 1..n : f[p] = w
      BY <2>3, <2>5
    <3>2. ASSUME NEW n \in {13}, NEW g, NEW C, \A p, q \in 1..n : g[p] = g[q] => p = q,
                 \A w : w \in C <=> \E p \in 1..n : g[p] = w
          PROVE  Cardinality(C) = n
      <4>1. n \in Nat
        OBVIOUS
      <4> QED BY ONLY <4>1, <3>2, CountSeq
    <3> QED BY <3>1, <3>2
  <2> QED BY <2>2, <2>6
<1>2. {m \in ClassLimits : m < s} \subseteq ClassLimits
  OBVIOUS
<1>3. /\ Cardinality({m \in ClassLimits : m < s}) <= Cardinality(ClassLimits)
      /\ Cardinality({m \in ClassLimits : m < s}) \in Nat /\ Cardinality(ClassLimits) \in Nat
  BY <1>1, <1>2, FS_Subset, FS_CardinalityType
<1> QED BY <1>1, <1>3 DEF index_of, Lists

-----------------------------------------------------------------------------
(* The free lists.                                                         *)

\* The blocks F, their sizes S, linked by nx and pv from the heads gl; a block's rank r is
\* less than that of the next, so that no list is a ring.
Linked(F, S, nx, pv, gl, r) ==
  /\ nx \in [F -> Int] /\ pv \in [F -> Int] /\ gl \in [Lists -> Int]
  /\ \A b \in F : nx[b] # NULL =>
       nx[b] \in F /\ pv[nx[b]] = b /\ index_of(S[nx[b]]) = index_of(S[b]) /\ r[b] < r[nx[b]]
  /\ \A b \in F : pv[b] # NULL => pv[b] \in F /\ nx[pv[b]] = b
  /\ \A b \in F : pv[b] = NULL => gl[index_of(S[b])] = b
  /\ \A i \in Lists : gl[i] # NULL => gl[i] \in F /\ pv[gl[i]] = NULL /\ index_of(S[gl[i]]) = i

\* Where free blocks may be: room for two links in each.
Roomy(F) ==
  /\ F \subseteq Eights
  /\ \A b \in F : 16 <= b /\ b + 16 <= MaxHeap
  /\ \A b, c \in F : b < c => b + 16 <= c

\* The links in memory: the first word of a free block and the third.
Nexts(H, F) == [b \in F |-> Rd(H, b)]
Prevs(H, F) == [b \in F |-> Rd(H, b + 8)]

\* A rank is any number: only the order along a list matters.
Ranks == [Int -> Int]

\* The lists of the heap H hold the blocks F.
Chained(H, F, S, r) ==
  /\ IsHeap(H) /\ r \in Ranks /\ Roomy(F)
  /\ Linked(F, S, Nexts(H, F), Prevs(H, F), H.glob, r)

\* G differs from H in the links of F only.
SameButLinks(H, G, F) ==
  /\ SameSize(H, G)
  /\ \A x \in Int : (\A b \in F : x < b \/ b + 16 <= x) => Rd(G, x) = Rd(H, x)

\* The links without p, which was among them.
IsCut(F, S, nx, pv, gl, p, nx2, pv2, gl2) ==
  /\ nx2 \in [F \ {p} -> Int] /\ pv2 \in [F \ {p} -> Int] /\ gl2 \in [Lists -> Int]
  /\ \A b \in F \ {p} : nx2[b] = IF b = pv[p] THEN nx[p] ELSE nx[b]
  /\ \A b \in F \ {p} : pv2[b] = IF b = nx[p] THEN pv[p] ELSE pv[b]
  /\ \A i \in Lists : gl2[i] = IF pv[p] = NULL /\ i = index_of(S[p]) THEN nx[p] ELSE gl[i]

\* A block is cut out of a list.
LEMMA CutOut ==
  ASSUME NEW F, F \subseteq Int \ {NULL}, NEW p \in F, NEW S, NEW r \in Ranks,
         NEW nx, NEW pv, NEW gl, Linked(F, S, nx, pv, gl, r),
         NEW nx2, NEW pv2, NEW gl2, IsCut(F, S, nx, pv, gl, p, nx2, pv2, gl2)
  PROVE  Linked(F \ {p}, S, nx2, pv2, gl2, r)
<1> DEFINE E == F \ {p}
<1>t. /\ nx \in [F -> Int] /\ pv \in [F -> Int] /\ gl \in [Lists -> Int]
      /\ nx2 \in [F \ {p} -> Int] /\ pv2 \in [F \ {p} -> Int] /\ gl2 \in [Lists -> Int]
  BY DEF IsCut, Linked
<1>c. /\ \A b \in F \ {p} : nx2[b] = IF b = pv[p] THEN nx[p] ELSE nx[b]
      /\ \A b \in F \ {p} : pv2[b] = IF b = nx[p] THEN pv[p] ELSE pv[b]
      /\ \A i \in Lists : gl2[i] = IF pv[p] = NULL /\ i = index_of(S[p]) THEN nx[p] ELSE gl[i]
  BY DEF IsCut
<1>0. \A b \in F : r[b] \in Int /\ index_of(S[b]) \in Lists
  BY ClassRange DEF Ranks
<1>1. \A b \in E : nx2[b] # NULL =>
        nx2[b] \in E /\ pv2[nx2[b]] = b /\ index_of(S[nx2[b]]) = index_of(S[b]) /\ r[b] < r[nx2[b]]
  <2> SUFFICES ASSUME NEW b \in E, nx2[b] # NULL
               PROVE  nx2[b] \in E /\ pv2[nx2[b]] = b /\ index_of(S[nx2[b]]) = index_of(S[b])
                      /\ r[b] < r[nx2[b]]
    OBVIOUS
  <2>1. CASE b = pv[p]
    BY <1>0, <1>t, <1>c, <2>1 DEF Linked
  <2>2. CASE b # pv[p]
    BY <1>0, <1>t, <1>c, <2>2 DEF Linked
  <2> QED BY <2>1, <2>2
<1>2. \A b \in E : pv2[b] # NULL => pv2[b] \in E /\ nx2[pv2[b]] = b
  <2> SUFFICES ASSUME NEW b \in E, pv2[b] # NULL PROVE pv2[b] \in E /\ nx2[pv2[b]] = b
    OBVIOUS
  <2>1. CASE b = nx[p]
    BY <1>0, <1>t, <1>c, <2>1 DEF Linked
  <2>2. CASE b # nx[p]
    BY <1>0, <1>t, <1>c, <2>2 DEF Linked
  <2> QED BY <2>1, <2>2
<1>3. \A b \in E : pv2[b] = NULL => gl2[index_of(S[b])] = b
  <2> SUFFICES ASSUME NEW b \in E, pv2[b] = NULL PROVE gl2[index_of(S[b])] = b
    OBVIOUS
  <2>1. CASE b = nx[p]
    BY <1>0, <1>t, <1>c, <2>1 DEF Linked
  <2>2. CASE b # nx[p]
    BY <1>0, <1>t, <1>c, <2>2 DEF Linked
  <2> QED BY <2>1, <2>2
<1>4. \A i \in Lists : gl2[i] # NULL => gl2[i] \in E /\ pv2[gl2[i]] = NULL /\ index_of(S[gl2[i]]) = i
  <2> SUFFICES ASSUME NEW i \in Lists, gl2[i] # NULL
               PROVE  gl2[i] \in E /\ pv2[gl2[i]] = NULL /\ index_of(S[gl2[i]]) = i
    OBVIOUS
  <2>1. CASE pv[p] = NULL /\ i = index_of(S[p])
    BY <1>0, <1>t, <1>c, <2>1 DEF Linked
  <2>2. CASE ~(pv[p] = NULL /\ i = index_of(S[p]))
    BY <1>0, <1>t, <1>c, <2>2 DEF Linked
  <2> QED BY <2>1, <2>2
<1> QED BY <1>t, <1>1, <1>2, <1>3, <1>4 DEF Linked

\* The links with p at the head of list k.
IsPut(F, nx, pv, gl, p, k, nx2, pv2, gl2) ==
  /\ nx2 \in [F \cup {p} -> Int] /\ pv2 \in [F \cup {p} -> Int] /\ gl2 \in [Lists -> Int]
  /\ nx2[p] = gl[k] /\ pv2[p] = NULL
  /\ \A b \in F : nx2[b] = nx[b] /\ pv2[b] = IF b = gl[k] THEN p ELSE pv[b]
  /\ \A i \in Lists : gl2[i] = IF i = k THEN p ELSE gl[i]

\* A block is put at the head of a list.
LEMMA PutFirst ==
  ASSUME NEW F, F \subseteq Int \ {NULL}, NEW p \in Int \ {NULL}, p \notin F, NEW S, NEW r \in Ranks,
         NEW nx, NEW pv, NEW gl, Linked(F, S, nx, pv, gl, r),
         NEW nx2, NEW pv2, NEW gl2, IsPut(F, nx, pv, gl, p, index_of(S[p]), nx2, pv2, gl2)
  PROVE  \E r2 \in Ranks : Linked(F \cup {p}, S, nx2, pv2, gl2, r2)
<1> DEFINE k == index_of(S[p])
           E == F \cup {p}
           top == IF gl[k] = NULL THEN 0 ELSE r[gl[k]] - 1
           r2 == [r EXCEPT ![p] = top]
<1>t. /\ nx \in [F -> Int] /\ pv \in [F -> Int] /\ gl \in [Lists -> Int]
      /\ nx2 \in [F \cup {p} -> Int] /\ pv2 \in [F \cup {p} -> Int] /\ gl2 \in [Lists -> Int]
  BY DEF IsPut, Linked
<1>c. /\ nx2[p] = gl[k] /\ pv2[p] = NULL
      /\ \A b \in F : nx2[b] = nx[b] /\ pv2[b] = IF b = gl[k] THEN p ELSE pv[b]
      /\ \A i \in Lists : gl2[i] = IF i = k THEN p ELSE gl[i]
  BY DEF IsPut
<1>a. k \in Lists /\ gl[k] \in Int
  BY <1>t, ClassRange
<1>0. \A b \in F : r[b] \in Int /\ index_of(S[b]) \in Lists /\ b # NULL
  BY ClassRange DEF Ranks
<1>b. top \in Int /\ r2 \in Ranks /\ r2[p] = top /\ \A b \in F : r2[b] = r[b]
  BY <1>a DEF Ranks
<1> HIDE DEF r2
<1>1. \A b \in E : nx2[b] # NULL =>
        nx2[b] \in E /\ pv2[nx2[b]] = b /\ index_of(S[nx2[b]]) = index_of(S[b]) /\ r2[b] < r2[nx2[b]]
  <2> SUFFICES ASSUME NEW b \in E, nx2[b] # NULL
               PROVE  nx2[b] \in E /\ pv2[nx2[b]] = b /\ index_of(S[nx2[b]]) = index_of(S[b])
                      /\ r2[b] < r2[nx2[b]]
    OBVIOUS
  <2>1. CASE b = p
    <3>1. gl[k] # NULL /\ gl[k] \in F /\ r[gl[k]] \in Int /\ index_of(S[gl[k]]) = k
      BY <1>0, <1>t, <1>c, <1>a, <2>1 DEF Linked
    <3> QED BY <1>b, <1>t, <1>c, <2>1, <3>1
  <2>2. CASE b # p
    <3>1. b \in F /\ nx2[b] = nx[b] /\ nx[b] \in F /\ pv[nx[b]] = b /\ nx[b] # gl[k]
      BY <1>0, <1>t, <1>c, <1>a, <2>2 DEF Linked
    <3> QED BY <1>0, <1>t, <1>c, <1>b, <2>2, <3>1 DEF Linked
  <2> QED BY <2>1, <2>2
<1>2. \A b \in E : pv2[b] # NULL => pv2[b] \in E /\ nx2[pv2[b]] = b
  <2> SUFFICES ASSUME NEW b \in E, pv2[b] # NULL PROVE pv2[b] \in E /\ nx2[pv2[b]] = b
    OBVIOUS
  <2>1. CASE b = gl[k]
    BY <1>0, <1>t, <1>c, <2>1 DEF Linked
  <2>2. CASE b # gl[k]
    BY <1>0, <1>t, <1>c, <2>2 DEF Linked
  <2> QED BY <2>1, <2>2
<1>3. \A b \in E : pv2[b] = NULL => gl2[index_of(S[b])] = b
  <2> SUFFICES ASSUME NEW b \in E, pv2[b] = NULL PROVE gl2[index_of(S[b])] = b
    OBVIOUS
  <2>1. CASE b = p
    BY <1>a, <1>t, <1>c, <2>1
  <2>2. CASE b # p
    BY <1>0, <1>t, <1>c, <1>a, <2>2 DEF Linked
  <2> QED BY <2>1, <2>2
<1>4. \A i \in Lists : gl2[i] # NULL => gl2[i] \in E /\ pv2[gl2[i]] = NULL /\ index_of(S[gl2[i]]) = i
  <2> SUFFICES ASSUME NEW i \in Lists, gl2[i] # NULL
               PROVE  gl2[i] \in E /\ pv2[gl2[i]] = NULL /\ index_of(S[gl2[i]]) = i
    OBVIOUS
  <2>1. CASE i = k
    BY <1>a, <1>t, <1>c, <2>1
  <2>2. CASE i # k
    BY <1>0, <1>t, <1>c, <1>a, <2>2 DEF Linked
  <2> QED BY <2>1, <2>2
<1> QED BY <1>t, <1>b, <1>1, <1>2, <1>3, <1>4 DEF Linked

\* Where the links of a free block are.
LEMMA LinkWords ==
  ASSUME NEW F, Roomy(F), NEW b \in F
  PROVE  b \in Int /\ b # NULL /\ b \in Word /\ b + 4 \in Word /\ b + 8 \in Word /\ b + 12 \in Word
<1>1. b \in Int /\ b % 8 = 0 /\ 16 <= b /\ b + 16 <= MaxHeap
  BY DEF Roomy, Eights
<1>2. /\ b % 4 = 0 /\ (b + 4) % 4 = 0 /\ (b + 8) % 4 = 0 /\ (b + 12) % 4 = 0
  BY <1>1
<1> QED BY <1>1, <1>2, WordAt, HeapAssumption DEF NULL

\* The links of two free blocks are apart.
LEMMA LinksDiffer ==
  ASSUME NEW F, Roomy(F), NEW b \in F, NEW c \in F, b # c
  PROVE  /\ b # c + 4 /\ b # c + 8 /\ b # c + 12
         /\ b + 8 # c /\ b + 8 # c + 4 /\ b + 8 # c + 12
BY DEF Roomy, Eights

\* A link that is written: the blocks' other links stay.
LEMMA SetNext ==
  ASSUME NEW H, IsHeap(H), NEW F, Roomy(F), NEW b \in F, NEW q \in Int
  PROVE  /\ SameButLinks(H, PUT(H, SUCCESSOR(b), q), F) /\ PUT(H, SUCCESSOR(b), q).glob = H.glob
         /\ \A c \in F : Rd(PUT(H, SUCCESSOR(b), q), c) = IF c = b THEN q ELSE Rd(H, c)
         /\ \A c \in F : Rd(PUT(H, SUCCESSOR(b), q), c + 8) = Rd(H, c + 8)
<1> DEFINE G == PUT(H, SUCCESSOR(b), q)
<1>1. b \in Int /\ b \in Word /\ b + 4 \in Word
  BY LinkWords
<1>2. /\ SameSize(H, G) /\ G.glob = H.glob
      /\ \A x : x # b + 4 => Rd(G, x) = IF x = b THEN q ELSE Rd(H, x)
  BY <1>1, PutIs DEF SUCCESSOR
<1> HIDE DEF G
<1>3. \A c \in F : Rd(G, c) = (IF c = b THEN q ELSE Rd(H, c)) /\ Rd(G, c + 8) = Rd(H, c + 8)
  <2> SUFFICES ASSUME NEW c \in F
               PROVE  Rd(G, c) = (IF c = b THEN q ELSE Rd(H, c)) /\ Rd(G, c + 8) = Rd(H, c + 8)
    OBVIOUS
  <2>1. c \in Int
    BY LinkWords
  <2>2. c # b + 4 /\ c + 8 # b + 4 /\ c + 8 # b
    <3>1. CASE c = b
      BY <1>1, <3>1
    <3>2. CASE c # b
      BY <3>2, LinksDiffer
    <3> QED BY <3>1, <3>2
  <2> QED BY <1>2, <2>1, <2>2
<1>4. \A x \in Int : (\A c \in F : x < c \/ c + 16 <= x) => Rd(G, x) = Rd(H, x)
  BY <1>1, <1>2
<1> QED BY <1>2, <1>3, <1>4 DEF SameButLinks, G

\* Writing a predecessor changes that link and nothing else.
LEMMA SetPrev ==
  ASSUME NEW H, IsHeap(H), NEW F, Roomy(F), NEW b \in F, NEW q \in Int
  PROVE  /\ SameButLinks(H, PUT(H, PREDECESSOR(b), q), F) /\ PUT(H, PREDECESSOR(b), q).glob = H.glob
         /\ \A c \in F : Rd(PUT(H, PREDECESSOR(b), q), c) = Rd(H, c)
         /\ \A c \in F : Rd(PUT(H, PREDECESSOR(b), q), c + 8) = IF c = b THEN q ELSE Rd(H, c + 8)
<1> DEFINE G == PUT(H, PREDECESSOR(b), q)
<1>1. b \in Int /\ b + 8 \in Word /\ b + 12 \in Word
  BY LinkWords
<1>2. /\ SameSize(H, G) /\ G.glob = H.glob
      /\ \A x : x # b + 12 => Rd(G, x) = IF x = b + 8 THEN q ELSE Rd(H, x)
  <2>1. PICK d \in Word : d = b + 8
    BY <1>1
  <2>2. d + 4 = b + 12
    BY <1>1, <2>1
  <2>3. G = PUT(H, d, q)
    BY <2>1 DEF PREDECESSOR, DSIZE
  <2>4. d + 4 \in Word
    BY <1>1, <2>2
  <2> HIDE DEF G
  <2>5. /\ SameSize(H, G) /\ G.glob = H.glob
        /\ \A x : x # d + 4 => Rd(G, x) = IF x = d THEN q ELSE Rd(H, x)
    BY <2>3, <2>4, PutIs
  <2> QED BY <2>1, <2>2, <2>5
<1> HIDE DEF G
<1>3. \A c \in F : Rd(G, c) = Rd(H, c) /\ Rd(G, c + 8) = IF c = b THEN q ELSE Rd(H, c + 8)
  <2> SUFFICES ASSUME NEW c \in F
               PROVE  Rd(G, c) = Rd(H, c) /\ Rd(G, c + 8) = IF c = b THEN q ELSE Rd(H, c + 8)
    OBVIOUS
  <2>1. c \in Int
    BY LinkWords
  <2>2. c # b + 12 /\ c # b + 8 /\ c + 8 # b + 12 /\ (c + 8 = b + 8 => c = b)
    <3>1. CASE c = b
      BY <1>1, <3>1
    <3>2. CASE c # b
      BY <1>1, <2>1, <3>2, LinksDiffer
    <3> QED BY <3>1, <3>2
  <2> QED BY <1>2, <2>1, <2>2
<1>4. \A x \in Int : (\A c \in F : x < c \/ c + 16 <= x) => Rd(G, x) = Rd(H, x)
  BY <1>1, <1>2
<1> QED BY <1>2, <1>3, <1>4 DEF SameButLinks, G

\* Writes of links, one after the other.
LEMMA LinksTwice ==
  ASSUME NEW H, NEW F, NEW G, NEW K, SameButLinks(H, G, F), SameButLinks(G, K, F)
  PROVE  SameButLinks(H, K, F)
BY DEF SameButLinks, SameSize

\* The heap H with another head of list i.
WithHead(H, i, q) == [H EXCEPT !.glob[i] = q]

\* A list's head is written.
LEMMA SetHead ==
  ASSUME NEW H, IsHeap(H), NEW F, NEW i \in Lists, NEW q \in Int
  PROVE  /\ SameButLinks(H, WithHead(H, i, q), F) /\ WithHead(H, i, q).glob = [H.glob EXCEPT ![i] = q]
         /\ \A x : Rd(WithHead(H, i, q), x) = Rd(H, x)
<1> DEFINE G == WithHead(H, i, q)
<1>1. SameSize(H, G) /\ G.glob = [H.glob EXCEPT ![i] = q] /\ \A x : Rd(G, x) = Rd(H, x)
  BY HeadIs DEF WithHead
<1>2. SameButLinks(H, G, F)
  BY <1>1 DEF SameButLinks
<1> QED BY <1>1, <1>2

\* What remove_list does.
LEMMA RemoveIs ==
  ASSUME NEW H, NEW F, NEW S, NEW r, Chained(H, F, S, r), NEW p \in F, GET_SIZE(H, HDRP(p)) = S[p]
  PROVE  /\ Chained(remove_list(H, p), F \ {p}, S, r)
         /\ SameButLinks(H, remove_list(H, p), F)
<1> DEFINE next == Rd(H, p)
           prev == Rd(H, p + 8)
           i == index_of(S[p])
           cut == IF prev = NULL THEN WithHead(H, i, next) ELSE PUT(H, SUCCESSOR(prev), next)
           G == IF next = NULL THEN cut ELSE PUT(cut, PREDECESSOR(next), prev)
           E == F \ {p}
<1>1. /\ IsHeap(H) /\ r \in Ranks /\ Roomy(F) /\ H.glob \in [Lists -> Int]
      /\ Linked(F, S, Nexts(H, F), Prevs(H, F), H.glob, r)
  BY DEF Chained, IsHeap
<1>2. next \in Int /\ prev \in Int /\ i \in Lists
  BY <1>1, ReadInt, ClassRange
<1>3. /\ Nexts(H, F) \in [F -> Int] /\ Prevs(H, F) \in [F -> Int]
      /\ \A b \in F : Nexts(H, F)[b] = Rd(H, b) /\ Prevs(H, F)[b] = Rd(H, b + 8)
  BY <1>1, ReadInt DEF Nexts, Prevs
<1>4. /\ next # NULL => next \in F /\ next # p
      /\ prev # NULL => prev \in F /\ prev # p
  <2>1. \A b \in F : r[b] \in Int
    BY <1>1, LinkWords DEF Ranks
  <2> QED BY <1>1, <1>3, <2>1 DEF Linked
<1>5. G = remove_list(H, p)
  BY DEF remove_list, WithHead, GET, SUCCESSOR, PREDECESSOR, DSIZE
<1> HIDE DEF next, prev, i
<1>6. /\ SameButLinks(H, cut, F)
      /\ cut.glob \in [Lists -> Int]
      /\ \A j \in Lists : cut.glob[j] = IF prev = NULL /\ j = i THEN next ELSE H.glob[j]
      /\ \A b \in F : Rd(cut, b) = IF b = prev /\ prev # NULL THEN next ELSE Rd(H, b)
      /\ \A b \in F : Rd(cut, b + 8) = Rd(H, b + 8)
  <2>1. CASE prev = NULL
    <3>1. cut = WithHead(H, i, next)
      BY <2>1
    <3> HIDE DEF cut
    <3>2. /\ SameButLinks(H, cut, F) /\ cut.glob = [H.glob EXCEPT ![i] = next]
          /\ \A x : Rd(cut, x) = Rd(H, x)
      BY <1>1, <1>2, <3>1, SetHead
    <3> QED BY <1>1, <1>2, <2>1, <3>2
  <2>2. CASE prev # NULL
    BY <1>1, <1>2, <1>4, <2>2, SetNext
  <2> QED BY <2>1, <2>2
<1>7. IsHeap(cut)
  BY <1>6 DEF SameButLinks, SameSize
<1> HIDE DEF cut
<1>8. /\ SameButLinks(H, G, F) /\ G.glob = cut.glob
      /\ \A b \in F : Rd(G, b) = Rd(cut, b)
      /\ \A b \in F : Rd(G, b + 8) = IF b = next /\ next # NULL THEN prev ELSE Rd(cut, b + 8)
  <2>1. CASE next = NULL
    BY <1>6, <2>1
  <2>2. CASE next # NULL
    <3>1. /\ SameButLinks(cut, G, F) /\ G.glob = cut.glob
          /\ \A b \in F : Rd(G, b) = Rd(cut, b)
          /\ \A b \in F : Rd(G, b + 8) = IF b = next THEN prev ELSE Rd(cut, b + 8)
      BY <1>1, <1>2, <1>4, <1>7, <2>2, SetPrev
    <3> QED BY <1>6, <2>2, <3>1, LinksTwice
  <2> QED BY <2>1, <2>2
<1> HIDE DEF G
<1>9. IsHeap(G)
  BY <1>8 DEF SameButLinks, SameSize
<1>10. /\ Nexts(G, E) \in [E -> Int] /\ Prevs(G, E) \in [E -> Int]
       /\ \A b \in E : Nexts(G, E)[b] = Rd(G, b) /\ Prevs(G, E)[b] = Rd(G, b + 8)
  BY <1>9, ReadInt DEF Nexts, Prevs
<1>11. Linked(E, S, Nexts(G, E), Prevs(G, E), G.glob, r)
  <2> DEFINE nx == Nexts(H, F)
             pv == Prevs(H, F)
             nx2 == Nexts(G, E)
             pv2 == Prevs(G, E)
             gl == H.glob
             gl2 == G.glob
  <2>1. F \subseteq Int \ {NULL}
    BY <1>1, LinkWords
  <2>2. nx[p] = next /\ pv[p] = prev
    BY <1>3 DEF next, prev
  <2>3. \A b \in E : nx2[b] = IF b = pv[p] THEN nx[p] ELSE nx[b]
    <3> SUFFICES ASSUME NEW b \in E PROVE nx2[b] = IF b = pv[p] THEN nx[p] ELSE nx[b]
      OBVIOUS
    <3>1. b \in F /\ b # NULL /\ nx2[b] = Rd(G, b) /\ Rd(G, b) = Rd(cut, b) /\ nx[b] = Rd(H, b)
      BY <1>3, <1>8, <1>10, <2>1
    <3> QED BY <1>6, <2>2, <3>1
  <2>4. \A b \in E : pv2[b] = IF b = nx[p] THEN pv[p] ELSE pv[b]
    <3> SUFFICES ASSUME NEW b \in E PROVE pv2[b] = IF b = nx[p] THEN pv[p] ELSE pv[b]
      OBVIOUS
    <3>1. b \in F /\ b # NULL /\ pv2[b] = Rd(G, b + 8) /\ pv[b] = Rd(H, b + 8)
      BY <1>3, <1>10, <2>1
    <3> QED BY <1>6, <1>8, <2>2, <3>1
  <2>5. gl2 \in [Lists -> Int] /\ \A j \in Lists : gl2[j] = IF pv[p] = NULL /\ j = index_of(S[p]) THEN nx[p] ELSE gl[j]
    BY <1>6, <1>8, <2>2 DEF i
  <2>6. nx \in [F -> Int] /\ pv \in [F -> Int] /\ gl \in [Lists -> Int] /\ r \in Ranks
        /\ Linked(F, S, nx, pv, gl, r) /\ nx2 \in [F \ {p} -> Int] /\ pv2 \in [F \ {p} -> Int]
    BY <1>1, <1>3, <1>10
  <2> HIDE DEF nx, pv, nx2, pv2, gl, gl2
  <2>7. Linked(F \ {p}, S, nx2, pv2, gl2, r)
    <3>1. IsCut(F, S, nx, pv, gl, p, nx2, pv2, gl2)
      BY <2>3, <2>4, <2>5, <2>6 DEF IsCut
    <3> QED BY <2>1, <2>6, <3>1, CutOut
  <2> QED BY <2>7 DEF nx2, pv2, gl2
<1>12. Roomy(E)
  BY <1>1 DEF Roomy
<1> QED BY <1>1, <1>5, <1>8, <1>9, <1>11, <1>12 DEF Chained

\* What insert_list does.
LEMMA InsertIs ==
  ASSUME NEW H, NEW F, NEW S, NEW r, Chained(H, F, S, r), NEW p, p \notin F, Roomy(F \cup {p})
  PROVE  /\ \E r2 \in Ranks : Chained(insert_list(H, p, S[p]), F \cup {p}, S, r2)
         /\ SameButLinks(H, insert_list(H, p, S[p]), F \cup {p})
<1> DEFINE E == F \cup {p}
           i == index_of(S[p])
           head == H.glob[i]
           H1 == PUT(H, PREDECESSOR(p), NULL)
           top == WithHead(H1, i, p)
           H2 == IF head = NULL THEN top ELSE PUT(top, PREDECESSOR(head), p)
           G == PUT(H2, SUCCESSOR(p), head)
<1>1. /\ IsHeap(H) /\ r \in Ranks /\ Roomy(F) /\ H.glob \in [Lists -> Int]
      /\ Linked(F, S, Nexts(H, F), Prevs(H, F), H.glob, r)
  BY DEF Chained, IsHeap
<1>2. i \in Lists /\ head \in Int /\ NULL \in Int
  BY <1>1, ClassRange DEF NULL
<1>3. p \in Int /\ p # NULL /\ p \in E
  <2>1. p \in E
    OBVIOUS
  <2> QED BY <2>1, LinkWords
<1>4. head # NULL => head \in F
  BY <1>1, <1>2 DEF Linked
<1>5. G = insert_list(H, p, S[p])
  BY DEF insert_list, WithHead
<1> HIDE DEF i, head
<1>6. /\ SameButLinks(H, H1, E) /\ H1.glob = H.glob
      /\ \A b \in E : Rd(H1, b) = Rd(H, b) /\ Rd(H1, b + 8) = IF b = p THEN NULL ELSE Rd(H, b + 8)
  BY <1>1, <1>2, <1>3, SetPrev
<1>7. IsHeap(H1)
  BY <1>6 DEF SameButLinks, SameSize
<1> HIDE DEF H1
<1>8. SameButLinks(H1, top, E) /\ top.glob = [H.glob EXCEPT ![i] = p] /\ \A x : Rd(top, x) = Rd(H1, x)
  <2>1. top = WithHead(H1, i, p)
    OBVIOUS
  <2> HIDE DEF top, E
  <2>2. SameButLinks(H1, top, E) /\ top.glob = [H1.glob EXCEPT ![i] = p] /\ \A x : Rd(top, x) = Rd(H1, x)
    BY <1>2, <1>3, <1>7, <2>1, SetHead
  <2> QED BY <1>6, <2>2
<1>9. SameButLinks(H, top, E) /\ IsHeap(top)
  BY <1>6, <1>8, LinksTwice DEF SameButLinks, SameSize
<1> HIDE DEF top
<1>10. /\ SameButLinks(H, H2, E) /\ H2.glob = top.glob
       /\ \A b \in E : Rd(H2, b) = Rd(top, b)
       /\ \A b \in E : Rd(H2, b + 8) = IF b = head /\ head # NULL THEN p ELSE Rd(top, b + 8)
  <2>1. CASE head = NULL
    BY <1>9, <2>1
  <2>2. CASE head # NULL
    <3>1. /\ SameButLinks(top, H2, E) /\ H2.glob = top.glob
          /\ \A b \in E : Rd(H2, b) = Rd(top, b)
          /\ \A b \in E : Rd(H2, b + 8) = IF b = head THEN p ELSE Rd(top, b + 8)
      <4>1. head \in E
        BY <1>4, <2>2
      <4> QED BY <1>3, <1>9, <2>2, <4>1, SetPrev
    <3> QED BY <1>9, <2>2, <3>1, LinksTwice
  <2> QED BY <2>1, <2>2
<1>11. IsHeap(H2)
  BY <1>10 DEF SameButLinks, SameSize
<1> HIDE DEF H2
<1>12. /\ SameButLinks(H2, G, E) /\ G.glob = H2.glob
       /\ \A b \in E : Rd(G, b) = (IF b = p THEN head ELSE Rd(H2, b)) /\ Rd(G, b + 8) = Rd(H2, b + 8)
  BY <1>2, <1>3, <1>11, SetNext
<1>13. SameButLinks(H, G, E) /\ IsHeap(G)
  BY <1>10, <1>12, LinksTwice DEF SameButLinks, SameSize
<1> HIDE DEF G
<1>14. \E r2 \in Ranks : Linked(E, S, Nexts(G, E), Prevs(G, E), G.glob, r2)
  <2> DEFINE nx == Nexts(H, F)
             pv == Prevs(H, F)
             nx2 == Nexts(G, E)
             pv2 == Prevs(G, E)
             gl == H.glob
             gl2 == G.glob
  <2>1. /\ nx \in [F -> Int] /\ pv \in [F -> Int] /\ gl \in [Lists -> Int]
        /\ \A b \in F : nx[b] = Rd(H, b) /\ pv[b] = Rd(H, b + 8)
    BY <1>1, ReadInt DEF Nexts, Prevs
  <2>2. /\ nx2 \in [E -> Int] /\ pv2 \in [E -> Int]
        /\ \A b \in E : nx2[b] = Rd(G, b) /\ pv2[b] = Rd(G, b + 8)
    BY <1>13, ReadInt DEF Nexts, Prevs
  <2>3. gl2 \in [Lists -> Int] /\ \A j \in Lists : gl2[j] = IF j = i THEN p ELSE gl[j]
    BY <1>1, <1>2, <1>3, <1>8, <1>10, <1>12
  <2>4. F \subseteq Int \ {NULL}
    BY <1>1, LinkWords
  <2>5. gl[i] = head
    BY DEF head
  <2>6. nx2[p] = gl[i] /\ pv2[p] = NULL
    <3>1. p # head \/ head = NULL
      BY <1>4
    <3>2. /\ nx2[p] = Rd(G, p) /\ Rd(G, p) = head /\ pv2[p] = Rd(G, p + 8) /\ Rd(G, p + 8) = Rd(H2, p + 8)
      BY <1>3, <1>12, <2>2
    <3>3. Rd(H2, p + 8) = Rd(top, p + 8)
      BY <1>3, <1>10, <3>1
    <3>4. Rd(top, p + 8) = NULL
      BY <1>3, <1>6, <1>8
    <3> QED BY <2>5, <3>2, <3>3, <3>4
  <2>7. \A b \in F : nx2[b] = nx[b] /\ pv2[b] = IF b = gl[i] THEN p ELSE pv[b]
    <3> SUFFICES ASSUME NEW b \in F PROVE nx2[b] = nx[b] /\ pv2[b] = IF b = gl[i] THEN p ELSE pv[b]
      OBVIOUS
    <3>1. b \in E /\ b # p /\ b # NULL
      BY <2>4
    <3>2. nx2[b] = nx[b]
      <4>1. nx2[b] = Rd(G, b) /\ Rd(G, b) = Rd(H2, b) /\ nx[b] = Rd(H, b)
        BY <1>12, <2>1, <2>2, <3>1
      <4>2. Rd(H2, b) = Rd(top, b) /\ Rd(top, b) = Rd(H1, b) /\ Rd(H1, b) = Rd(H, b)
        BY <1>6, <1>8, <1>10, <3>1
      <4> QED BY <4>1, <4>2
    <3>3. /\ pv2[b] = Rd(H2, b + 8)
          /\ Rd(H2, b + 8) = IF b = head THEN p ELSE Rd(top, b + 8)
          /\ Rd(top, b + 8) = Rd(H, b + 8) /\ pv[b] = Rd(H, b + 8)
      <4>1. pv2[b] = Rd(G, b + 8) /\ Rd(G, b + 8) = Rd(H2, b + 8) /\ pv[b] = Rd(H, b + 8)
        BY <1>12, <2>1, <2>2, <3>1
      <4>2. Rd(H2, b + 8) = IF b = head THEN p ELSE Rd(top, b + 8)
        BY <1>10, <3>1
      <4>3. Rd(top, b + 8) = Rd(H1, b + 8) /\ Rd(H1, b + 8) = Rd(H, b + 8)
        BY <1>6, <1>8, <3>1
      <4> QED BY <4>1, <4>2, <4>3
    <3> QED BY <2>5, <3>2, <3>3
  <2> HIDE DEF nx, pv, nx2, pv2, gl, gl2
  <2>8. IsPut(F, nx, pv, gl, p, i, nx2, pv2, gl2)
    BY <2>2, <2>3, <2>6, <2>7 DEF IsPut
  <2>9. Linked(F, S, nx, pv, gl, r)
    BY <1>1 DEF nx, pv, gl
  <2>10. \E r2 \in Ranks : Linked(F \cup {p}, S, nx2, pv2, gl2, r2)
    <3>1. IsPut(F, nx, pv, gl, p, index_of(S[p]), nx2, pv2, gl2)
      BY <2>8 DEF i
    <3> QED BY <1>1, <1>3, <2>4, <2>9, <3>1, PutFirst
  <2> QED BY <2>10 DEF nx2, pv2, gl2
<1> QED BY <1>5, <1>13, <1>14 DEF Chained

-----------------------------------------------------------------------------
(* The blocks.                                                             *)

\* The blocks B of a heap that ends at m, their sizes S (0 at the epilogue), F of them free.
Plan(B, S, F, m) ==
  /\ B \subseteq Eights /\ F \subseteq B /\ m \in Eights \ B /\ S \in [Int -> Int] /\ S[m] = 0
  /\ 16 \in B \cup {m}
  /\ \A b \in B : 16 <= b /\ 24 <= S[b] /\ S[b] \in Eights /\ b + S[b] \in B \cup {m} /\ b + S[b] <= m
  /\ \A b, c \in B : b < c => b + S[b] <= c
  /\ \A c \in B \cup {m} : c = 16 \/ \E b \in B : b + S[b] = c

\* The block before c is free.
AfterFree(S, F, c) == \E b \in F : b + S[b] = c

\* The header of c.
Code(S, F, c) == S[c] + (IF c \in F THEN 0 ELSE 1) + (IF AfterFree(S, F, c) THEN 0 ELSE 2)

\* Every header and every free block's footer say so.
Tags(H, B, S, F, m) ==
  /\ \A c \in B \cup {m} : Rd(H, c - 4) = Code(S, F, c)
  /\ \A b \in F : Rd(H, b + S[b] - 8) = Code(S, F, b)

\* Every header does.
Heads(H, B, S, F, m) == \A c \in B \cup {m} : Rd(H, c - 4) = Code(S, F, c)

\* All of them do, but perhaps the footer of z.
TagsBut(H, B, S, F, m, z) ==
  /\ Heads(H, B, S, F, m)
  /\ \A b \in F \ {z} : Rd(H, b + S[b] - 8) = Code(S, F, b)

\* What a header says.
LEMMA CodeParts ==
  ASSUME NEW B, NEW S, NEW F, NEW m, Plan(B, S, F, m), NEW c \in B \cup {m}
  PROVE  /\ c \in Eights /\ S[c] \in Eights
         /\ SizeOf(Code(S, F, c)) = S[c]
         /\ Code(S, F, c) % 2 = IF c \in F THEN 0 ELSE 1
         /\ (Code(S, F, c) % 4) - (Code(S, F, c) % 2) = IF AfterFree(S, F, c) THEN 0 ELSE 2
<1>1. S[c] \in Eights /\ c \in Eights
  BY DEF Plan, Eights
<1>2. PICK a \in {0, 1} : a = IF c \in F THEN 0 ELSE 1
  OBVIOUS
<1>3. PICK p \in {0, 2} : p = IF AfterFree(S, F, c) THEN 0 ELSE 2
  OBVIOUS
<1>4. Code(S, F, c) = S[c] + a + p
  BY <1>2, <1>3 DEF Code
<1>5. /\ SizeOf(S[c] + a + p) = S[c]
      /\ (S[c] + a + p) % 2 = a
      /\ ((S[c] + a + p) % 4) - ((S[c] + a + p) % 2) = p
  BY <1>1, TagParts
<1> QED BY <1>1, <1>2, <1>3, <1>4, <1>5

\* What the macros read in a header.
LEMMA HeadsRead ==
  ASSUME NEW H, NEW B, NEW S, NEW F, NEW m, Plan(B, S, F, m), Heads(H, B, S, F, m),
         NEW c \in B \cup {m}
  PROVE  /\ c \in Int /\ S[c] \in Int
         /\ GET_SIZE(H, HDRP(c)) = S[c]
         /\ GET_ALLOC(H, HDRP(c)) = IF c \in F THEN 0 ELSE 1
         /\ GET_PREV_ALLOC(H, HDRP(c)) = IF AfterFree(S, F, c) THEN 0 ELSE 2
         /\ NEXT_BLKP(H, c) = c + S[c]
<1>1. Rd(H, HDRP(c)) = Code(S, F, c)
  BY DEF Heads, HDRP, WSIZE
<1>2. c \in Int /\ S[c] \in Int
  BY CodeParts DEF Eights
<1> QED BY <1>1, <1>2, CodeParts DEF GET_SIZE, GET_ALLOC, GET_PREV_ALLOC, NEXT_BLKP

\* So they do when every footer is right.
LEMMA HeadReads ==
  ASSUME NEW H, NEW B, NEW S, NEW F, NEW m, Plan(B, S, F, m), Tags(H, B, S, F, m), NEW c \in B \cup {m}
  PROVE  /\ c \in Int /\ S[c] \in Int
         /\ GET_SIZE(H, HDRP(c)) = S[c]
         /\ GET_ALLOC(H, HDRP(c)) = IF c \in F THEN 0 ELSE 1
         /\ GET_PREV_ALLOC(H, HDRP(c)) = IF AfterFree(S, F, c) THEN 0 ELSE 2
         /\ NEXT_BLKP(H, c) = c + S[c]
<1>1. Heads(H, B, S, F, m)
  BY DEF Tags, Heads
<1> QED BY <1>1, HeadsRead

\* Two blocks with the same end are one.
LEMMA OneEnd ==
  ASSUME NEW B, NEW S, NEW F, NEW m, Plan(B, S, F, m), NEW b \in B, NEW c \in B, b + S[b] = c + S[c]
  PROVE  b = c
<1>1. b \in Int /\ c \in Int /\ S[b] \in Int /\ S[c] \in Int /\ 24 <= S[b] /\ 24 <= S[c]
  BY DEF Plan, Eights
<1>2. (b < c => b + S[b] <= c) /\ (c < b => c + S[c] <= b)
  BY DEF Plan
<1> QED BY <1>1, <1>2

\* What PREV_BLKP finds of a block after a free one.
LEMMA FootReads ==
  ASSUME NEW H, NEW B, NEW S, NEW F, NEW m, Plan(B, S, F, m), NEW z, TagsBut(H, B, S, F, m, z),
         NEW b \in F \ {z}, NEW c, b + S[b] = c
  PROVE  PREV_BLKP(H, c) = b
<1>1. b \in B /\ Rd(H, c - 8) = Code(S, F, b)
  <2>1. b \in B
    BY DEF Plan
  <2>2. Rd(H, b + S[b] - 8) = Code(S, F, b)
    BY DEF TagsBut
  <2>3. b \in Int /\ S[b] \in Int
    BY <2>1 DEF Plan, Eights
  <2> QED BY <2>1, <2>2, <2>3
<1>2. GET_SIZE(H, c - 8) = S[b]
  BY <1>1, CodeParts DEF GET_SIZE
<1>3. b \in Int /\ S[b] \in Int
  BY <1>1 DEF Plan, Eights
<1> QED BY <1>2, <1>3 DEF PREV_BLKP, DSIZE

\* Free blocks have room for links, apart from headers, footers and what is in use.
LEMMA LinksApart ==
  ASSUME NEW B, NEW S, NEW F, NEW m, Plan(B, S, F, m), m <= MaxHeap
  PROVE  /\ Roomy(F)
         /\ \A y \in F : \A c \in B \cup {m} : c - 4 < y \/ y + 16 <= c - 4
         /\ \A y \in F : \A b \in B : b + S[b] - 8 < y \/ y + 16 <= b + S[b] - 8
         /\ \A y \in F : \A a \in B \ F : \A x \in Int :
              a <= x /\ x < a + S[a] - 4 => x < y \/ y + 16 <= x
<1>1. /\ \A b \in B : b \in Int /\ S[b] \in Int /\ 16 <= b /\ 24 <= S[b] /\ b + S[b] <= m
      /\ \A b, c \in B : b < c => b + S[b] <= c
      /\ m \in Int /\ F \subseteq B /\ B \subseteq Eights
  BY DEF Plan, Eights
<1>2. Roomy(F)
  BY <1>1, HeapAssumption DEF Roomy
<1>3. \A y \in F : \A c \in B \cup {m} : c - 4 < y \/ y + 16 <= c - 4
  BY <1>1
<1>4. \A y \in F : \A b \in B : b + S[b] - 8 < y \/ y + 16 <= b + S[b] - 8
  BY <1>1
<1>5. \A y \in F : \A a \in B \ F : \A x \in Int : a <= x /\ x < a + S[a] - 4 => x < y \/ y + 16 <= x
  BY <1>1
<1> QED BY <1>2, <1>3, <1>4, <1>5

\* Changes of links leave the tags alone.
LEMMA TagsButKept ==
  ASSUME NEW H, NEW G, NEW B, NEW S, NEW F, NEW m, Plan(B, S, F, m), m <= MaxHeap,
         NEW E, E \subseteq F, SameButLinks(H, G, E), NEW z, TagsBut(H, B, S, F, m, z)
  PROVE  TagsBut(G, B, S, F, m, z)
<1>1. \A c \in B \cup {m} : Rd(G, c - 4) = Rd(H, c - 4)
  <2> SUFFICES ASSUME NEW c \in B \cup {m} PROVE Rd(G, c - 4) = Rd(H, c - 4)
    OBVIOUS
  <2>1. \A y \in E : c - 4 < y \/ y + 16 <= c - 4
    BY LinksApart
  <2>2. c - 4 \in Int
    BY DEF Plan, Eights
  <2> QED BY <2>1, <2>2 DEF SameButLinks
<1>2. \A b \in F : Rd(G, b + S[b] - 8) = Rd(H, b + S[b] - 8)
  <2> SUFFICES ASSUME NEW b \in F PROVE Rd(G, b + S[b] - 8) = Rd(H, b + S[b] - 8)
    OBVIOUS
  <2>1. \A y \in E : b + S[b] - 8 < y \/ y + 16 <= b + S[b] - 8
    BY LinksApart DEF Plan
  <2>2. b + S[b] - 8 \in Int
    BY DEF Plan, Eights
  <2> QED BY <2>1, <2>2 DEF SameButLinks
<1> QED BY <1>1, <1>2 DEF TagsBut, Heads

\* So it is when every footer is right.
LEMMA TagsKept ==
  ASSUME NEW H, NEW G, NEW B, NEW S, NEW F, NEW m, Plan(B, S, F, m), m <= MaxHeap,
         NEW E, E \subseteq F, SameButLinks(H, G, E), Tags(H, B, S, F, m)
  PROVE  Tags(G, B, S, F, m)
<1>1. m \notin F
  BY DEF Plan
<1>2. TagsBut(H, B, S, F, m, m)
  BY DEF Tags, TagsBut, Heads
<1>3. TagsBut(G, B, S, F, m, m)
  BY <1>2, TagsButKept
<1> QED BY <1>1, <1>3 DEF Tags, TagsBut, Heads

\* The words of the blocks A in use: from the block to the next header.
Kept(H, G, A, S) == \A a \in A : \A x \in Int : a <= x /\ x < a + S[a] - 4 => Rd(G, x) = Rd(H, x)

\* Changes of links leave what is in use alone.
LEMMA DataKept ==
  ASSUME NEW H, NEW G, NEW B, NEW S, NEW F, NEW m, Plan(B, S, F, m), m <= MaxHeap,
         NEW E, E \subseteq F, SameButLinks(H, G, E)
  PROVE  Kept(H, G, B \ F, S)
<1> SUFFICES ASSUME NEW a \in B \ F, NEW x \in Int, a <= x, x < a + S[a] - 4
             PROVE  Rd(G, x) = Rd(H, x)
  BY DEF Kept
<1>1. \A y \in E : x < y \/ y + 16 <= x
  BY LinksApart
<1> QED BY <1>1 DEF SameButLinks

-----------------------------------------------------------------------------
(* Blocks that are joined.                                                 *)

\* The plan B2, S2, F2 of the same heap has, for free blocks around b, one block at b.
Joined(B, S, F, m, b, B2, S2, F2) ==
  /\ Plan(B2, S2, F2, m) /\ b \in F2 /\ B2 \subseteq B /\ F2 \subseteq F /\ B2 \ F2 = B \ F
  /\ \A x \in (B2 \cup {m}) \ {b} : S2[x] = S[x]
  /\ \A x \in B2 \cup {m} : AfterFree(S2, F2, x) <=> AfterFree(S, F, x)

\* A free block swallows the next.
LEMMA JoinNext ==
  ASSUME NEW B, NEW S, NEW F, NEW m, Plan(B, S, F, m), NEW b \in F, NEW c \in F, c = b + S[b],
         NEW S2, S2 = [S EXCEPT ![b] = S[b] + S[c]]
  PROVE  Joined(B, S, F, m, b, B \ {c}, S2, F \ {c})
<1> DEFINE B2 == B \ {c}
           F2 == F \ {c}
<1>1. /\ \A x \in B : x \in Int /\ S[x] \in Int /\ x \in Eights /\ S[x] \in Eights
                      /\ 16 <= x /\ 24 <= S[x] /\ x + S[x] <= m /\ x + S[x] \in B \cup {m}
      /\ \A x, y \in B : x < y => x + S[x] <= y
      /\ m \in Int /\ F \subseteq B /\ B \subseteq Eights /\ m \notin B /\ m \in Eights /\ S[m] = 0
      /\ S \in [Int -> Int] /\ 16 \in B \cup {m}
      /\ \A x \in B \cup {m} : x = 16 \/ \E y \in B : y + S[y] = x
  BY DEF Plan, Eights
<1>2. b \in B /\ c \in B /\ b < c /\ b # c /\ b # m /\ c # 16
  BY <1>1
<1>3. S2 \in [Int -> Int] /\ S2[b] = S[b] + S[c] /\ \A x \in Int : x # b => S2[x] = S[x]
  BY <1>1, <1>2
<1> HIDE DEF B2, F2
<1>4. B2 = B \ {c} /\ F2 = F \ {c} /\ b \in F2 /\ b \in B2 /\ B2 \subseteq B /\ F2 \subseteq B2
  BY <1>1, <1>2 DEF B2, F2
<1>5. b + S2[b] = c + S[c]
  BY <1>1, <1>2, <1>3
<1>6. \A x \in B2 : x # b => S2[x] = S[x] /\ x + S[x] # c
  <2> SUFFICES ASSUME NEW x \in B2, x # b PROVE S2[x] = S[x] /\ x + S[x] # c
    OBVIOUS
  <2>1. x \in B /\ x \in Int /\ S2[x] = S[x]
    BY <1>1, <1>3, <1>4
  <2> QED BY <1>2, <2>1, OneEnd
<1>7. \A x \in B2 : /\ 16 <= x /\ 24 <= S2[x] /\ S2[x] \in Eights
                    /\ x + S2[x] \in B2 \cup {m} /\ x + S2[x] <= m
  <2> SUFFICES ASSUME NEW x \in B2
               PROVE  /\ 16 <= x /\ 24 <= S2[x] /\ S2[x] \in Eights
                      /\ x + S2[x] \in B2 \cup {m} /\ x + S2[x] <= m
    OBVIOUS
  <2>1. CASE x = b
    <3>1. S[b] + S[c] \in Eights /\ 24 <= S[b] + S[c] /\ 16 <= b
      <4>1. S[b] \in Eights /\ S[c] \in Eights /\ S[b] \in Int /\ S[c] \in Int
            /\ 24 <= S[b] /\ 24 <= S[c] /\ 16 <= b
        BY <1>1, <1>2
      <4> QED BY <4>1, EightsSum
    <3>2. c + S[c] \in B \cup {m} /\ c + S[c] # c /\ c + S[c] <= m
      BY <1>1, <1>2
    <3> QED BY <1>3, <1>4, <1>5, <2>1, <3>1, <3>2
  <2>2. CASE x # b
    BY <1>1, <1>4, <1>6, <2>2
  <2> QED BY <2>1, <2>2
<1>8. \A x, y \in B2 : x < y => x + S2[x] <= y
  <2> SUFFICES ASSUME NEW x \in B2, NEW y \in B2, x < y PROVE x + S2[x] <= y
    OBVIOUS
  <2>1. x \in B /\ y \in B /\ y # c /\ x + S[x] <= y /\ x \in Int /\ y \in Int
    BY <1>1, <1>4
  <2>2. CASE x = b
    <3>1. c <= y
      BY <1>1, <2>1, <2>2
    <3>2. c + S[c] <= y
      BY <1>1, <1>2, <2>1, <3>1
    <3> QED BY <1>5, <2>2, <3>2
  <2>3. CASE x # b
    BY <1>6, <2>1, <2>3
  <2> QED BY <2>2, <2>3
<1>9. \A x \in B2 \cup {m} : x = 16 \/ \E y \in B2 : y + S2[y] = x
  <2> SUFFICES ASSUME NEW x \in B2 \cup {m}, x # 16 PROVE \E y \in B2 : y + S2[y] = x
    OBVIOUS
  <2>1. PICK y \in B : y + S[y] = x
    BY <1>1, <1>4
  <2>2. CASE y = c
    BY <1>4, <1>5, <2>1, <2>2
  <2>3. CASE y # c
    <3>1. x # c
      BY <1>1, <1>2, <1>4
    <3>2. y # b
      BY <2>1, <3>1
    <3> QED BY <1>4, <1>6, <2>1, <2>3, <3>2
  <2> QED BY <2>2, <2>3
<1>10. Plan(B2, S2, F2, m)
  <2>1. B2 \subseteq Eights /\ F2 \subseteq B2 /\ m \in Eights \ B2 /\ S2 \in [Int -> Int]
        /\ S2[m] = 0 /\ 16 \in B2 \cup {m}
    BY <1>1, <1>2, <1>3, <1>4
  <2> QED BY <1>7, <1>8, <1>9, <2>1 DEF Plan
<1>11. \A x \in B2 \cup {m} : AfterFree(S2, F2, x) <=> AfterFree(S, F, x)
  <2> SUFFICES ASSUME NEW x \in B2 \cup {m}
               PROVE (\E y \in F2 : y + S2[y] = x) <=> (\E y \in F : y + S[y] = x)
    BY DEF AfterFree
  <2>0. x # c
    BY <1>1, <1>2, <1>4
  <2>1. ASSUME NEW y \in F2, y + S2[y] = x PROVE \E z \in F : z + S[z] = x
    <3>1. CASE y = b
      BY <1>5, <2>1, <3>1
    <3>2. CASE y # b
      BY <1>4, <1>6, <2>1, <3>2
    <3> QED BY <3>1, <3>2
  <2>2. ASSUME NEW y \in F, y + S[y] = x PROVE \E z \in F2 : z + S2[z] = x
    <3>1. CASE y = c
      BY <1>4, <1>5, <2>2, <3>1
    <3>2. CASE y # c
      <4>1. y # b
        BY <2>0, <2>2
      <4> QED BY <1>1, <1>4, <1>6, <2>2, <3>2, <4>1
    <3> QED BY <3>1, <3>2
  <2> QED BY <2>1, <2>2
<1>12. B2 \ F2 = B \ F
  BY <1>4
<1>13. \A x \in (B2 \cup {m}) \ {b} : S2[x] = S[x]
  BY <1>1, <1>3, <1>4
<1> QED BY <1>4, <1>10, <1>11, <1>12, <1>13 DEF Joined

\* Joining twice at a block.
LEMMA JoinTwice ==
  ASSUME NEW B, NEW S, NEW F, NEW m, NEW b, NEW B2, NEW S2, NEW F2, NEW B3, NEW S3, NEW F3,
         Joined(B, S, F, m, b, B2, S2, F2), Joined(B2, S2, F2, m, b, B3, S3, F3)
  PROVE  Joined(B, S, F, m, b, B3, S3, F3)
<1>1. /\ Plan(B3, S3, F3, m) /\ b \in F3 /\ B3 \subseteq B2 /\ F3 \subseteq F2 /\ B3 \ F3 = B2 \ F2
      /\ \A x \in (B3 \cup {m}) \ {b} : S3[x] = S2[x]
      /\ \A x \in B3 \cup {m} : AfterFree(S3, F3, x) <=> AfterFree(S2, F2, x)
  BY DEF Joined
<1>2. /\ B2 \subseteq B /\ F2 \subseteq F /\ B2 \ F2 = B \ F
      /\ \A x \in (B2 \cup {m}) \ {b} : S2[x] = S[x]
      /\ \A x \in B2 \cup {m} : AfterFree(S2, F2, x) <=> AfterFree(S, F, x)
  BY DEF Joined
<1>3. \A x \in (B3 \cup {m}) \ {b} : S3[x] = S[x]
  BY <1>1, <1>2
<1>4. \A x \in B3 \cup {m} : AfterFree(S3, F3, x) <=> AfterFree(S, F, x)
  BY <1>1, <1>2
<1> QED BY <1>1, <1>2, <1>3, <1>4 DEF Joined

\* What Tag does.
LEMMA TagIs ==
  ASSUME NEW H, IsHeap(H), NEW b \in Eights, NEW s \in Eights, NEW w \in Int, SizeOf(w) = s,
         4 <= b, 8 <= s, b + s <= MaxHeap
  PROVE  /\ SameSize(H, Tag(H, b, w)) /\ Tag(H, b, w).glob = H.glob
         /\ \A x : Rd(Tag(H, b, w), x) = IF x = b - 4 \/ x = b + s - 8 THEN w ELSE Rd(H, x)
<1> DEFINE G == Wr(H, HDRP(b), w)
           K == Wr(G, b + SizeOf(w) - DSIZE, w)
<1>1. b - 4 \in Word /\ b + s - 8 \in Word
  <2>1. /\ b - 4 \in Int /\ (b - 4) % 4 = 0 /\ 0 <= b - 4 /\ (b - 4) + 4 <= MaxHeap
        /\ b + s - 8 \in Int /\ (b + s - 8) % 4 = 0 /\ 0 <= b + s - 8 /\ (b + s - 8) + 4 <= MaxHeap
    BY HeapAssumption DEF Eights
  <2> QED BY <2>1, WordAt
<1>2. PICK h \in Word : h = b - 4
  BY <1>1
<1>3. PICK f \in Word : f = b + s - 8
  BY <1>1
<1>4. G = Wr(H, h, w) /\ K = Wr(G, f, w) /\ K = Tag(H, b, w)
  BY <1>2, <1>3 DEF HDRP, WSIZE, DSIZE, Tag
<1> HIDE DEF G, K
<1>5. SameSize(H, G) /\ G.glob = H.glob /\ \A x : Rd(G, x) = IF x = h THEN w ELSE Rd(H, x)
  BY <1>2, <1>4, WriteIs
<1>6. IsHeap(G)
  BY <1>5 DEF SameSize
<1>7. SameSize(G, K) /\ K.glob = G.glob /\ \A x : Rd(K, x) = IF x = f THEN w ELSE Rd(G, x)
  BY <1>3, <1>4, <1>6, WriteIs
<1>8. SameSize(H, K) /\ K.glob = H.glob
  BY <1>5, <1>7 DEF SameSize
<1>9. \A x : Rd(K, x) = IF x = h \/ x = f THEN w ELSE Rd(H, x)
  BY <1>5, <1>7
<1> QED BY <1>2, <1>3, <1>4, <1>8, <1>9

\* Lists whose links and sizes are the same.
LEMMA ChainedSame ==
  ASSUME NEW H, NEW F, NEW S, NEW r, Chained(H, F, S, r), NEW G, IsHeap(G), G.glob = H.glob,
         \A b \in F : Rd(G, b) = Rd(H, b) /\ Rd(G, b + 8) = Rd(H, b + 8),
         NEW S2, \A b \in F : S2[b] = S[b]
  PROVE  Chained(G, F, S2, r)
<1>1. Nexts(G, F) = Nexts(H, F) /\ Prevs(G, F) = Prevs(H, F)
  BY DEF Nexts, Prevs
<1> DEFINE nx == Nexts(H, F)
           pv == Prevs(H, F)
           gl == H.glob
<1>2. Linked(F, S, nx, pv, gl, r)
  BY DEF Chained
<1> HIDE DEF nx, pv, gl
<1>3. Linked(F, S2, nx, pv, gl, r)
  BY <1>2 DEF Linked
<1> QED BY <1>1, <1>3 DEF Chained, nx, pv, gl

\* No two free blocks are neighbours.
NoTwins(S, F) == \A b \in F : b + S[b] \notin F

\* The heap H: its blocks, their tags and its lists agree.
Shape(H, B, S, F, r) ==
  /\ Chained(H, F, S, r) /\ Plan(B, S, F, H.brk) /\ Tags(H, B, S, F, H.brk) /\ H.brk <= MaxHeap

\* They do, but perhaps the footer of z.
ShapeBut(H, B, S, F, r, z) ==
  /\ Chained(H, F, S, r) /\ Plan(B, S, F, H.brk) /\ TagsBut(H, B, S, F, H.brk, z) /\ H.brk <= MaxHeap

\* What the blocks A in use hold, and their sizes, are in G and S2 as in H and S.
Steady(H, S, G, S2, A) == Kept(H, G, A, S) /\ \A a \in A : S2[a] = S[a]

\* One step after another.
LEMMA SteadyTwice ==
  ASSUME NEW H, NEW S, NEW G, NEW S2, NEW K, NEW S3, NEW A, Steady(H, S, G, S2, A), Steady(G, S2, K, S3, A)
  PROVE  Steady(H, S, K, S3, A)
<1>1. \A a \in A : S3[a] = S[a] /\ S2[a] = S[a]
  BY DEF Steady
<1>2. ASSUME NEW a \in A, NEW x \in Int, a <= x, x < a + S[a] - 4 PROVE Rd(K, x) = Rd(H, x)
  <2>1. Rd(G, x) = Rd(H, x)
    BY <1>2 DEF Steady, Kept
  <2>2. x < a + S2[a] - 4
    BY <1>1, <1>2
  <2>3. Rd(K, x) = Rd(G, x)
    BY <1>2, <2>2 DEF Steady, Kept
  <2> QED BY <2>1, <2>3
<1> QED BY <1>1, <1>2 DEF Steady, Kept

\* A block at f of size s, which no list holds, is tagged and put on its list.
MakeFree(K, f, s) == insert_list(Tag(K, f, PACK(s, GET_PREV_ALLOC(K, HDRP(f)))), f, s)

\* From H to G, the free blocks have become others, those in use are the same.
FreeChanged(H, B, S, F, G, B2, S2, F2) ==
  /\ \E r2 \in Ranks : Shape(G, B2, S2, F2, r2)
  /\ H.brk <= G.brk /\ G.fault = H.fault
  /\ Steady(H, S, G, S2, B \ F) /\ B2 \ F2 = B \ F

\* Blocks E that have left the lists become one at f, with its tags, which is put on its list.
LEMMA MergeIs ==
  ASSUME NEW H, NEW B, NEW S, NEW F, NEW r, NEW z, ShapeBut(H, B, S, F, r, z),
         NEW B2, NEW S2, NEW F2, NEW f, Joined(B, S, F, H.brk, f, B2, S2, F2),
         NEW K, Chained(K, F2 \ {f}, S, r), SameButLinks(H, K, F), z \notin F2 \ {f}
  PROVE  FreeChanged(H, B, S, F, MakeFree(K, f, S2[f]), B2, S2, F2)
<1> DEFINE m == H.brk
           w == PACK(S2[f], GET_PREV_ALLOC(K, HDRP(f)))
           G == insert_list(Tag(K, f, w), f, S2[f])
           T == Tag(K, f, w)
           E == F2 \ {f}
           last == f + S2[f] - 8
<1>1. /\ Chained(H, F, S, r) /\ Plan(B, S, F, m) /\ TagsBut(H, B, S, F, m, z) /\ m <= MaxHeap
      /\ IsHeap(K) /\ K.brk = m /\ SameSize(H, K)
  BY DEF ShapeBut, SameButLinks, SameSize
<1>2. /\ Plan(B2, S2, F2, m) /\ f \in F2 /\ B2 \subseteq B /\ F2 \subseteq F /\ B2 \ F2 = B \ F
      /\ \A x \in (B2 \cup {m}) \ {f} : S2[x] = S[x]
      /\ \A x \in B2 \cup {m} : AfterFree(S2, F2, x) <=> AfterFree(S, F, x)
  BY DEF Joined
<1>0. G = MakeFree(K, f, S2[f])
  BY DEF MakeFree
<1> HIDE DEF m, w, G
<1>3. /\ f \in B2 /\ f \in B /\ f \in Eights /\ S2[f] \in Eights /\ 16 <= f /\ 24 <= S2[f] /\ f + S2[f] <= m
      /\ F2 \subseteq B2 /\ F \subseteq B
      /\ m \notin B2 /\ m \in Eights
      /\ \A x \in B2 : x \in Int /\ S2[x] \in Int /\ x \in Eights /\ S2[x] \in Eights /\ 24 <= S2[x] /\ 16 <= x
      /\ \A x, y \in B2 : x < y => x + S2[x] <= y
  <2>1. f \in B2 /\ F2 \subseteq B2 /\ F \subseteq B /\ m \notin B2 /\ m \in Eights
    BY <1>1, <1>2 DEF Plan
  <2>2. /\ \A x \in B2 : x \in Int /\ S2[x] \in Int /\ x \in Eights /\ S2[x] \in Eights
                          /\ 24 <= S2[x] /\ 16 <= x /\ x + S2[x] <= m
        /\ \A x, y \in B2 : x < y => x + S2[x] <= y
    BY <1>2 DEF Plan, Eights
  <2> QED BY <1>2, <2>1, <2>2
<1>4. TagsBut(K, B, S, F, m, z) /\ Heads(K, B, S, F, m)
  <2>1. TagsBut(K, B, S, F, m, z)
    BY <1>1, TagsButKept
  <2> QED BY <2>1 DEF TagsBut
<1>5. GET_PREV_ALLOC(K, HDRP(f)) = IF AfterFree(S, F, f) THEN 0 ELSE 2
  BY <1>1, <1>3, <1>4, HeadsRead
<1>6. w = Code(S2, F2, f)
  <2>1. Code(S2, F2, f) = S2[f] + 0 + (IF AfterFree(S2, F2, f) THEN 0 ELSE 2)
    BY <1>2 DEF Code
  <2>2. w = S2[f] + (IF AfterFree(S2, F2, f) THEN 0 ELSE 2)
    BY <1>2, <1>3, <1>5 DEF PACK, w
  <2>3. S2[f] \in Int
    BY <1>3
  <2> QED BY <2>1, <2>2, <2>3
<1>7. SizeOf(w) = S2[f] /\ w \in Int
  <2>1. SizeOf(w) = S2[f]
    BY <1>2, <1>3, <1>6, CodeParts
  <2>2. S2[f] \in Int
    BY <1>3
  <2>3. w \in Int
    BY <1>6, <2>2 DEF Code
  <2> QED BY <2>1, <2>3
<1>8. /\ SameSize(K, T) /\ T.glob = K.glob
      /\ \A x : Rd(T, x) = IF x = f - 4 \/ x = last THEN w ELSE Rd(K, x)
  <2>1. 4 <= f /\ 8 <= S2[f] /\ f + S2[f] <= MaxHeap /\ S2[f] \in Int /\ f \in Int /\ m \in Int
    BY <1>1, <1>3, HeapAssumption DEF Eights
  <2> QED BY <1>1, <1>3, <1>7, <2>1, TagIs
<1> HIDE DEF T
<1>9. IsHeap(T)
  BY <1>8 DEF SameSize
<1>10. /\ Roomy(F2)
       /\ \A y \in F2 : \A c \in B2 \cup {m} : c - 4 < y \/ y + 16 <= c - 4
       /\ \A y \in F2 : \A b \in B2 : b + S2[b] - 8 < y \/ y + 16 <= b + S2[b] - 8
  BY <1>1, <1>2, LinksApart
<1>11. Chained(T, E, S2, r)
  <2>1. \A b \in E : Rd(T, b) = Rd(K, b) /\ Rd(T, b + 8) = Rd(K, b + 8)
    <3> SUFFICES ASSUME NEW b \in E PROVE Rd(T, b) = Rd(K, b) /\ Rd(T, b + 8) = Rd(K, b + 8)
      OBVIOUS
    <3>1. b \in Int /\ b \in F2 /\ (f - 4 < b \/ b + 16 <= f - 4) /\ (last < b \/ b + 16 <= last)
          /\ f \in Int /\ last \in Int
      BY <1>3, <1>10
    <3>2. b # f - 4 /\ b # last /\ b + 8 # f - 4 /\ b + 8 # last
      BY ONLY <3>1
    <3> QED BY <1>8, <3>2
  <2>2. \A b \in E : S2[b] = S[b]
    BY <1>2, <1>3
  <2> QED BY <1>8, <1>9, <2>1, <2>2, ChainedSame
<1>12. /\ \E r2 \in Ranks : Chained(G, F2, S2, r2)
       /\ SameButLinks(T, G, F2)
  <2>1. E \cup {f} = F2 /\ f \notin E
    BY <1>2
  <2>2. Roomy(E \cup {f})
    BY <1>10, <2>1
  <2>3. G = insert_list(T, f, S2[f])
    BY DEF T, G
  <2> HIDE DEF E
  <2> QED BY <1>11, <2>1, <2>2, <2>3, InsertIs
<1>13. SameSize(H, G) /\ G.brk = m
  <2>1. SameSize(T, G)
    BY <1>12 DEF SameButLinks
  <2> QED BY <1>1, <1>8, <2>1 DEF SameSize
<1>14. Tags(T, B2, S2, F2, m)
  <2>1. ASSUME NEW c \in B2 \cup {m} PROVE Rd(T, c - 4) = Code(S2, F2, c)
    <3>1. CASE c = f
      BY <1>6, <1>8, <3>1
    <3>2. CASE c # f
      <4>1. c \in Eights /\ f \in Eights /\ S2[f] \in Eights
        BY <1>3
      <4>2. c - 4 # f - 4 /\ c - 4 # last
        BY <3>2, <4>1, TagsDiffer
      <4>3. Rd(T, c - 4) = Rd(K, c - 4)
        BY <1>8, <4>2
      <4>4. Rd(K, c - 4) = Code(S, F, c)
        BY <1>2, <1>4 DEF Heads
      <4>5. Code(S2, F2, c) = Code(S, F, c)
        <5>1. c \in F2 <=> c \in F
          BY <1>2, <1>3, <1>1 DEF Plan
        <5>2. S2[c] = S[c] /\ (AfterFree(S2, F2, c) <=> AfterFree(S, F, c))
          BY <1>2, <3>2
        <5> QED BY <5>1, <5>2 DEF Code
      <4> QED BY <4>3, <4>4, <4>5
    <3> QED BY <3>1, <3>2
  <2>2. ASSUME NEW b \in F2 PROVE Rd(T, b + S2[b] - 8) = Code(S2, F2, b)
    <3>1. CASE b = f
      BY <1>6, <1>8, <3>1
    <3>2. CASE b # f
      <4>1. b \in B2 /\ b \in B /\ S2[b] = S[b] /\ b \in F \ {z}
        BY <1>2, <1>3, <3>2
      <4>2. b + S2[b] # f + S2[f]
        BY <1>2, <1>3, <3>2, <4>1, OneEnd
      <4>3. f \in Eights /\ b \in Eights /\ S2[b] \in Eights /\ S2[f] \in Eights
        BY <1>3, <4>1
      <4>4. b + S2[b] - 8 # f - 4 /\ b + S2[b] - 8 # last
        BY <4>2, <4>3, TagsDiffer
      <4>5. Rd(T, b + S2[b] - 8) = Rd(K, b + S2[b] - 8)
        BY <1>8, <4>4
      <4>6. Rd(K, b + S[b] - 8) = Code(S, F, b)
        BY <1>4, <4>1 DEF TagsBut
      <4>7. Code(S2, F2, b) = Code(S, F, b)
        <5>1. AfterFree(S2, F2, b) <=> AfterFree(S, F, b)
          BY <1>2, <4>1
        <5> QED BY <4>1, <5>1 DEF Code
      <4> QED BY <4>1, <4>5, <4>6, <4>7
    <3> QED BY <3>1, <3>2
  <2> QED BY <2>1, <2>2 DEF Tags
<1>15. Tags(G, B2, S2, F2, m)
  BY <1>1, <1>2, <1>12, <1>14, TagsKept
<1>16. Steady(H, S, G, S2, B \ F)
  <2>1. \A a \in B \ F : a \in B2 \ F2 /\ S2[a] = S[a]
    BY <1>2, <1>3
  <2>2. Steady(H, S, K, S2, B \ F)
    <3>1. Kept(H, K, B \ F, S)
      BY <1>1, DataKept
    <3> QED BY <2>1, <3>1 DEF Steady
  <2>3. Steady(K, S2, T, S2, B \ F)
    <3> SUFFICES ASSUME NEW a \in B \ F, NEW x \in Int, a <= x, x < a + S2[a] - 4 PROVE Rd(T, x) = Rd(K, x)
      BY DEF Steady, Kept
    <3>1. a \in B2 /\ a # f /\ a \in Int /\ S2[a] \in Int /\ f \in Int /\ S2[f] \in Int /\ 24 <= S2[f] /\ 24 <= S2[a]
          /\ (a < f => a + S2[a] <= f) /\ (f < a => f + S2[f] <= a)
      BY <1>2, <1>3, <2>1
    <3>2. x # f - 4 /\ x # last
      BY <3>1
    <3> QED BY <1>8, <3>2
  <2>4. Steady(T, S2, G, S2, B \ F)
    BY <1>1, <1>2, <1>12, DataKept DEF Steady
  <2>5. Steady(K, S2, G, S2, B \ F)
    BY <2>3, <2>4, SteadyTwice
  <2> QED BY <2>2, <2>5, SteadyTwice
<1>17. H.brk <= G.brk /\ G.fault = H.fault
  BY <1>1, <1>3, <1>13 DEF SameSize, m, Eights
<1>18. \E r2 \in Ranks : Shape(G, B2, S2, F2, r2)
  BY <1>1, <1>2, <1>12, <1>13, <1>15 DEF Shape
<1> QED BY <1>0, <1>2, <1>16, <1>17, <1>18 DEF FreeChanged

-----------------------------------------------------------------------------
(* coalesce.                                                               *)

\* If all tags agree then all but one do.
LEMMA ShapeNear ==
  ASSUME NEW H, NEW B, NEW S, NEW F, NEW r, Shape(H, B, S, F, r)
  PROVE  \A z : ShapeBut(H, B, S, F, r, z)
BY DEF Shape, ShapeBut, Tags, TagsBut, Heads

\* A block leaves its list, after others.
LEMMA Unlisted ==
  ASSUME NEW H, NEW B, NEW S, NEW F, NEW r, NEW z, ShapeBut(H, B, S, F, r, z),
         NEW K, NEW E, E \subseteq F, Chained(K, E, S, r), SameButLinks(H, K, F), NEW p \in E
  PROVE  /\ Chained(remove_list(K, p), E \ {p}, S, r)
         /\ SameButLinks(H, remove_list(K, p), F)
<1>1. /\ Plan(B, S, F, H.brk) /\ TagsBut(H, B, S, F, H.brk, z) /\ H.brk <= MaxHeap
  BY DEF ShapeBut
<1>2. Heads(K, B, S, F, H.brk)
  BY <1>1, TagsButKept DEF TagsBut
<1>3. GET_SIZE(K, HDRP(p)) = S[p]
  <2>1. p \in B \cup {H.brk}
    BY <1>1 DEF Plan
  <2> QED BY <1>1, <1>2, <2>1, HeadsRead
<1>4. /\ Chained(remove_list(K, p), E \ {p}, S, r)
      /\ SameButLinks(K, remove_list(K, p), E)
  BY <1>3, RemoveIs
<1>5. SameButLinks(K, remove_list(K, p), F)
  BY <1>4 DEF SameButLinks
<1> QED BY <1>4, <1>5, LinksTwice

\* A free block in the blocks' plan.
InPlan(B, S, F, m, x) == x \in F /\ x \in B /\ x \in Int /\ S[x] \in Int /\ x + S[x] \in B \cup {m}

\* What coalesce leaves: no neighbours, and at p a free block of size n or more.
IsMerged(H, B, S, F, G, p, n) ==
  \E B2, S2, F2 :
    FreeChanged(H, B, S, F, G, B2, S2, F2) /\ NoTwins(S2, F2) /\ p \in F2 /\ n <= S2[p]

\* What coalesce does with a block that is free, the only one that may have free neighbours.
LEMMA CoalesceIs ==
  ASSUME NEW H, NEW B, NEW S, NEW F, NEW r, NEW b \in F,
         ShapeBut(H, B, S, F, r, b + S[b]),
         \A x \in F : x + S[x] \in F => x = b \/ x + S[x] = b
  PROVE  IsMerged(H, B, S, F, coalesce(H, b).h, coalesce(H, b).p, S[b])
<1> DEFINE m == H.brk
           prevFree == GET_PREV_ALLOC(H, HDRP(b)) = 0
           next == NEXT_BLKP(H, b)
           nextFree == GET_ALLOC(H, HDRP(next)) = 0
           first == IF prevFree THEN PREV_BLKP(H, b) ELSE b
           size == GET_SIZE(H, HDRP(b)) + (IF prevFree THEN GET_SIZE(H, HDRP(first)) ELSE 0)
                     + (IF nextFree THEN GET_SIZE(H, HDRP(next)) ELSE 0)
           H1 == remove_list(H, b)
           H2 == IF prevFree THEN remove_list(H1, first) ELSE H1
           H3 == IF nextFree THEN remove_list(H2, next) ELSE H2
           G == MakeFree(H3, first, size)
<1>1. coalesce(H, b) = IF ~prevFree /\ ~nextFree THEN Result(H, b) ELSE Result(G, first)
  BY DEF coalesce, MakeFree
<1>2. /\ Chained(H, F, S, r) /\ Plan(B, S, F, m) /\ TagsBut(H, B, S, F, m, b + S[b]) /\ m <= MaxHeap /\ IsHeap(H)
      /\ Heads(H, B, S, F, m)
  BY DEF ShapeBut, TagsBut, Chained
<1> HIDE DEF m
<1>3. /\ \A x \in B : x \in Int /\ S[x] \in Int /\ 24 <= S[x] /\ 16 <= x /\ x + S[x] \in B \cup {m}
      /\ F \subseteq B /\ b \in B /\ m \notin B /\ S[m] = 0 /\ m \in Int /\ S \in [Int -> Int]
  BY <1>2 DEF Plan, Eights
<1>4. GET_SIZE(H, HDRP(b)) = S[b] /\ next = b + S[b] /\ (prevFree <=> AfterFree(S, F, b))
  <2>1. b \in B \cup {m}
    BY <1>3
  <2>2. /\ GET_SIZE(H, HDRP(b)) = S[b]
        /\ GET_PREV_ALLOC(H, HDRP(b)) = IF AfterFree(S, F, b) THEN 0 ELSE 2
        /\ NEXT_BLKP(H, b) = b + S[b]
    BY <1>2, <2>1, HeadsRead
  <2> QED BY <2>2
<1>5. nextFree <=> next \in F
  <2>1. next \in B \cup {m}
    BY <1>3, <1>4
  <2>2. GET_ALLOC(H, HDRP(next)) = IF next \in F THEN 0 ELSE 1
    BY <1>2, <2>1, HeadsRead
  <2> QED BY <2>2
<1>6. prevFree => first \in F /\ first + S[first] = b /\ GET_SIZE(H, HDRP(first)) = S[first]
  <2> SUFFICES ASSUME prevFree
               PROVE  first \in F /\ first + S[first] = b /\ GET_SIZE(H, HDRP(first)) = S[first]
    OBVIOUS
  <2>1. PICK y \in F : y + S[y] = b
    BY <1>4 DEF AfterFree
  <2>2. first = y
    <3>1. y \in F \ {b + S[b]}
      BY <1>3, <2>1
    <3>2. PREV_BLKP(H, b) = y
      BY <1>2, <2>1, <3>1, FootReads
    <3> QED BY <3>2
  <2>3. y \in B \cup {m}
    BY <1>3
  <2>4. GET_SIZE(H, HDRP(y)) = S[y]
    BY <1>2, <2>3, HeadsRead
  <2> QED BY <2>1, <2>2, <2>4
<1>7. nextFree => GET_SIZE(H, HDRP(next)) = S[next]
  BY <1>2, <1>3, <1>4, HeadsRead
<1>8. ~prevFree => first = b
  OBVIOUS
<1>9. /\ size = S[b] + (IF prevFree THEN S[first] ELSE 0) + (IF nextFree THEN S[next] ELSE 0)
  BY <1>4, <1>6, <1>7
<1>10. SameButLinks(H, H, F)
  BY <1>2 DEF SameButLinks, SameSize
<1>11. Chained(H1, F \ {b}, S, r) /\ SameButLinks(H, H1, F)
  BY <1>2, <1>10, Unlisted
<1> HIDE DEF prevFree, next, nextFree, first, size, H1
<1>12. CASE ~prevFree /\ ~nextFree
  <2>1. coalesce(H, b).h = H /\ coalesce(H, b).p = b
    BY <1>1, <1>12 DEF Result
  <2>2. NoTwins(S, F)
    <3> SUFFICES ASSUME NEW x \in F, x + S[x] \in F PROVE FALSE
      BY DEF NoTwins
    <3>1. CASE x = b
      BY <1>4, <1>5, <1>12, <3>1
    <3>2. CASE x # b
      BY <1>4, <1>12, <3>2 DEF AfterFree
    <3> QED BY <3>1, <3>2
  <2>3. Steady(H, S, H, S, B \ F) /\ H.brk <= H.brk
    BY <1>2 DEF Steady, Kept, IsHeap
  <2>4. FreeChanged(H, B, S, F, H, B, S, F)
    <3>1. b + S[b] \notin F
      BY <1>4, <1>5, <1>12
    <3>2. Tags(H, B, S, F, m)
      BY <1>2, <3>1 DEF TagsBut, Heads, Tags
    <3>3. Shape(H, B, S, F, r)
      BY <1>2, <3>2 DEF Shape, m
    <3>4. r \in Ranks
      BY <1>2 DEF Chained
    <3> QED BY <2>3, <3>3, <3>4 DEF FreeChanged
  <2>5. S[b] <= S[b]
    BY <1>3
  <2> QED BY <2>1, <2>2, <2>4, <2>5 DEF IsMerged
<1>13. ASSUME prevFree \/ nextFree, NEW B2, NEW S2, NEW F2, Joined(B, S, F, m, first, B2, S2, F2),
              Chained(H3, F2 \ {first}, S, r), SameButLinks(H, H3, F), size = S2[first],
              NoTwins(S2, F2), next \notin F2 \ {first}
       PROVE  IsMerged(H, B, S, F, coalesce(H, b).h, coalesce(H, b).p, S[b])
  <2>1. coalesce(H, b).h = G /\ coalesce(H, b).p = first
    BY <1>1, <1>13 DEF Result
  <2> HIDE DEF H3
  <2>3. FreeChanged(H, B, S, F, G, B2, S2, F2)
    <3>1. Joined(B, S, F, H.brk, first, B2, S2, F2)
      BY <1>13 DEF m
    <3>2. G = MakeFree(H3, first, S2[first])
      BY <1>13
    <3> HIDE DEF G
    <3>3. FreeChanged(H, B, S, F, MakeFree(H3, first, S2[first]), B2, S2, F2)
      <4>1. b + S[b] \notin F2 \ {first}
        BY <1>4, <1>13
      <4> QED BY <1>13, <3>1, <4>1, MergeIs
    <3> QED BY <3>2, <3>3
  <2>4. first \in F2
    BY <1>13 DEF Joined
  <2>5. S[b] <= S2[first]
    <3>1. S[b] \in Int /\ (prevFree => S[first] \in Int /\ 24 <= S[first])
      BY <1>3, <1>6
    <3>2. nextFree => S[next] \in Int /\ 24 <= S[next]
      BY <1>3, <1>5
    <3> QED BY <1>9, <1>13, <3>1, <3>2
  <2> QED BY <1>13, <2>1, <2>3, <2>4, <2>5 DEF IsMerged
<1>14. CASE ~prevFree /\ nextFree
  <2> DEFINE S2 == [S EXCEPT ![b] = S[b] + S[next]]
             B2 == B \ {next}
             F2 == F \ {next}
  <2>1. Joined(B, S, F, m, b, B2, S2, F2)
    BY <1>2, <1>4, <1>5, <1>14, JoinNext
  <2>2. first = b /\ next \in F /\ next # b
    BY <1>3, <1>4, <1>5, <1>8, <1>14
  <2>3. H3 = remove_list(H1, next)
    BY <1>14
  <2>4. Chained(H3, (F \ {b}) \ {next}, S, r) /\ SameButLinks(H, H3, F)
    <3>1. next \in F \ {b} /\ F \ {b} \subseteq F
      BY <2>2
    <3> HIDE DEF H3
    <3> QED BY <1>11, <2>3, <3>1, Unlisted
  <2>5. (F \ {b}) \ {next} = F2 \ {first}
    BY <2>2
  <2>6. size = S2[first]
    BY <1>3, <1>9, <1>14, <2>2
  <2>7. NoTwins(S2, F2)
    <3> SUFFICES ASSUME NEW x \in F2, x + S2[x] \in F2 PROVE FALSE
      BY DEF NoTwins
    <3>1. CASE x = b
      <4>1. S2[b] = S[b] + S[next]
        BY <1>3
      <4>2. x + S2[x] = next + S[next]
        BY <1>3, <1>4, <2>2, <3>1, <4>1
      <4>3. next + S[next] # b /\ next + S[next] # next
        BY <1>3, <1>4, <2>2
      <4>4. next + S[next] \in F
        BY <4>2
      <4> QED BY <2>2, <4>3, <4>4
    <3>2. CASE x # b
      <4>1. S2[x] = S[x] /\ x \in F /\ x + S[x] \in F
        BY <1>3, <3>2
      <4>2. x + S[x] = b
        BY <3>2, <4>1
      <4> QED BY <1>4, <1>14, <4>1, <4>2 DEF AfterFree
    <3> QED BY <3>1, <3>2
  <2> HIDE DEF S2, B2, F2, H3
  <2> QED BY <1>13, <1>14, <2>1, <2>2, <2>4, <2>5, <2>6, <2>7
<1>15. CASE prevFree /\ ~nextFree
  <2> DEFINE S2 == [S EXCEPT ![first] = S[first] + S[b]]
             B2 == B \ {b}
             F2 == F \ {b}
  <2>1. first \in F /\ first + S[first] = b /\ first # b
    BY <1>3, <1>6, <1>15
  <2>2. Joined(B, S, F, m, first, B2, S2, F2)
    BY <1>2, <2>1, JoinNext
  <2>3. H3 = remove_list(H1, first)
    BY <1>15
  <2>4. Chained(H3, (F \ {b}) \ {first}, S, r) /\ SameButLinks(H, H3, F)
    <3>1. first \in F \ {b} /\ F \ {b} \subseteq F
      BY <2>1
    <3> HIDE DEF H3
    <3> QED BY <1>11, <2>3, <3>1, Unlisted
  <2>5. size = S2[first]
    BY <1>3, <1>9, <1>15, <2>1
  <2>6. NoTwins(S2, F2)
    <3> SUFFICES ASSUME NEW x \in F2, x + S2[x] \in F2 PROVE FALSE
      BY DEF NoTwins
    <3>1. CASE x = first
      <4>1. S2[first] = S[first] + S[b]
        BY <1>3, <2>1
      <4>2. x + S2[x] = next
        BY <1>3, <1>4, <2>1, <3>1, <4>1
      <4> QED BY <1>5, <1>15, <4>2
    <3>2. CASE x # first
      <4>1. S2[x] = S[x] /\ x \in F /\ x # b /\ x + S[x] \in F /\ x \in B /\ first \in B
        BY <1>3, <2>1, <3>2
      <4>2. x + S[x] = b
        BY <4>1
      <4> QED BY <1>2, <2>1, <3>2, <4>1, <4>2, OneEnd
    <3> QED BY <3>1, <3>2
  <2>7. next \notin F2 \ {first}
    BY <1>5, <1>15
  <2> HIDE DEF S2, B2, H3
  <2> QED BY <1>13, <1>15, <2>2, <2>4, <2>5, <2>6, <2>7
<1>16. CASE prevFree /\ nextFree
  <2> DEFINE S1 == [S EXCEPT ![first] = S[first] + S[b]]
             B1 == B \ {b}
             F1 == F \ {b}
             S2 == [S1 EXCEPT ![first] = S1[first] + S1[next]]
             B2 == B1 \ {next}
             F2 == F1 \ {next}
  <2>1. first \in F /\ first + S[first] = b /\ first # b /\ next \in F /\ next # b /\ next # first
    BY <1>3, <1>4, <1>5, <1>6, <1>16
  <2>2. Joined(B, S, F, m, first, B1, S1, F1)
    BY <1>2, <2>1, JoinNext
  <2>3. S1[first] = S[first] + S[b] /\ S1[next] = S[next] /\ first + S1[first] = next
    BY <1>3, <1>4, <2>1
  <2>4. Joined(B1, S1, F1, m, first, B2, S2, F2)
    <3>1. Plan(B1, S1, F1, m) /\ first \in F1 /\ next \in F1
      BY <2>1, <2>2 DEF Joined
    <3> HIDE DEF B1, S1, F1
    <3> QED BY <2>3, <3>1, JoinNext
  <2>5. Joined(B, S, F, m, first, B2, S2, F2)
    BY <2>2, <2>4, JoinTwice
  <2>6. Chained(H2, (F \ {b}) \ {first}, S, r) /\ SameButLinks(H, H2, F)
    <3>1. first \in F \ {b} /\ F \ {b} \subseteq F
      BY <2>1
    <3>2. H2 = remove_list(H1, first)
      BY <1>16
    <3> HIDE DEF H2
    <3> QED BY <1>11, <3>1, <3>2, Unlisted
  <2>7. Chained(H3, ((F \ {b}) \ {first}) \ {next}, S, r) /\ SameButLinks(H, H3, F)
    <3>1. next \in (F \ {b}) \ {first} /\ (F \ {b}) \ {first} \subseteq F
      BY <2>1
    <3>2. H3 = remove_list(H2, next)
      BY <1>16
    <3> HIDE DEF H2, H3
    <3> QED BY <2>6, <3>1, <3>2, Unlisted
  <2>8. ((F \ {b}) \ {first}) \ {next} = F2 \ {first}
    OBVIOUS
  <2>9. S2[first] = S[first] + S[b] + S[next]
    <3>1. first \in Int
      BY <1>3, <2>1
    <3> QED BY <1>3, <2>3, <3>1
  <2>10. size = S2[first]
    <3>1. S[first] \in Int /\ S[b] \in Int /\ S[next] \in Int
      BY <1>3, <2>1
    <3>2. size = S[b] + S[first] + S[next]
      BY <1>9, <1>16
    <3> QED BY ONLY <2>9, <3>1, <3>2
  <2>11. NoTwins(S2, F2)
    <3> SUFFICES ASSUME NEW x \in F2, x + S2[x] \in F2 PROVE FALSE
      BY DEF NoTwins
    <3>1. CASE x = first
      <4>1. S[first] \in Int /\ S[b] \in Int /\ S[next] \in Int /\ first \in Int /\ b \in Int /\ next \in Int
        BY <1>3, <2>1
      <4>2. x + S2[x] = next + S[next]
        BY <1>4, <2>1, <2>9, <3>1, <4>1
      <4>3. next + S[next] # next /\ next + S[next] # b
        BY <1>3, <1>4, <2>1
      <4>4. next + S[next] \in F
        BY <4>2
      <4> QED BY <2>1, <4>3, <4>4
    <3>2. CASE x # first
      <4>1. S2[x] = S[x] /\ x \in F /\ x # b /\ x + S[x] \in F /\ x \in B /\ first \in B
        BY <1>3, <2>1, <3>2
      <4>2. x + S[x] = b
        BY <4>1
      <4> QED BY <1>2, <2>1, <3>2, <4>1, <4>2, OneEnd
    <3> QED BY <3>1, <3>2
  <2> HIDE DEF S2, B2, F2, H3
  <2> QED BY <1>13, <1>16, <2>5, <2>7, <2>8, <2>10, <2>11
<1> QED BY <1>12, <1>14, <1>15, <1>16

-----------------------------------------------------------------------------
(* extend_heap.                                                            *)

\* A heap grown by s has one more block, a free one, where the epilogue was.
LEMMA GrowPlan ==
  ASSUME NEW B, NEW S, NEW F, NEW m, Plan(B, S, F, m), NEW s \in Eights, 24 <= s,
         NEW S2, S2 = [[S EXCEPT ![m] = s] EXCEPT ![m + s] = 0], 16 <= m
  PROVE  /\ Plan(B \cup {m}, S2, F \cup {m}, m + s)
         /\ S2[m] = s /\ S2[m + s] = 0 /\ \A x \in B : S2[x] = S[x]
         /\ \A x \in B \cup {m} : AfterFree(S2, F \cup {m}, x) <=> AfterFree(S, F, x)
         /\ AfterFree(S2, F \cup {m}, m + s)
<1> DEFINE B2 == B \cup {m}
           F2 == F \cup {m}
           m2 == m + s
<1>1. /\ \A x \in B : x \in Int /\ S[x] \in Int /\ x \in Eights /\ S[x] \in Eights
                      /\ 16 <= x /\ 24 <= S[x] /\ x + S[x] <= m /\ x + S[x] \in B \cup {m}
      /\ \A x, y \in B : x < y => x + S[x] <= y
      /\ m \in Int /\ F \subseteq B /\ m \notin B /\ m \in Eights /\ S[m] = 0
      /\ S \in [Int -> Int] /\ 16 \in B \cup {m} /\ s \in Int
      /\ \A x \in B \cup {m} : x = 16 \/ \E y \in B : y + S[y] = x
  BY DEF Plan, Eights
<1>2. m2 \in Int /\ m2 \in Eights /\ m2 # m /\ m2 \notin B /\ m < m2
  <2>1. m2 \in Eights
    BY <1>1, EightsSum
  <2> QED BY <1>1, <2>1
<1>3. S2 \in [Int -> Int] /\ S2[m] = s /\ S2[m2] = 0 /\ \A x \in B : S2[x] = S[x]
  BY <1>1, <1>2
<1> HIDE DEF m2, B2, F2
<1>0. B2 = B \cup {m} /\ F2 = F \cup {m} /\ m2 = m + s
  BY DEF B2, F2, m2
<1>4. \A x \in B2 : /\ 16 <= x /\ 24 <= S2[x] /\ S2[x] \in Eights
                    /\ x + S2[x] \in B2 \cup {m2} /\ x + S2[x] <= m2
  BY <1>0, <1>1, <1>2, <1>3
<1>5. \A x, y \in B2 : x < y => x + S2[x] <= y
  BY <1>0, <1>1, <1>2, <1>3
<1>6. \A x \in B2 \cup {m2} : x = 16 \/ \E y \in B2 : y + S2[y] = x
  <2> SUFFICES ASSUME NEW x \in B2 \cup {m2}, x # 16 PROVE \E y \in B2 : y + S2[y] = x
    OBVIOUS
  <2>1. CASE x = m2
    BY <1>0, <1>3, <2>1
  <2>2. CASE x # m2
    <3>1. PICK y \in B : y + S[y] = x
      BY <1>0, <1>1, <2>2
    <3> QED BY <1>0, <1>3, <3>1
  <2> QED BY <2>1, <2>2
<1>7. Plan(B2, S2, F2, m2)
  <2>1. B2 \subseteq Eights /\ F2 \subseteq B2 /\ m2 \in Eights \ B2 /\ 16 \in B2 \cup {m2}
    BY <1>0, <1>1, <1>2
  <2> QED BY <1>3, <1>4, <1>5, <1>6, <2>1 DEF Plan
<1>8. \A x \in B2 : AfterFree(S2, F2, x) <=> AfterFree(S, F, x)
  <2> SUFFICES ASSUME NEW x \in B2
               PROVE (\E y \in F2 : y + S2[y] = x) <=> (\E y \in F : y + S[y] = x)
    BY DEF AfterFree
  <2>1. m + S2[m] # x
    BY <1>0, <1>2, <1>3
  <2> QED BY <1>0, <1>1, <1>3, <2>1
<1>9. AfterFree(S2, F2, m2)
  BY <1>0, <1>3 DEF AfterFree
<1> QED BY <1>0, <1>3, <1>7, <1>8, <1>9

\* The heap H with the break at n.
WithBreak(H, n) == [H EXCEPT !.brk = n]

\* What mem_sbrk does.
LEMMA BreakIs ==
  ASSUME NEW H, IsHeap(H), NEW n \in Nat
  PROVE  /\ IsHeap(WithBreak(H, n)) /\ WithBreak(H, n).brk = n
         /\ WithBreak(H, n).glob = H.glob /\ WithBreak(H, n).fault = H.fault
         /\ \A x : Rd(WithBreak(H, n), x) = Rd(H, x)
BY DEF WithBreak, IsHeap, Rd

\* What extend_heap has made when it calls coalesce.
Extended(H, asize) ==
  LET bp == H.brk
      H1 == WithBreak(H, H.brk + asize)
      H2 == Tag(H1, bp, PACK(asize, GET_PREV_ALLOC(H1, HDRP(bp))))
      H3 == insert_list(H2, bp, asize)
  IN  Wr(H3, HDRP(NEXT_BLKP(H3, bp)), PACK(0, CUR_ALLOC))

\* It calls coalesce or it changes nothing.
LEMMA ExtendSplit ==
  ASSUME NEW H, IsHeap(H), NEW n \in Int, 0 < n
  PROVE  /\ CanGrow(H, n) => extend_heap(H, n) = coalesce(Extended(H, n), H.brk)
         /\ ~CanGrow(H, n) => extend_heap(H, n) = Result(H, NULL)
<1>1. ~(n <= 0)
  OBVIOUS
<1>2. CASE CanGrow(H, n)
  <2>1. mem_sbrk(H, n) = WithBreak(H, H.brk + n)
    BY <1>2 DEF mem_sbrk, WithBreak
  <2> QED BY <1>1, <1>2, <2>1 DEF extend_heap, Extended
<1>3. CASE ~CanGrow(H, n)
  BY <1>3 DEF extend_heap
<1> QED BY <1>2, <1>3

\* What the new block's header, footer and list make of the heap.
LEMMA ExtendedIs ==
  ASSUME NEW H, NEW B, NEW S, NEW F, NEW r, Shape(H, B, S, F, r), 16 <= H.brk,
         NEW s \in Eights, 24 <= s, H.brk + s <= MaxHeap,
         NEW S2, S2 = [[S EXCEPT ![H.brk] = s] EXCEPT ![H.brk + s] = 0]
  PROVE  FreeChanged(H, B, S, F, Extended(H, s), B \cup {H.brk}, S2, F \cup {H.brk})
<1> DEFINE m == H.brk
           m2 == m + s
           B2 == B \cup {m}
           F2 == F \cup {m}
           H1 == WithBreak(H, m2)
           w == PACK(s, GET_PREV_ALLOC(H1, HDRP(m)))
           H2 == Tag(H1, m, w)
           H3 == insert_list(H2, m, s)
           H4 == Wr(H3, HDRP(NEXT_BLKP(H3, m)), PACK(0, CUR_ALLOC))
<1>1. Chained(H, F, S, r) /\ Plan(B, S, F, m) /\ Tags(H, B, S, F, m) /\ IsHeap(H) /\ m \in Nat
  BY DEF Shape, Chained, IsHeap
<1>2. H4 = Extended(H, s)
  BY DEF Extended
<1> HIDE DEF m
<1>3. /\ Plan(B2, S2, F2, m2)
      /\ S2[m] = s /\ S2[m2] = 0 /\ \A x \in B : S2[x] = S[x]
      /\ \A x \in B \cup {m} : AfterFree(S2, F2, x) <=> AfterFree(S, F, x)
      /\ AfterFree(S2, F2, m2)
  <2>1. 16 <= m /\ S2 = [[S EXCEPT ![m] = s] EXCEPT ![m + s] = 0]
    BY DEF m
  <2> QED BY <1>1, <2>1, GrowPlan
<1>4. /\ m \in Eights /\ s \in Eights /\ s \in Int /\ m2 \in Nat /\ m2 \in Eights /\ m2 <= MaxHeap /\ 16 <= m
      /\ F \subseteq B /\ m \notin B /\ m2 \notin B /\ m2 # m
      /\ \A x \in B : x \in Int /\ S[x] \in Int /\ x \in Eights /\ S[x] \in Eights /\ 24 <= S[x] /\ x + S[x] <= m
  <2>1. m \in Eights /\ F \subseteq B /\ m \notin B /\ s \in Int /\ 16 <= m /\ m + s <= MaxHeap
    BY <1>1 DEF Plan, Eights, m
  <2>2. m2 \in Eights /\ m2 \in Int
    BY <2>1, EightsSum DEF Eights
  <2>3. \A x \in B : x \in Int /\ S[x] \in Int /\ x \in Eights /\ S[x] \in Eights /\ 24 <= S[x] /\ x + S[x] <= m
    BY <1>1 DEF Plan, Eights
  <2> QED BY <1>1, <2>1, <2>2, <2>3
<1>5. /\ IsHeap(H1) /\ H1.brk = m2 /\ H1.glob = H.glob /\ H1.fault = H.fault
      /\ \A x : Rd(H1, x) = Rd(H, x)
  BY <1>1, <1>4, BreakIs
<1> HIDE DEF H1, m2
<1>6. GET_PREV_ALLOC(H1, HDRP(m)) = IF AfterFree(S, F, m) THEN 0 ELSE 2
  <2>1. m \in B \cup {m}
    OBVIOUS
  <2>2. GET_PREV_ALLOC(H, HDRP(m)) = IF AfterFree(S, F, m) THEN 0 ELSE 2
    BY <1>1, <2>1, HeadReads
  <2> QED BY <1>5, <2>2 DEF GET_PREV_ALLOC
<1>7. w = Code(S2, F2, m) /\ SizeOf(w) = s /\ w \in Int
  <2>1. m \in F2 /\ m \in B2 \cup {m2}
    OBVIOUS
  <2>2. Code(S2, F2, m) = s + 0 + (IF AfterFree(S2, F2, m) THEN 0 ELSE 2)
    BY <1>3, <2>1 DEF Code
  <2>3. w = s + (IF AfterFree(S2, F2, m) THEN 0 ELSE 2)
    BY <1>3, <1>6 DEF PACK
  <2>4. w = Code(S2, F2, m) /\ w \in Int
    BY <1>4, <2>2, <2>3
  <2>5. SizeOf(Code(S2, F2, m)) = S2[m]
    <3>1. Plan(B2, S2, F2, m2)
      BY <1>3
    <3> HIDE DEF B2, F2
    <3>2. m \in B2 \cup {m2}
      BY <2>1
    <3> QED BY ONLY <3>1, <3>2, CodeParts
  <2> QED BY <1>3, <2>4, <2>5
<1> HIDE DEF w
<1>8. /\ SameSize(H1, H2) /\ H2.glob = H1.glob
      /\ \A x : Rd(H2, x) = IF x = m - 4 \/ x = m2 - 8 THEN w ELSE Rd(H1, x)
  <2>1. 4 <= m /\ 8 <= s /\ m + s <= MaxHeap
    BY <1>4 DEF m2, Eights
  <2>2. m + s - 8 = m2 - 8
    BY <1>4 DEF m2
  <2>3. /\ SameSize(H1, H2) /\ H2.glob = H1.glob
        /\ \A x : Rd(H2, x) = IF x = m - 4 \/ x = m + s - 8 THEN w ELSE Rd(H1, x)
    <3>1. IsHeap(H1) /\ m \in Eights /\ s \in Eights /\ w \in Int /\ SizeOf(w) = s
      BY <1>4, <1>5, <1>7
    <3>2. H2 = Tag(H1, m, w)
      OBVIOUS
    <3> HIDE DEF H2
    <3> QED BY <2>1, <3>1, <3>2, TagIs
  <2> QED BY <2>2, <2>3
<1> HIDE DEF H2
<1>9. IsHeap(H2) /\ H2.glob = H.glob
  BY <1>5, <1>8 DEF SameSize
<1>10. /\ Roomy(F2) /\ m2 \in B2 \cup {m2}
       /\ \A y \in F2 : \A c \in B2 \cup {m2} : c - 4 < y \/ y + 16 <= c - 4
       /\ \A y \in F2 : \A b \in B2 : b + S2[b] - 8 < y \/ y + 16 <= b + S2[b] - 8
  BY <1>3, <1>4, LinksApart
<1>11. Chained(H2, F, S2, r)
  <2>1. \A b \in F : Rd(H2, b) = Rd(H, b) /\ Rd(H2, b + 8) = Rd(H, b + 8)
    <3> SUFFICES ASSUME NEW b \in F PROVE Rd(H2, b) = Rd(H, b) /\ Rd(H2, b + 8) = Rd(H, b + 8)
      OBVIOUS
    <3>1. b \in Int /\ b + S[b] <= m /\ 24 <= S[b] /\ S[b] \in Int /\ m \in Int /\ m2 \in Int /\ m + s = m2
          /\ s \in Int /\ 24 <= s
      BY <1>1, <1>4 DEF m2
    <3>2. b # m - 4 /\ b # m2 - 8 /\ b + 8 # m - 4 /\ b + 8 # m2 - 8
      BY ONLY <3>1
    <3> QED BY <1>5, <1>8, <3>2
  <2>2. \A b \in F : S2[b] = S[b]
    BY <1>3, <1>4
  <2> QED BY <1>1, <1>9, <2>1, <2>2, ChainedSame
<1>12. /\ \E r2 \in Ranks : Chained(H3, F2, S2, r2)
       /\ SameButLinks(H2, H3, F2)
  <2>1. m \notin F
    BY <1>4
  <2>2. H3 = insert_list(H2, m, S2[m])
    BY <1>3
  <2>3. Roomy(F \cup {m})
    BY <1>10
  <2> HIDE DEF H3, F2
  <2>4. /\ \E r2 \in Ranks : Chained(insert_list(H2, m, S2[m]), F \cup {m}, S2, r2)
        /\ SameButLinks(H2, insert_list(H2, m, S2[m]), F \cup {m})
    <3>1. \E r2 \in Ranks : Chained(insert_list(H2, m, S2[m]), F \cup {m}, S2, r2)
      BY ONLY <1>11, <2>1, <2>3, InsertIs
    <3>2. SameButLinks(H2, insert_list(H2, m, S2[m]), F \cup {m})
      BY ONLY <1>11, <2>1, <2>3, InsertIs
    <3> QED BY <3>1, <3>2
  <2> QED BY <2>2, <2>4 DEF F2
<1> HIDE DEF H3
<1>13. /\ IsHeap(H3) /\ H3.brk = m2 /\ H3.fault = H.fault
  BY <1>5, <1>8, <1>12 DEF SameSize, SameButLinks
<1>14. \A x \in Int : (\A b \in F2 : x < b \/ b + 16 <= x) => Rd(H3, x) = Rd(H2, x)
  BY <1>12 DEF SameButLinks
<1>15. Rd(H3, m - 4) = w
  <2>1. m - 4 \in Int /\ \A y \in F2 : m - 4 < y \/ y + 16 <= m - 4
    BY <1>4, <1>10
  <2> QED BY <1>8, <1>14, <2>1
<1>16. HDRP(NEXT_BLKP(H3, m)) = m2 - 4
  <2>1. GET_SIZE(H3, HDRP(m)) = s
    BY <1>7, <1>15 DEF GET_SIZE, HDRP, WSIZE
  <2>2. m + s = m2
    BY DEF m2
  <2> QED BY <2>1, <2>2 DEF NEXT_BLKP, HDRP, WSIZE
<1>17. /\ SameSize(H3, H4) /\ H4.glob = H3.glob
       /\ \A x : Rd(H4, x) = IF x = m2 - 4 THEN 1 ELSE Rd(H3, x)
  <2>1. m2 - 4 \in Word
    <3>1. m2 - 4 \in Int /\ (m2 - 4) % 4 = 0 /\ 0 <= m2 - 4 /\ (m2 - 4) + 4 <= MaxHeap
      BY <1>4, HeapAssumption DEF Eights, m2
    <3> QED BY <3>1, WordAt
  <2>2. PACK(0, CUR_ALLOC) = 1
    BY DEF PACK, CUR_ALLOC
  <2>3. H4 = Wr(H3, m2 - 4, 1)
    BY <1>16, <2>2
  <2> HIDE DEF H4
  <2> QED BY <1>13, <2>1, <2>3, WriteIs
<1> HIDE DEF H4
<1>18. IsHeap(H4) /\ H4.brk = m2 /\ H4.fault = H.fault
  BY <1>13, <1>17 DEF SameSize
<1>19. \E r2 \in Ranks : Chained(H4, F2, S2, r2)
  <2>1. PICK r2 \in Ranks : Chained(H3, F2, S2, r2)
    BY <1>12
  <2>2. \A b \in F2 : Rd(H4, b) = Rd(H3, b) /\ Rd(H4, b + 8) = Rd(H3, b + 8)
    <3> SUFFICES ASSUME NEW b \in F2 PROVE Rd(H4, b) = Rd(H3, b) /\ Rd(H4, b + 8) = Rd(H3, b + 8)
      OBVIOUS
    <3>1. b \in Int /\ (m2 - 4 < b \/ b + 16 <= m2 - 4) /\ m2 \in Int
      BY <1>4, <1>10, LinkWords
    <3>2. b # m2 - 4 /\ b + 8 # m2 - 4
      BY ONLY <3>1
    <3> QED BY <1>17, <3>2
  <2> QED BY <1>17, <1>18, <2>1, <2>2, ChainedSame
\* A word that is no link and none of the tags written is as it was.
<1>20. ASSUME NEW x \in Int, \A b \in F2 : x < b \/ b + 16 <= x, x # m - 4, x # m2 - 8, x # m2 - 4
       PROVE  Rd(H4, x) = Rd(H, x)
  BY <1>5, <1>8, <1>14, <1>17, <1>20
<1>21. Tags(H4, B2, S2, F2, m2)
  <2>1. ASSUME NEW c \in B2 \cup {m2} PROVE Rd(H4, c - 4) = Code(S2, F2, c)
    <3>0. c - 4 \in Int /\ \A y \in F2 : c - 4 < y \/ y + 16 <= c - 4
      BY <1>4, <1>10
    <3>1. CASE c = m2
      <4>1. m2 \notin F2
        BY <1>4
      <4>2. Code(S2, F2, m2) = 1
        BY <1>3, <4>1 DEF Code
      <4> QED BY <1>17, <3>1, <4>2
    <3>2. CASE c = m
      <4>1. m - 4 # m2 - 4
        BY <1>4
      <4> QED BY <1>7, <1>15, <1>17, <3>2, <4>1
    <3>3. CASE c \in B
      <4>1. c \in Eights /\ c \in Int /\ m \in Int /\ m2 \in Int /\ c # m /\ c # m2 /\ m \in Eights /\ s \in Eights
        BY <1>4, <3>3
      <4>2. c - 4 # m - 4 /\ c - 4 # m2 - 4
        BY ONLY <4>1
      <4>3. c - 4 # m2 - 8
        BY <4>1, TagsDiffer DEF m2
      <4>4. Rd(H4, c - 4) = Rd(H, c - 4)
        BY <1>20, <3>0, <4>2, <4>3
      <4>5. Rd(H, c - 4) = Code(S, F, c)
        BY <1>1, <3>3 DEF Tags
      <4>6. Code(S2, F2, c) = Code(S, F, c)
        <5>1. (c \in F2 <=> c \in F) /\ S2[c] = S[c] /\ (AfterFree(S2, F2, c) <=> AfterFree(S, F, c))
          BY <1>3, <3>3, <4>1
        <5> QED BY <5>1 DEF Code
      <4> QED BY <4>4, <4>5, <4>6
    <3> QED BY <3>1, <3>2, <3>3
  <2>2. ASSUME NEW b \in F2 PROVE Rd(H4, b + S2[b] - 8) = Code(S2, F2, b)
    <3>1. b \in B2
      BY <1>4
    <3>2. \A y \in F2 : b + S2[b] - 8 < y \/ y + 16 <= b + S2[b] - 8
      BY <1>10, <3>1
    <3>3. CASE b = m
      <4>1. b + S2[b] - 8 = m2 - 8 /\ m2 - 8 \in Int /\ m2 - 8 # m2 - 4
        BY <1>3, <1>4, <3>3 DEF m2
      <4>2. Rd(H3, m2 - 8) = w
        BY <1>8, <1>14, <3>2, <4>1
      <4> QED BY <1>7, <1>17, <3>3, <4>1, <4>2
    <3>4. CASE b # m
      <4>1. b \in F /\ b \in B /\ S2[b] = S[b]
        BY <1>3, <1>4, <3>4
      <4>2. b \in Int /\ S[b] \in Int /\ b + S[b] <= m /\ m \in Int /\ s \in Int /\ 24 <= s /\ m + s = m2 /\ m2 \in Int
            /\ b \in Eights /\ S[b] \in Eights /\ m \in Eights
        BY <1>4, <4>1 DEF m2
      <4>3. b + S[b] - 8 # m - 4 /\ b + S[b] - 8 # m2 - 8 /\ b + S[b] - 8 # m2 - 4 /\ b + S[b] - 8 \in Int
        BY ONLY <4>2
      <4>4. Rd(H4, b + S[b] - 8) = Rd(H, b + S[b] - 8)
        BY <1>20, <3>2, <4>1, <4>3
      <4>5. Rd(H, b + S[b] - 8) = Code(S, F, b)
        BY <1>1, <4>1 DEF Tags
      <4>6. Code(S2, F2, b) = Code(S, F, b)
        <5>1. AfterFree(S2, F2, b) <=> AfterFree(S, F, b)
          BY <1>3, <4>1
        <5> QED BY <4>1, <5>1 DEF Code
      <4> QED BY <4>1, <4>4, <4>5, <4>6
    <3> QED BY <3>3, <3>4
  <2> QED BY <2>1, <2>2 DEF Tags
<1>22. B2 \ F2 = B \ F
  BY <1>4
<1>23. Steady(H, S, H4, S2, B \ F)
  <2>1. \A a \in B \ F : S2[a] = S[a]
    BY <1>3
  <2>2. ASSUME NEW a \in B \ F, NEW x \in Int, a <= x, x < a + S[a] - 4 PROVE Rd(H4, x) = Rd(H, x)
    <3>1. a \in B2 \ F2 /\ x < a + S2[a] - 4
      BY <1>22, <2>1, <2>2
    <3>2. \A y \in F2 : x < y \/ y + 16 <= x
      <4>1. a \in B2 \ F2 /\ a <= x /\ x < a + S2[a] - 4 /\ Plan(B2, S2, F2, m2) /\ m2 <= MaxHeap
        BY <1>3, <1>4, <2>2, <3>1
      <4> HIDE DEF B2, F2
      <4> QED BY <4>1, LinksApart
    <3>3. a \in Int /\ S[a] \in Int /\ a + S[a] <= m /\ m \in Int /\ s \in Int /\ 24 <= s /\ m + s = m2 /\ m2 \in Int
      BY <1>4 DEF m2
    <3>4. x < a + S[a] - 4
      BY <2>2
    <3>5. x # m - 4 /\ x # m2 - 8 /\ x # m2 - 4
      BY ONLY <3>3, <3>4, x \in Int
    <3> QED BY <1>20, <3>2, <3>5
  <2> QED BY <2>1, <2>2 DEF Steady, Kept
<1>24. \E r2 \in Ranks : Shape(H4, B2, S2, F2, r2)
  BY <1>3, <1>4, <1>18, <1>19, <1>21 DEF Shape
<1>25. H.brk <= H4.brk /\ H4.fault = H.fault
  BY <1>1, <1>4, <1>18 DEF m, m2
<1> HIDE DEF H4
<1>26. FreeChanged(H, B, S, F, H4, B2, S2, F2)
  BY <1>22, <1>23, <1>24, <1>25 DEF FreeChanged
<1> QED BY <1>2, <1>26 DEF m

\* One change of free blocks after another.
LEMMA FreeTwice ==
  ASSUME NEW H, NEW B, NEW S, NEW F, NEW G, NEW B2, NEW S2, NEW F2, NEW K, NEW B3, NEW S3, NEW F3,
         IsHeap(H), IsHeap(G), IsHeap(K),
         FreeChanged(H, B, S, F, G, B2, S2, F2), FreeChanged(G, B2, S2, F2, K, B3, S3, F3)
  PROVE  FreeChanged(H, B, S, F, K, B3, S3, F3)
<1>1. /\ \E r2 \in Ranks : Shape(K, B3, S3, F3, r2)
      /\ H.brk <= G.brk /\ G.brk <= K.brk /\ K.fault = H.fault
      /\ Steady(H, S, G, S2, B \ F) /\ Steady(G, S2, K, S3, B \ F) /\ B3 \ F3 = B \ F
  BY DEF FreeChanged
<1>2. H.brk \in Nat /\ G.brk \in Nat /\ K.brk \in Nat
  BY DEF IsHeap
<1>3. H.brk <= K.brk
  BY <1>1, <1>2
<1>4. Steady(H, S, K, S3, B \ F)
  BY <1>1, SteadyTwice
<1> QED BY <1>1, <1>3, <1>4 DEF FreeChanged

\* What extend_heap does: it grows the heap by a free block, or does nothing.
LEMMA ExtendIs ==
  ASSUME NEW H, NEW B, NEW S, NEW F, NEW r, Shape(H, B, S, F, r), NoTwins(S, F), 16 <= H.brk,
         NEW s \in Eights, 24 <= s
  PROVE  /\ CanGrow(H, s) => IsMerged(H, B, S, F, extend_heap(H, s).h, extend_heap(H, s).p, s)
         /\ ~CanGrow(H, s) => extend_heap(H, s).h = H /\ extend_heap(H, s).p = NULL
<1>1. IsHeap(H) /\ s \in Int /\ 0 < s /\ Plan(B, S, F, H.brk)
  BY DEF Shape, Chained, Eights
<1>2. ASSUME CanGrow(H, s) PROVE IsMerged(H, B, S, F, extend_heap(H, s).h, extend_heap(H, s).p, s)
  <2> DEFINE m == H.brk
             S2 == [[S EXCEPT ![m] = s] EXCEPT ![m + s] = 0]
             B2 == B \cup {m}
             F2 == F \cup {m}
             G == Extended(H, s)
             K == coalesce(G, m).h
             p == coalesce(G, m).p
  <2>1. H.brk + s <= MaxHeap
    BY <1>2 DEF CanGrow
  <2>2. FreeChanged(H, B, S, F, G, B2, S2, F2)
    BY <2>1, ExtendedIs
  <2>3. PICK r2 \in Ranks : Shape(G, B2, S2, F2, r2)
    BY <2>2 DEF FreeChanged
  <2>4. /\ \A x \in B : x \in Int /\ S[x] \in Int /\ x + S[x] <= m
        /\ m \in Int /\ m \notin B /\ F \subseteq B /\ S \in [Int -> Int]
    BY <1>1 DEF Plan, Eights
  <2>5. m + s \notin B /\ m + s # m
    BY <1>1, <2>4 DEF Plan
  <2>6. S2[m] = s /\ \A x \in B : S2[x] = S[x]
    BY <1>1, <2>4, <2>5
  <2> HIDE DEF m, S2, G
  <2>7. \A x \in F2 : x + S2[x] \in F2 => x = m \/ x + S2[x] = m
    BY <2>4, <2>6 DEF NoTwins
  <2>8. m \in F2
    OBVIOUS
  <2> HIDE DEF B2, F2, K, p
  <2>9. IsMerged(G, B2, S2, F2, coalesce(G, m).h, coalesce(G, m).p, S2[m])
    BY <2>3, <2>7, <2>8, ShapeNear, CoalesceIs
  <2>10. IsMerged(G, B2, S2, F2, K, p, s)
    BY <2>6, <2>9 DEF K, p
  <2>11. extend_heap(H, s).h = K /\ extend_heap(H, s).p = p
    BY <1>1, <1>2, ExtendSplit DEF K, p, G, m
  <2>12. PICK B3, S3, F3 : FreeChanged(G, B2, S2, F2, K, B3, S3, F3) /\ NoTwins(S3, F3) /\ p \in F3 /\ s <= S3[p]
    BY <2>10 DEF IsMerged
  <2>13. IsHeap(G) /\ IsHeap(K)
    <3>1. IsHeap(G)
      BY <2>3 DEF Shape, Chained
    <3>2. PICK r3 \in Ranks : Shape(K, B3, S3, F3, r3)
      BY <2>12 DEF FreeChanged
    <3> QED BY <3>1, <3>2 DEF Shape, Chained
  <2>14. FreeChanged(H, B, S, F, K, B3, S3, F3)
    BY <1>1, <2>2, <2>12, <2>13, FreeTwice
  <2>15. IsMerged(H, B, S, F, K, p, s)
    BY <2>12, <2>14 DEF IsMerged
  <2> QED BY <2>11, <2>15
<1>3. ASSUME ~CanGrow(H, s) PROVE extend_heap(H, s).h = H /\ extend_heap(H, s).p = NULL
  BY <1>1, <1>3, ExtendSplit DEF Result
<1> QED BY <1>2, <1>3

-----------------------------------------------------------------------------
(* place.                                                                  *)

\* The plan, of blocks B2 and F2 free, when s bytes of the free block b are taken and e is the rest.
IsSplit(B, S, F, m, b, s, e, B2, S2, F2) ==
  /\ Plan(B2, S2, F2, m)
  /\ e \in Eights /\ e \notin B /\ e # m /\ S2[b] = s /\ S2[e] = S[b] - s /\ e + S2[e] = b + S[b]
  /\ \A x \in (B \cup {m}) \ {b} : S2[x] = S[x]
  /\ \A x \in B \cup {m} : AfterFree(S2, F2, x) <=> AfterFree(S, F, x)
  /\ ~AfterFree(S2, F2, e)

\* The sizes then.
SplitSizes(S, b, s) == [[S EXCEPT ![b] = s] EXCEPT ![b + s] = S[b] - s]

\* A free block is split.
LEMMA SplitPlan ==
  ASSUME NEW B, NEW S, NEW F, NEW m, Plan(B, S, F, m), NEW b \in F, NEW s \in Eights, 24 <= s,
         s + 24 <= S[b], NEW e, e = b + s, NEW S2, S2 = SplitSizes(S, b, s)
  PROVE  IsSplit(B, S, F, m, b, s, e, B \cup {e}, S2, (F \ {b}) \cup {e})
<1> DEFINE B2 == B \cup {e}
           F2 == (F \ {b}) \cup {e}
<1>1. /\ \A x \in B : x \in Int /\ S[x] \in Int /\ x \in Eights /\ S[x] \in Eights
                      /\ 16 <= x /\ 24 <= S[x] /\ x + S[x] <= m /\ x + S[x] \in B \cup {m}
      /\ \A x, y \in B : x < y => x + S[x] <= y
      /\ m \in Int /\ F \subseteq B /\ m \notin B /\ m \in Eights /\ S[m] = 0
      /\ S \in [Int -> Int] /\ 16 \in B \cup {m} /\ s \in Int
      /\ \A x \in B \cup {m} : x = 16 \/ \E y \in B : y + S[y] = x
  BY DEF Plan, Eights
<1>2. b \in B /\ e \in Int /\ e \in Eights /\ e # b /\ b < e /\ e < b + S[b] /\ e # m /\ S[b] - s \in Eights
  <2>1. b \in B /\ b \in Eights /\ S[b] \in Eights /\ b \in Int /\ S[b] \in Int /\ b + S[b] <= m
    BY <1>1
  <2>2. e \in Eights /\ S[b] - s \in Eights
    BY <2>1, EightsSum
  <2> QED BY <1>1, <2>1, <2>2
<1>3. e \notin B
  <2> SUFFICES ASSUME e \in B PROVE FALSE
    OBVIOUS
  <2>1. b + S[b] <= e
    BY <1>1, <1>2
  <2> QED BY <1>1, <1>2, <2>1
<1>4. S2 \in [Int -> Int] /\ S2[b] = s /\ S2[e] = S[b] - s /\ \A x \in (B \cup {m}) \ {b} : S2[x] = S[x]
  BY <1>1, <1>2, <1>3 DEF SplitSizes
<1>5. e + S2[e] = b + S[b]
  BY <1>1, <1>2, <1>4
<1> HIDE DEF B2, F2
<1>0. B2 = B \cup {e} /\ F2 = (F \ {b}) \cup {e}
  BY DEF B2, F2
<1>6. \A x \in B2 : /\ 16 <= x /\ 24 <= S2[x] /\ S2[x] \in Eights
                    /\ x + S2[x] \in B2 \cup {m} /\ x + S2[x] <= m
  <2> SUFFICES ASSUME NEW x \in B2
               PROVE  /\ 16 <= x /\ 24 <= S2[x] /\ S2[x] \in Eights
                      /\ x + S2[x] \in B2 \cup {m} /\ x + S2[x] <= m
    OBVIOUS
  <2>1. CASE x = e
    BY <1>0, <1>1, <1>2, <1>4, <1>5, <2>1
  <2>2. CASE x = b
    BY <1>0, <1>1, <1>2, <1>4, <2>2
  <2>3. CASE x # e /\ x # b
    BY <1>0, <1>1, <1>4, <2>3
  <2> QED BY <2>1, <2>2, <2>3
<1>7. \A x, y \in B2 : x < y => x + S2[x] <= y
  <2> SUFFICES ASSUME NEW x \in B2, NEW y \in B2, x < y PROVE x + S2[x] <= y
    OBVIOUS
  <2>1. CASE x = e
    <3>1. y \in B /\ b < y /\ y \in Int
      BY <1>0, <1>1, <1>2, <2>1
    <3>2. b + S[b] <= y
      BY <1>1, <1>2, <3>1
    <3> QED BY <1>5, <2>1, <3>2
  <2>2. CASE x = b
    <3>1. CASE y = e
      BY <1>2, <1>4, <2>2, <3>1
    <3>2. CASE y # e
      <4>1. y \in B /\ b + S[b] <= y
        BY <1>0, <1>1, <1>2, <2>2, <3>2
      <4> QED BY <1>1, <1>2, <1>4, <2>2, <4>1
    <3> QED BY <3>1, <3>2
  <2>3. CASE x # e /\ x # b
    <3>1. x \in B /\ S2[x] = S[x] /\ x \in Int /\ S[x] \in Int
      BY <1>0, <1>1, <1>4, <2>3
    <3>2. CASE y = e
      <4>1. x < b
        <5> SUFFICES ASSUME b < x PROVE FALSE
          BY <1>1, <1>2, <2>3, <3>1
        <5>1. b + S[b] <= x
          BY <1>1, <1>2, <3>1
        <5> QED BY <1>1, <1>2, <3>1, <3>2, <5>1
      <4>2. x + S[x] <= b
        BY <1>1, <1>2, <3>1, <4>1
      <4> QED BY <1>1, <1>2, <3>1, <3>2, <4>2
    <3>3. CASE y # e
      BY <1>0, <1>1, <3>1, <3>3
    <3> QED BY <3>2, <3>3
  <2> QED BY <2>1, <2>2, <2>3
<1>8. \A x \in B2 \cup {m} : x = 16 \/ \E y \in B2 : y + S2[y] = x
  <2> SUFFICES ASSUME NEW x \in B2 \cup {m}, x # 16 PROVE \E y \in B2 : y + S2[y] = x
    OBVIOUS
  <2>1. CASE x = e
    BY <1>0, <1>2, <1>4, <2>1
  <2>2. CASE x # e
    <3>1. PICK y \in B : y + S[y] = x
      BY <1>0, <1>1, <2>2
    <3>2. CASE y = b
      BY <1>0, <1>5, <3>1, <3>2
    <3>3. CASE y # b
      BY <1>0, <1>4, <3>1, <3>3
    <3> QED BY <3>2, <3>3
  <2> QED BY <2>1, <2>2
<1>9. Plan(B2, S2, F2, m)
  <2>1. B2 \subseteq Eights /\ F2 \subseteq B2 /\ m \in Eights \ B2 /\ 16 \in B2 \cup {m} /\ S2[m] = 0
    BY <1>0, <1>1, <1>2, <1>4
  <2> QED BY <1>4, <1>6, <1>7, <1>8, <2>1 DEF Plan
<1>10. \A x \in B \cup {m} : AfterFree(S2, F2, x) <=> AfterFree(S, F, x)
  <2> SUFFICES ASSUME NEW x \in B \cup {m}
               PROVE (\E y \in F2 : y + S2[y] = x) <=> (\E y \in F : y + S[y] = x)
    BY DEF AfterFree
  <2>1. ASSUME NEW y \in F2, y + S2[y] = x PROVE \E z \in F : z + S[z] = x
    <3>1. CASE y = e
      BY <1>5, <2>1, <3>1
    <3>2. CASE y # e
      BY <1>0, <1>1, <1>4, <2>1, <3>2
    <3> QED BY <3>1, <3>2
  <2>2. ASSUME NEW y \in F, y + S[y] = x PROVE \E z \in F2 : z + S2[z] = x
    <3>1. CASE y = b
      BY <1>0, <1>5, <2>2, <3>1
    <3>2. CASE y # b
      BY <1>0, <1>1, <1>4, <2>2, <3>2
    <3> QED BY <3>1, <3>2
  <2> QED BY <2>1, <2>2
<1>11. ~AfterFree(S2, F2, e)
  <2> SUFFICES ASSUME NEW y \in F2, y + S2[y] = e PROVE FALSE
    BY DEF AfterFree
  <2>1. y \in B2 /\ b \in B2 /\ y # b
    BY <1>0, <1>1, <1>2
  <2>2. b + S2[b] = y + S2[y]
    BY <1>2, <1>4, <2>1
  <2>3. b = y
    BY <1>9, <2>1, <2>2, OneEnd
  <2> QED BY <2>1, <2>3
<1> QED BY <1>0, <1>2, <1>3, <1>4, <1>5, <1>9, <1>10, <1>11 DEF IsSplit

\* The plan when the free block b is taken whole.
LEMMA WholePlan ==
  ASSUME NEW B, NEW S, NEW F, NEW m, Plan(B, S, F, m), NEW b \in F
  PROVE  /\ Plan(B, S, F \ {b}, m)
         /\ \A x \in B \cup {m} : AfterFree(S, F \ {b}, x) <=> AfterFree(S, F, x) /\ x # b + S[b]
<1>1. Plan(B, S, F \ {b}, m)
  BY DEF Plan
<1>2. F \subseteq B
  BY DEF Plan
<1>3. ASSUME NEW x \in B \cup {m}
      PROVE  AfterFree(S, F \ {b}, x) <=> AfterFree(S, F, x) /\ x # b + S[b]
  <2>1. \A y \in F : y + S[y] = b + S[b] => y = b
    BY <1>2, OneEnd
  <2> QED BY <2>1 DEF AfterFree
<1> QED BY <1>1, <1>3

\* From H to G, the free block p of at least n bytes is taken.
Taken(H, B, S, F, G, B2, S2, F2, p, n) ==
  /\ \E r2 \in Ranks : Shape(G, B2, S2, F2, r2)
  /\ H.brk <= G.brk /\ G.fault = H.fault
  /\ Steady(H, S, G, S2, B \ F) /\ B2 \ F2 = (B \ F) \cup {p} /\ p \notin B \ F
  /\ NoTwins(S2, F2) /\ n <= S2[p]

\* The two ways of place.
SplitOff(H, b, s) ==
  LET K == Wr(remove_list(H, b), HDRP(b), PACK(s, GET_PREV_ALLOC(H, HDRP(b)) + CUR_ALLOC))
      remain == GET_SIZE(H, HDRP(b)) - s
  IN  insert_list(Tag(K, b + s, PACK(remain, PREV_ALLOC)), b + s, remain)

\* b is taken whole, and the next block is told.
TakeWhole(H, b) ==
  LET K == Wr(remove_list(H, b), HDRP(b), PACK(GET_SIZE(H, HDRP(b)), GET_PREV_ALLOC(H, HDRP(b)) + CUR_ALLOC))
      next == HDRP(NEXT_BLKP(H, b))
  IN  Wr(K, next, Rd(H, next) - GET_PREV_ALLOC(H, next) + PREV_ALLOC)

\* The rest of a large block is split off.
LEMMA SplitOffIs ==
  ASSUME NEW H, NEW B, NEW S, NEW F, NEW r, Shape(H, B, S, F, r), NoTwins(S, F),
         NEW b \in F, NEW s \in Eights, 24 <= s, s + 24 <= S[b], NEW e, e = b + s,
         NEW S2, S2 = SplitSizes(S, b, s)
  PROVE  Taken(H, B, S, F, SplitOff(H, b, s), B \cup {e}, S2, (F \ {b}) \cup {e}, b, s)
<1> DEFINE m == H.brk
           B2 == B \cup {e}
           E == F \ {b}
           F2 == E \cup {e}
           H1 == remove_list(H, b)
           u == PACK(s, GET_PREV_ALLOC(H, HDRP(b)) + CUR_ALLOC)
           w == PACK(S[b] - s, PREV_ALLOC)
           K1 == Wr(H1, HDRP(b), u)
           K2 == Tag(K1, e, w)
           G == insert_list(K2, e, S[b] - s)
           last == b + S[b] - 8
<1>1. Chained(H, F, S, r) /\ Plan(B, S, F, m) /\ Tags(H, B, S, F, m) /\ IsHeap(H) /\ m \in Nat /\ m <= MaxHeap
  BY DEF Shape, Chained, IsHeap
<1> HIDE DEF m
<1>2. /\ Plan(B2, S2, F2, m)
      /\ e \in Eights /\ e \notin B /\ e # m /\ S2[b] = s /\ S2[e] = S[b] - s /\ e + S2[e] = b + S[b]
      /\ \A x \in (B \cup {m}) \ {b} : S2[x] = S[x]
      /\ \A x \in B \cup {m} : AfterFree(S2, F2, x) <=> AfterFree(S, F, x)
      /\ ~AfterFree(S2, F2, e)
  <2>1. IsSplit(B, S, F, m, b, s, e, B2, S2, F2)
    BY <1>1, SplitPlan
  <2> QED BY <2>1 DEF IsSplit
<1>3. /\ b \in B /\ b \in Int /\ S[b] \in Int /\ b \in Eights /\ S[b] \in Eights /\ b + S[b] <= m
      /\ s \in Int /\ e \in Int /\ m \in Int /\ F \subseteq B /\ m \notin B /\ 16 <= b /\ b # e
      /\ \A x \in B : x \in Int /\ S[x] \in Int /\ x \in Eights /\ S[x] \in Eights /\ 24 <= S[x] /\ 16 <= x
      /\ \A x, y \in B : x < y => x + S[x] <= y
  BY <1>1, <1>2 DEF Plan, Eights
<1>4. /\ GET_SIZE(H, HDRP(b)) = S[b] /\ Rd(H, b - 4) = Code(S, F, b)
      /\ GET_PREV_ALLOC(H, HDRP(b)) = IF AfterFree(S, F, b) THEN 0 ELSE 2
  <2>1. b \in B \cup {m}
    BY <1>3
  <2>2. Rd(H, b - 4) = Code(S, F, b)
    BY <1>1, <2>1 DEF Tags
  <2>3. /\ GET_SIZE(H, HDRP(b)) = S[b]
        /\ GET_PREV_ALLOC(H, HDRP(b)) = IF AfterFree(S, F, b) THEN 0 ELSE 2
    BY ONLY <1>1, <2>1, HeadReads
  <2> QED BY <2>2, <2>3
<1>5. G = SplitOff(H, b, s)
  BY <1>4 DEF SplitOff
<1>6. Chained(H1, E, S, r) /\ SameButLinks(H, H1, F) /\ IsHeap(H1)
  BY <1>1, <1>4, RemoveIs DEF Chained
<1>7. Tags(H1, B, S, F, m)
  BY <1>1, <1>6, TagsKept
<1> HIDE DEF H1, B2, F2
<1>0. B2 = B \cup {e} /\ F2 = E \cup {e} /\ E = F \ {b} /\ e \notin F2 \ {e} /\ e \notin E
  BY <1>2, <1>3 DEF B2, F2
<1> HIDE DEF E
<1>8. u = Code(S2, F2, b) /\ u \in Int
  <2>1. b \notin F2
    BY <1>0, <1>3
  <2>2. Code(S2, F2, b) = s + 1 + (IF AfterFree(S, F, b) THEN 0 ELSE 2)
    BY <1>2, <1>3, <2>1 DEF Code
  <2>3. u = s + ((IF AfterFree(S, F, b) THEN 0 ELSE 2) + 1)
    BY <1>4 DEF PACK, CUR_ALLOC
  <2> QED BY <1>3, <2>2, <2>3
<1>9. w = Code(S2, F2, e) /\ w \in Int /\ SizeOf(w) = S[b] - s
  <2>1. Code(S2, F2, e) = (S[b] - s) + 0 + 2
    BY <1>0, <1>2 DEF Code
  <2>2. w = (S[b] - s) + 2
    BY DEF PACK, PREV_ALLOC
  <2>3. w = Code(S2, F2, e) /\ w \in Int
    BY <1>3, <2>1, <2>2
  <2>4. SizeOf(Code(S2, F2, e)) = S2[e]
    <3>1. Plan(B2, S2, F2, m)
      BY <1>2
    <3>2. e \in B2 \cup {m}
      BY <1>0
    <3> QED BY ONLY <3>1, <3>2, CodeParts
  <2> QED BY <1>2, <2>3, <2>4
<1> HIDE DEF u, w
<1>10. /\ SameSize(H1, K1) /\ K1.glob = H1.glob
       /\ \A x : Rd(K1, x) = IF x = b - 4 THEN u ELSE Rd(H1, x)
  <2>1. b - 4 \in Word
    <3>1. b - 4 \in Int /\ (b - 4) % 4 = 0 /\ 0 <= b - 4 /\ (b - 4) + 4 <= MaxHeap
      BY <1>1, <1>3, HeapAssumption DEF Eights
    <3> QED BY <3>1, WordAt
  <2>2. K1 = Wr(H1, b - 4, u)
    BY DEF HDRP, WSIZE
  <2> HIDE DEF K1
  <2> QED BY ONLY <1>6, <1>8, <2>1, <2>2, WriteIs
<1> HIDE DEF K1
<1>11. IsHeap(K1)
  BY <1>10 DEF SameSize
<1>12. /\ SameSize(K1, K2) /\ K2.glob = K1.glob
       /\ \A x : Rd(K2, x) = IF x = e - 4 \/ x = last THEN w ELSE Rd(K1, x)
  <2> DEFINE d == S[b] - s
  <2>1. d \in Eights /\ 4 <= e /\ 8 <= d /\ e + d <= MaxHeap /\ d \in Int /\ e + d - 8 = last
    <3>1. d \in Eights
      BY <1>3, EightsSum
    <3> QED BY <1>1, <1>3, <3>1, HeapAssumption
  <2>2. SizeOf(w) = d
    BY <1>9
  <2> HIDE DEF d, K2
  <2>3. /\ SameSize(K1, Tag(K1, e, w)) /\ Tag(K1, e, w).glob = K1.glob
        /\ \A x : Rd(Tag(K1, e, w), x) = IF x = e - 4 \/ x = e + d - 8 THEN w ELSE Rd(K1, x)
    BY ONLY <1>2, <1>9, <1>11, <2>1, <2>2, TagIs
  <2> QED BY <2>1, <2>3 DEF K2
<1> HIDE DEF K2
<1>13. IsHeap(K2) /\ K2.glob = H1.glob
  BY <1>10, <1>12 DEF SameSize
<1>14. \A x : Rd(K2, x) = IF x = e - 4 \/ x = last THEN w ELSE IF x = b - 4 THEN u ELSE Rd(H1, x)
  BY <1>10, <1>12
<1>15. Roomy(F2)
  <2>1. Plan(B2, S2, F2, m) /\ m <= MaxHeap
    BY <1>1, <1>2
  <2> QED BY ONLY <2>1, LinksApart
<1>16. Chained(K2, E, S2, r)
  <2>1. \A y \in E : Rd(K2, y) = Rd(H1, y) /\ Rd(K2, y + 8) = Rd(H1, y + 8)
    <3> SUFFICES ASSUME NEW y \in E PROVE Rd(K2, y) = Rd(H1, y) /\ Rd(K2, y + 8) = Rd(H1, y + 8)
      OBVIOUS
    <3>1. /\ y \in F /\ y \in B /\ y # b /\ y \in Int /\ S[y] \in Int /\ 24 <= S[y]
          /\ y \in Eights /\ b \in Eights /\ S[b] \in Eights /\ e \in Eights
          /\ b \in Int /\ S[b] \in Int /\ e \in Int /\ s + 24 <= S[b] /\ e = b + s
          /\ 24 <= s /\ s \in Int
      BY <1>0, <1>2, <1>3
    <3>2. (y < b => y + S[y] <= b) /\ (b < y => b + S[b] <= y)
      BY <1>3, <3>1
    <3>3. y # e - 4 /\ y # last /\ y # b - 4 /\ y + 8 # e - 4 /\ y + 8 # last /\ y + 8 # b - 4
      BY ONLY <3>1, <3>2
    <3> QED BY <1>14, <3>3
  <2>2. \A y \in E : S2[y] = S[y]
    BY <1>0, <1>2, <1>3
  <2> QED BY ONLY <1>6, <1>13, <2>1, <2>2, ChainedSame
<1>17. /\ \E r2 \in Ranks : Chained(G, F2, S2, r2)
       /\ SameButLinks(K2, G, F2)
  <2>1. G = insert_list(K2, e, S2[e])
    BY <1>2
  <2>2. Roomy(E \cup {e}) /\ e \notin E
    BY <1>0, <1>15
  <2>3. \E r2 \in Ranks : Chained(insert_list(K2, e, S2[e]), E \cup {e}, S2, r2)
    BY ONLY <1>16, <2>2, InsertIs
  <2>4. SameButLinks(K2, insert_list(K2, e, S2[e]), E \cup {e})
    BY ONLY <1>16, <2>2, InsertIs
  <2> QED BY <1>0, <2>1, <2>3, <2>4
<1> HIDE DEF G
<1>18. IsHeap(G) /\ G.brk = m /\ G.fault = H.fault
  BY <1>6, <1>10, <1>12, <1>17 DEF SameSize, SameButLinks, m
<1>19. Tags(K2, B2, S2, F2, m)
  <2>1. ASSUME NEW c \in B2 \cup {m} PROVE Rd(K2, c - 4) = Code(S2, F2, c)
    <3>1. CASE c = e
      BY <1>9, <1>14, <3>1
    <3>2. CASE c = b
      <4>1. b - 4 # e - 4 /\ b - 4 # last
        BY <1>3, TagsDiffer
      <4> QED BY <1>8, <1>14, <3>2, <4>1
    <3>3. CASE c # e /\ c # b
      <4>0. m \in Eights /\ m \in Int
        BY <1>1 DEF Plan, Eights
      <4>1. c \in B \cup {m} /\ c \in Eights /\ c \in Int
        BY <1>0, <1>3, <3>3, <4>0
      <4>2. c - 4 # e - 4 /\ c - 4 # b - 4 /\ c - 4 # last
        BY <1>3, <3>3, <4>1, TagsDiffer
      <4>3. Rd(K2, c - 4) = Rd(H1, c - 4)
        BY <1>14, <4>2
      <4>4. Rd(H1, c - 4) = Code(S, F, c)
        BY <1>7, <4>1 DEF Tags
      <4>5. Code(S2, F2, c) = Code(S, F, c)
        <5>1. (c \in F2 <=> c \in F) /\ S2[c] = S[c] /\ (AfterFree(S2, F2, c) <=> AfterFree(S, F, c))
          BY <1>0, <1>2, <3>3, <4>1
        <5> QED BY <5>1 DEF Code
      <4> QED BY <4>3, <4>4, <4>5
    <3> QED BY <3>1, <3>2, <3>3
  <2>2. ASSUME NEW y \in F2 PROVE Rd(K2, y + S2[y] - 8) = Code(S2, F2, y)
    <3>1. CASE y = e
      <4>1. y + S2[y] - 8 = last
        BY <1>2, <1>3, <3>1
      <4> QED BY <1>9, <1>14, <3>1, <4>1
    <3>2. CASE y # e
      <4>1. y \in F /\ y \in B /\ y # b /\ S2[y] = S[y] /\ y \in Int /\ S[y] \in Int /\ y \in Eights /\ S[y] \in Eights
        BY <1>0, <1>2, <1>3, <3>2
      <4>2. y + S[y] # b + S[b]
        BY <1>1, <1>3, <4>1, OneEnd
      <4>3. y + S[y] - 8 # last
        BY <1>3, <4>1, <4>2
      <4>4. y + S[y] - 8 # e - 4 /\ y + S[y] - 8 # b - 4
        BY <1>2, <1>3, <4>1, TagsDiffer
      <4>5. Rd(K2, y + S[y] - 8) = Rd(H1, y + S[y] - 8)
        BY <1>14, <4>3, <4>4
      <4>6. Rd(H1, y + S[y] - 8) = Code(S, F, y)
        BY <1>7, <4>1 DEF Tags
      <4>7. Code(S2, F2, y) = Code(S, F, y)
        <5>1. AfterFree(S2, F2, y) <=> AfterFree(S, F, y)
          BY <1>2, <4>1
        <5> QED BY <4>1, <5>1 DEF Code
      <4> QED BY <4>1, <4>5, <4>6, <4>7
    <3> QED BY <3>1, <3>2
  <2> QED BY <2>1, <2>2 DEF Tags
<1>20. Tags(G, B2, S2, F2, m)
  <2>1. Plan(B2, S2, F2, m) /\ m <= MaxHeap /\ F2 \subseteq F2
    BY <1>1, <1>2
  <2> QED BY ONLY <1>17, <1>19, <2>1, TagsKept
<1>21. B2 \ F2 = (B \ F) \cup {b}
  BY <1>0, <1>2, <1>3
<1>22. Steady(H, S, G, S2, B \ F)
  <2>0. \A a \in B \ F : S2[a] = S[a] /\ a \in B2 \ F2
    BY <1>2, <1>21
  <2>1. Steady(H, S, H1, S2, B \ F)
    <3>1. Kept(H, H1, B \ F, S)
      <4>1. F \subseteq F
        OBVIOUS
      <4> QED BY ONLY <1>1, <1>6, <4>1, DataKept
    <3> QED BY <2>0, <3>1 DEF Steady
  <2>2. Steady(H1, S2, K2, S2, B \ F)
    <3> SUFFICES ASSUME NEW a \in B \ F, NEW x \in Int, a <= x, x < a + S2[a] - 4 PROVE Rd(K2, x) = Rd(H1, x)
      BY DEF Steady, Kept
    <3>1. a \in B /\ a # b /\ a \in Int /\ S[a] \in Int /\ 24 <= S[a] /\ S2[a] = S[a]
          /\ (a < b => a + S[a] <= b) /\ (b < a => b + S[b] <= a)
      BY <1>3, <2>0
    <3>2. b \in Int /\ S[b] \in Int /\ e \in Int /\ s \in Int /\ e = b + s /\ 24 <= s /\ s + 24 <= S[b]
          /\ a <= x /\ x < a + S2[a] - 4 /\ x \in Int
      BY <1>3
    <3>3. x # e - 4 /\ x # last /\ x # b - 4
      BY ONLY <3>1, <3>2
    <3> QED BY <1>14, <3>3
  <2>3. Steady(K2, S2, G, S2, B \ F)
    <3>1. Plan(B2, S2, F2, m) /\ m <= MaxHeap /\ F2 \subseteq F2
      BY <1>1, <1>2
    <3>2. Kept(K2, G, B2 \ F2, S2)
      BY ONLY <1>17, <3>1, DataKept
    <3> QED BY <1>21, <3>2 DEF Steady, Kept
  <2>4. Steady(H1, S2, G, S2, B \ F)
    BY <2>2, <2>3, SteadyTwice
  <2> QED BY <2>1, <2>4, SteadyTwice
<1>23. \E r2 \in Ranks : Shape(G, B2, S2, F2, r2)
  <2>1. Plan(B2, S2, F2, m) /\ m <= MaxHeap
    BY <1>1, <1>2
  <2> QED BY ONLY <1>17, <1>18, <1>20, <2>1 DEF Shape
<1>24. NoTwins(S2, F2)
  <2> SUFFICES ASSUME NEW x \in F2, x + S2[x] \in F2 PROVE FALSE
    BY DEF NoTwins
  <2>1. CASE x = e
    <3>1. b + S[b] \in F2 /\ b + S[b] # e
      BY <1>2, <1>3, <2>1
    <3> QED BY <1>0, <3>1 DEF NoTwins
  <2>2. CASE x # e
    <3>1. x \in F /\ S2[x] = S[x]
      BY <1>0, <1>2, <1>3, <2>2
    <3>2. x + S2[x] # e
      BY <1>2 DEF AfterFree
    <3> QED BY <1>0, <3>1, <3>2 DEF NoTwins
  <2> QED BY <2>1, <2>2
<1>25. H.brk <= G.brk /\ s <= S2[b]
  BY <1>1, <1>2, <1>3, <1>18 DEF m
<1>26. Taken(H, B, S, F, G, B2, S2, F2, b, s)
  BY <1>18, <1>21, <1>22, <1>23, <1>24, <1>25 DEF Taken
<1> QED BY <1>5, <1>26 DEF B2, F2, E

\* A block is taken whole.
LEMMA TakeWholeIs ==
  ASSUME NEW H, NEW B, NEW S, NEW F, NEW r, Shape(H, B, S, F, r), NoTwins(S, F),
         NEW b \in F, NEW s \in Int, s <= S[b]
  PROVE  Taken(H, B, S, F, TakeWhole(H, b), B, S, F \ {b}, b, s)
<1> DEFINE m == H.brk
           F2 == F \ {b}
           c == b + S[b]
           H1 == remove_list(H, b)
           u == PACK(GET_SIZE(H, HDRP(b)), GET_PREV_ALLOC(H, HDRP(b)) + CUR_ALLOC)
           v == Rd(H, c - 4) - GET_PREV_ALLOC(H, c - 4) + PREV_ALLOC
           K1 == Wr(H1, HDRP(b), u)
           G == Wr(K1, c - 4, v)
<1>1. Chained(H, F, S, r) /\ Plan(B, S, F, m) /\ Tags(H, B, S, F, m) /\ IsHeap(H) /\ m \in Nat /\ m <= MaxHeap
  BY DEF Shape, Chained, IsHeap
<1> HIDE DEF m
<1>2. /\ Plan(B, S, F2, m)
      /\ \A x \in B \cup {m} : AfterFree(S, F2, x) <=> AfterFree(S, F, x) /\ x # c
  BY <1>1, WholePlan
<1>3. /\ b \in B /\ b \in Int /\ S[b] \in Int /\ b \in Eights /\ S[b] \in Eights /\ b + S[b] <= m /\ 24 <= S[b]
      /\ m \in Int /\ m \in Eights /\ F \subseteq B /\ m \notin B /\ 16 <= b
      /\ c \in B \cup {m} /\ c \in Int /\ c \in Eights /\ S[c] \in Int /\ c # b /\ 16 <= c /\ c <= m
      /\ \A x \in B : x \in Int /\ S[x] \in Int /\ x \in Eights /\ S[x] \in Eights /\ 24 <= S[x] /\ 16 <= x /\ x + S[x] <= m
      /\ \A x, y \in B : x < y => x + S[x] <= y
  <2>1. /\ \A x \in B : x \in Int /\ S[x] \in Int /\ x \in Eights /\ S[x] \in Eights /\ 24 <= S[x] /\ 16 <= x
                        /\ x + S[x] <= m /\ x + S[x] \in B \cup {m}
        /\ \A x, y \in B : x < y => x + S[x] <= y
        /\ m \in Int /\ m \in Eights /\ F \subseteq B /\ m \notin B /\ S[m] = 0
    BY <1>1 DEF Plan, Eights
  <2>2. c \in B \cup {m} /\ c \in Int /\ c \in Eights /\ S[c] \in Int /\ c # b /\ 16 <= c /\ c <= m
    BY <2>1
  <2> QED BY <2>1, <2>2
<1>4. /\ GET_SIZE(H, HDRP(b)) = S[b] /\ NEXT_BLKP(H, b) = c
      /\ GET_PREV_ALLOC(H, HDRP(b)) = IF AfterFree(S, F, b) THEN 0 ELSE 2
  <2>1. b \in B \cup {m}
    BY <1>3
  <2> QED BY ONLY <1>1, <2>1, HeadReads
<1>5. G = TakeWhole(H, b)
  BY <1>4 DEF TakeWhole, HDRP, WSIZE
<1>6. /\ Rd(H, c - 4) = Code(S, F, c)
      /\ GET_PREV_ALLOC(H, c - 4) = IF AfterFree(S, F, c) THEN 0 ELSE 2
  <2>1. GET_PREV_ALLOC(H, HDRP(c)) = IF AfterFree(S, F, c) THEN 0 ELSE 2
    BY ONLY <1>1, <1>3, HeadReads
  <2>2. Rd(H, c - 4) = Code(S, F, c)
    BY <1>1, <1>3 DEF Tags
  <2> QED BY <2>1, <2>2 DEF HDRP, WSIZE
<1>7. Chained(H1, F2, S, r) /\ SameButLinks(H, H1, F) /\ IsHeap(H1)
  BY <1>1, <1>4, RemoveIs DEF Chained
<1>8. Tags(H1, B, S, F, m)
  BY <1>1, <1>7, TagsKept
<1> HIDE DEF H1
<1>9. b + S[b] = c /\ c \notin F /\ c \notin F2
  BY DEF NoTwins
<1> HIDE DEF c
<1>10. u = Code(S, F2, b) /\ u \in Int
  <2>1. Code(S, F2, b) = S[b] + 1 + (IF AfterFree(S, F, b) THEN 0 ELSE 2)
    BY <1>2, <1>3 DEF Code
  <2>2. u = S[b] + ((IF AfterFree(S, F, b) THEN 0 ELSE 2) + 1)
    BY <1>4 DEF PACK, CUR_ALLOC
  <2> QED BY <1>3, <2>1, <2>2
<1>11. v = Code(S, F2, c) /\ v \in Int
  <2>1. AfterFree(S, F, c)
    BY <1>9 DEF AfterFree
  <2>2. Code(S, F2, c) = S[c] + 1 + 2
    BY <1>2, <1>3, <1>9 DEF Code
  <2>3. Code(S, F, c) = S[c] + 1 + 0
    BY <1>9, <2>1 DEF Code
  <2>4. v = (S[c] + 1 + 0) - 0 + 2
    BY <1>6, <2>1, <2>3 DEF PREV_ALLOC
  <2> QED BY <1>3, <2>2, <2>4
<1> HIDE DEF u, v
<1>12. b - 4 \in Word /\ c - 4 \in Word
  <2>1. /\ b - 4 \in Int /\ (b - 4) % 4 = 0 /\ 0 <= b - 4 /\ (b - 4) + 4 <= MaxHeap
        /\ c - 4 \in Int /\ (c - 4) % 4 = 0 /\ 0 <= c - 4 /\ (c - 4) + 4 <= MaxHeap
    BY <1>1, <1>3, HeapAssumption DEF Eights
  <2> QED BY <2>1, WordAt
<1>13. /\ SameSize(H1, K1) /\ K1.glob = H1.glob
       /\ \A x : Rd(K1, x) = IF x = b - 4 THEN u ELSE Rd(H1, x)
  <2>1. K1 = Wr(H1, b - 4, u)
    BY DEF HDRP, WSIZE
  <2>2. IsHeap(H1)
    BY <1>7
  <2>3. b - 4 \in Word
    BY <1>12
  <2>4. u \in Int
    BY <1>10
  <2> HIDE DEF K1
  <2> QED BY ONLY <2>1, <2>2, <2>3, <2>4, WriteIs
<1> HIDE DEF K1
<1>14. IsHeap(K1)
  BY <1>13 DEF SameSize
<1>15. /\ SameSize(K1, G) /\ G.glob = K1.glob
       /\ \A x : Rd(G, x) = IF x = c - 4 THEN v ELSE Rd(K1, x)
  <2>1. G = Wr(K1, c - 4, v)
    OBVIOUS
  <2>3. c - 4 \in Word
    BY <1>12
  <2>4. v \in Int
    BY <1>11
  <2> HIDE DEF G
  <2> QED BY ONLY <1>14, <2>1, <2>3, <2>4, WriteIs
<1> HIDE DEF G
<1>16. IsHeap(G) /\ G.glob = H1.glob /\ G.brk = m /\ G.fault = H.fault
  BY <1>7, <1>13, <1>15 DEF SameSize, SameButLinks, m
<1>17. \A x : Rd(G, x) = IF x = c - 4 THEN v ELSE IF x = b - 4 THEN u ELSE Rd(H1, x)
  BY <1>13, <1>15
<1>18. Chained(G, F2, S, r)
  <2>1. \A y \in F2 : Rd(G, y) = Rd(H1, y) /\ Rd(G, y + 8) = Rd(H1, y + 8)
    <3> SUFFICES ASSUME NEW y \in F2 PROVE Rd(G, y) = Rd(H1, y) /\ Rd(G, y + 8) = Rd(H1, y + 8)
      OBVIOUS
    <3>1. y \in Eights /\ b \in Eights /\ c \in Eights
      BY <1>3
    <3>2. y # c - 4 /\ y # b - 4 /\ y + 8 # c - 4 /\ y + 8 # b - 4
      BY ONLY <3>1 DEF Eights
    <3> QED BY <1>17, <3>2
  <2>2. \A y \in F2 : S[y] = S[y]
    OBVIOUS
  <2> QED BY ONLY <1>7, <1>16, <2>1, <2>2, ChainedSame
<1>19. Tags(G, B, S, F2, m)
  <2>1. ASSUME NEW x \in B \cup {m} PROVE Rd(G, x - 4) = Code(S, F2, x)
    <3>1. CASE x = c
      BY <1>11, <1>17, <3>1
    <3>2. CASE x = b
      <4>1. b - 4 # c - 4
        BY <1>3
      <4> QED BY <1>10, <1>17, <3>2, <4>1
    <3>3. CASE x # c /\ x # b
      <4>1. x \in Int /\ x - 4 # c - 4 /\ x - 4 # b - 4
        BY <1>3, <3>3
      <4>2. Rd(G, x - 4) = Rd(H1, x - 4)
        BY <1>17, <4>1
      <4>3. Rd(H1, x - 4) = Code(S, F, x)
        BY <1>8 DEF Tags
      <4>4. Code(S, F2, x) = Code(S, F, x)
        BY <1>2, <3>3 DEF Code
      <4> QED BY <4>2, <4>3, <4>4
    <3> QED BY <3>1, <3>2, <3>3
  <2>2. ASSUME NEW y \in F2 PROVE Rd(G, y + S[y] - 8) = Code(S, F2, y)
    <3>1. y \in F /\ y \in B /\ y \in Eights /\ S[y] \in Eights /\ b \in Eights /\ c \in Eights /\ y # b /\ y # c
      BY <1>3, <1>9
    <3>2. y + S[y] - 8 # c - 4 /\ y + S[y] - 8 # b - 4
      BY <3>1, TagsDiffer
    <3>3. Rd(G, y + S[y] - 8) = Rd(H1, y + S[y] - 8)
      BY <1>17, <3>2
    <3>4. Rd(H1, y + S[y] - 8) = Code(S, F, y)
      BY <1>8, <3>1 DEF Tags
    <3>5. Code(S, F2, y) = Code(S, F, y)
      BY <1>2, <3>1 DEF Code
    <3> QED BY <3>3, <3>4, <3>5
  <2> QED BY <2>1, <2>2 DEF Tags
<1>20. B \ F2 = (B \ F) \cup {b}
  BY <1>3
<1>21. Steady(H, S, G, S, B \ F)
  <2>1. Steady(H, S, H1, S, B \ F)
    <3>1. Kept(H, H1, B \ F, S)
      <4>1. F \subseteq F
        OBVIOUS
      <4> QED BY ONLY <1>1, <1>7, <4>1, DataKept
    <3> QED BY <3>1 DEF Steady
  <2>2. Steady(H1, S, G, S, B \ F)
    <3> SUFFICES ASSUME NEW a \in B \ F, NEW x \in Int, a <= x, x < a + S[a] - 4 PROVE Rd(G, x) = Rd(H1, x)
      BY DEF Steady, Kept
    <3>1. a \in B /\ a # b /\ a \in Int /\ S[a] \in Int /\ 24 <= S[a] /\ a + S[a] <= m
          /\ (a < b => a + S[a] <= b) /\ (b < a => b + S[b] <= a)
      BY <1>3
    <3>2. (c \in B => (a < c => a + S[a] <= c)) /\ (c \notin B => c = m)
      BY <1>3
    <3>3. b \in Int /\ S[b] \in Int /\ c \in Int /\ c = b + S[b] /\ 24 <= S[b] /\ m \in Int
          /\ a <= x /\ x < a + S[a] - 4 /\ x \in Int
      BY <1>3, <1>9
    <3>4. x # c - 4 /\ x # b - 4
      BY ONLY <3>1, <3>2, <3>3
    <3> QED BY <1>17, <3>4
  <2> QED BY <2>1, <2>2, SteadyTwice
<1>22. \E r2 \in Ranks : Shape(G, B, S, F2, r2)
  BY <1>1, <1>2, <1>7, <1>16, <1>18, <1>19 DEF Shape, Chained
<1>23. NoTwins(S, F2)
  BY DEF NoTwins
<1>24. H.brk <= G.brk
  BY <1>1, <1>16 DEF m
<1>25. Taken(H, B, S, F, G, B, S, F2, b, s)
  BY <1>16, <1>20, <1>21, <1>22, <1>23, <1>24 DEF Taken
<1> QED BY <1>5, <1>25

\* From H to G, some free block is taken: of n bytes or more, at p.
IsTaken(H, B, S, F, G, p, n) == \E B2, S2, F2 : Taken(H, B, S, F, G, B2, S2, F2, p, n)

\* What place does with a free block that is large enough.
LEMMA PlaceIs ==
  ASSUME NEW H, NEW B, NEW S, NEW F, NEW r, Shape(H, B, S, F, r), NoTwins(S, F),
         NEW b \in F, NEW s \in Eights, 24 <= s, s <= S[b]
  PROVE  IsTaken(H, B, S, F, place(H, b, s), b, s)
<1>1. GET_SIZE(H, HDRP(b)) = S[b] /\ S[b] \in Int /\ s \in Int
  <2>1. Plan(B, S, F, H.brk) /\ Tags(H, B, S, F, H.brk) /\ b \in B \cup {H.brk} /\ s \in Int
    BY DEF Shape, Plan, Eights
  <2>2. GET_SIZE(H, HDRP(b)) = S[b] /\ S[b] \in Int
    BY ONLY <2>1, HeadReads
  <2> QED BY <2>1, <2>2
<1>2. CASE S[b] - s >= 24
  <2>1. place(H, b, s) = SplitOff(H, b, s)
    BY <1>1, <1>2 DEF place, SplitOff, MINBLOCK
  <2>2. s + 24 <= S[b]
    BY <1>1, <1>2
  <2> DEFINE S2 == SplitSizes(S, b, s)
             e == b + s
             G == SplitOff(H, b, s)
  <2>3. e = b + s /\ S2 = SplitSizes(S, b, s)
    OBVIOUS
  <2> HIDE DEF e, S2
  <2>4. Taken(H, B, S, F, G, B \cup {e}, S2, (F \ {b}) \cup {e}, b, s)
    BY <2>2, <2>3, SplitOffIs
  <2> HIDE DEF G
  <2>5. IsTaken(H, B, S, F, G, b, s)
    BY <2>4 DEF IsTaken
  <2> QED BY <2>1, <2>5 DEF G
<1>3. CASE ~(S[b] - s >= 24)
  <2>1. place(H, b, s) = TakeWhole(H, b)
    BY <1>1, <1>3 DEF place, TakeWhole, MINBLOCK
  <2>2. Taken(H, B, S, F, TakeWhole(H, b), B, S, F \ {b}, b, s)
    BY <1>1, TakeWholeIs
  <2> QED BY <2>1, <2>2 DEF IsTaken
<1> QED BY <1>2, <1>3

-----------------------------------------------------------------------------
(* Walks.                                                                  *)

\* w walks along next for up to N steps.
IsWalk(w, next, N) ==
  w = [n \in 0..N |-> [b \in Int |-> IF n = 0 \/ b = NULL THEN <<>> ELSE <<b>> \o w[n - 1][next[b]]]]

\* There are walks.
LEMMA WalkExists == ASSUME NEW next, NEW N \in Nat PROVE \E w : IsWalk(w, next, N)
<1> DEFINE T == {n \in Nat : \E w : IsWalk(w, next, n)}
<1>1. 0 \in T
  <2> DEFINE w == [n \in 0..0 |-> [b \in Int |-> <<>>]]
  <2>1. w = [n \in 0..0 |-> [b \in Int |-> IF n = 0 \/ b = NULL THEN <<>> ELSE <<b>> \o w[n - 1][next[b]]]]
    OBVIOUS
  <2> QED BY <2>1 DEF IsWalk
<1>2. ASSUME NEW n \in Nat, n \in T PROVE n + 1 \in T
  <2>1. PICK w : IsWalk(w, next, n)
    BY <1>2
  <2> DEFINE row == [b \in Int |-> IF b = NULL THEN <<>> ELSE <<b>> \o w[n][next[b]]]
             w2 == [k \in 0..(n + 1) |-> IF k <= n THEN w[k] ELSE row]
             step == [k \in 0..(n + 1) |->
                        [b \in Int |-> IF k = 0 \/ b = NULL THEN <<>> ELSE <<b>> \o w2[k - 1][next[b]]]]
  <2>2. ASSUME NEW k \in 0..(n + 1) PROVE w2[k] = step[k]
    <3>1. CASE k <= n
      <4>1. w[k] = [b \in Int |-> IF k = 0 \/ b = NULL THEN <<>> ELSE <<b>> \o w[k - 1][next[b]]]
        <5>1. k \in 0..n
          BY <3>1
        <5> QED BY <2>1, <5>1 DEF IsWalk
      <4>2. CASE k = 0
        <5>1. w[k] = [b \in Int |-> <<>>] /\ step[k] = [b \in Int |-> <<>>]
          BY <4>1, <4>2
        <5> QED BY <3>1, <5>1
      <4>3. CASE k # 0
        <5>1. k - 1 \in 0..(n + 1) /\ k - 1 <= n
          BY <3>1, <4>3
        <5>2. w2[k - 1] = w[k - 1]
          BY <5>1
        <5>3. w2[k] = w[k]
          BY <3>1
        <5> QED BY <4>1, <5>2, <5>3
      <4> QED BY <4>2, <4>3
    <3>2. CASE ~(k <= n)
      <4>1. k = n + 1 /\ k # 0 /\ k - 1 = n /\ n \in 0..(n + 1)
        BY <3>2
      <4>2. w2[k - 1] = w[n] /\ w2[k] = row
        BY <3>2, <4>1
      <4>3. step[k] = [b \in Int |-> IF k = 0 \/ b = NULL THEN <<>> ELSE <<b>> \o w2[k - 1][next[b]]]
        OBVIOUS
      <4> QED BY <4>1, <4>2, <4>3
    <3> QED BY <3>1, <3>2
  <2>3. w2 = step
    BY <2>2
  <2>4. IsWalk(w2, next, n + 1)
    BY <2>3 DEF IsWalk
  <2> QED BY <2>4
<1> HIDE DEF T
<1>3. N \in T
  BY <1>1, <1>2, NatInSet
<1> QED BY <1>3 DEF T

\* What Follow gives is a walk's.
LEMMA FollowIs ==
  ASSUME NEW next, NEW N \in Nat
  PROVE  \E w : IsWalk(w, next, N) /\ \A b : Follow(next, b, N) = w[N][b]
<1> DEFINE w == CHOOSE w : IsWalk(w, next, N)
<1>1. IsWalk(w, next, N)
  BY WalkExists
<1>2. ASSUME NEW b PROVE Follow(next, b, N) = w[N][b]
  BY DEF Follow, IsWalk
<1> QED BY <1>1, <1>2

\* A step from one of the blocks G leads to another of higher rank, or nowhere.
Climbs(next, G, f) ==
  /\ G \subseteq Int \ {NULL} /\ f \in Ranks
  /\ \A b \in G : next[b] # NULL => next[b] \in G /\ f[b] < f[next[b]]

\* q is the path from b, of n blocks if it is not complete.
IsPath(q, b, next, G, f, n) ==
  /\ q \in Seq(G)
  /\ b = NULL => q = <<>>
  /\ Len(q) > 0 => q[1] = b
  /\ \A k \in 1..(Len(q) - 1) : q[k + 1] = next[q[k]]
  /\ \A k, l \in 1..Len(q) : k < l => f[q[k]] < f[q[l]]
  /\ Len(q) < n => b = NULL \/ (Len(q) > 0 /\ next[q[Len(q)]] = NULL)
  /\ Len(q) <= n

\* A path and one more block before it.
LEMMA PathOn ==
  ASSUME NEW next, NEW G, NEW f, Climbs(next, G, f), NEW n \in Nat,
         NEW b \in G, NEW q, IsPath(q, next[b], next, G, f, n)
  PROVE  IsPath(<<b>> \o q, b, next, G, f, n + 1)
<1> DEFINE p == <<b>> \o q
           Z == Len(q)
<1>1. /\ q \in Seq(G) /\ Z \in Nat /\ Z <= n
      /\ next[b] = NULL => q = <<>>
      /\ Z > 0 => q[1] = next[b]
      /\ Z < n => next[b] = NULL \/ (Z > 0 /\ next[q[Z]] = NULL)
  BY DEF IsPath
<1>2. /\ \A k \in 1..(Z - 1) : q[k + 1] = next[q[k]]
      /\ \A k, l \in 1..Z : k < l => f[q[k]] < f[q[l]]
  BY DEF IsPath
<1>3. p \in Seq(G) /\ Len(p) = Z + 1 /\ p[1] = b /\ \A k \in 1..Z : p[k + 1] = q[k] /\ q[k] \in G
  BY <1>1
<1>4. \A x \in G : f[x] \in Int
  BY DEF Climbs, Ranks
<1>5. b # NULL /\ (next[b] # NULL => f[b] < f[next[b]])
  BY DEF Climbs
<1> HIDE DEF p, Z
<1>6. ASSUME NEW k \in 1..((Z + 1) - 1) PROVE p[k + 1] = next[p[k]]
  <2>1. CASE k = 1
    <3>1. p[1 + 1] = q[1] /\ Z > 0
      BY <1>1, <1>3, <2>1
    <3> QED BY <1>1, <1>3, <2>1, <3>1
  <2>2. CASE k # 1
    <3>1. k - 1 \in 1..Z /\ k \in 1..Z /\ k - 1 \in 1..(Z - 1) /\ (k - 1) + 1 = k
      BY <1>1, <2>2
    <3>2. p[k + 1] = q[k] /\ p[k] = q[k - 1]
      BY <1>3, <3>1
    <3>3. q[k] = next[q[k - 1]]
      BY <1>2, <3>1
    <3> QED BY <3>2, <3>3
  <2> QED BY <2>1, <2>2
<1>7. ASSUME NEW l \in 1..Z PROVE f[b] < f[q[l]]
  <2>1. 1 \in 1..Z /\ q[1] = next[b] /\ q[1] \in G /\ q[l] \in G /\ f[q[1]] \in Int /\ f[q[l]] \in Int
    BY <1>1, <1>3, <1>4
  <2>2. f[b] < f[q[1]]
    BY <1>5, <2>1 DEF Climbs
  <2>3. l = 1 \/ f[q[1]] < f[q[l]]
    BY <1>1, <1>2, <2>1
  <2> QED BY <1>4, <2>1, <2>2, <2>3
<1>8. ASSUME NEW k \in 1..(Z + 1), NEW l \in 1..(Z + 1), k < l PROVE f[p[k]] < f[p[l]]
  <2>1. l - 1 \in 1..Z /\ p[l] = q[l - 1]
    <3>1. l - 1 \in 1..Z /\ (l - 1) + 1 = l
      BY <1>1, <1>8
    <3> QED BY <1>3, <3>1
  <2>2. CASE k = 1
    BY <1>3, <1>7, <2>1, <2>2
  <2>3. CASE k # 1
    <3>1. k - 1 \in 1..Z /\ (k - 1) + 1 = k /\ k - 1 < l - 1
      BY <1>1, <1>8, <2>3
    <3>2. p[k] = q[k - 1]
      BY <1>3, <3>1
    <3> QED BY <1>2, <2>1, <3>1, <3>2
  <2> QED BY <2>2, <2>3
<1>9. Z + 1 < n + 1 => Z + 1 > 0 /\ next[p[Z + 1]] = NULL
  <2>1. CASE Z = 0
    <3>1. Z < n => next[b] = NULL
      BY <1>1, <2>1
    <3> QED BY <1>1, <1>3, <2>1, <3>1
  <2>2. CASE Z # 0
    <3>1. Z \in 1..Z /\ p[Z + 1] = q[Z]
      BY <1>1, <1>3, <2>2
    <3>2. next[b] # NULL
      BY <1>1, <2>2 DEF Z
    <3> QED BY <1>1, <3>1, <3>2
  <2> QED BY <2>1, <2>2
<1>10. Len(p) <= n + 1 /\ Len(p) = Z + 1 /\ p \in Seq(G)
  BY <1>1, <1>3
<1>11. IsPath(p, b, next, G, f, n + 1)
  BY <1>3, <1>5, <1>6, <1>8, <1>9, <1>10 DEF IsPath
<1> QED BY <1>11 DEF p

\* A walk along a climb is a path.
LEMMA WalkIsPath ==
  ASSUME NEW next, NEW G, NEW f, Climbs(next, G, f), NEW N \in Nat, NEW w, IsWalk(w, next, N)
  PROVE  \A n \in 0..N : \A b \in G \cup {NULL} : IsPath(w[n][b], b, next, G, f, n)
<1> DEFINE Good(n) == \A b \in G \cup {NULL} : IsPath(w[n][b], b, next, G, f, n)
           T == {n \in Nat : n <= N => Good(n)}
<1>0. G \cup {NULL} \subseteq Int /\ NULL = 0 /\ NULL \in Int
  BY DEF Climbs, NULL
<1>1. ASSUME NEW n \in 0..N, NEW b \in G \cup {NULL}
      PROVE  w[n][b] = IF n = 0 \/ b = NULL THEN <<>> ELSE <<b>> \o w[n - 1][next[b]]
  <2>1. w[n] = [c \in Int |-> IF n = 0 \/ c = NULL THEN <<>> ELSE <<c>> \o w[n - 1][next[c]]]
    BY DEF IsWalk
  <2>2. b \in Int
    BY <1>0
  <2> QED BY <2>1, <2>2
<1>2. ASSUME NEW b, NEW n \in Nat, n = 0 \/ b = NULL PROVE IsPath(<<>>, b, next, G, f, n)
  <2> DEFINE q == <<>>
  <2>1. q \in Seq(G) /\ Len(q) = 0 /\ q = <<>>
    OBVIOUS
  <2> HIDE DEF q
  <2>2. IsPath(q, b, next, G, f, n)
    BY <1>2, <2>1 DEF IsPath
  <2> QED BY <2>1, <2>2
<1>3. 0 \in T
  <2>1. ASSUME NEW b \in G \cup {NULL} PROVE IsPath(w[0][b], b, next, G, f, 0)
    <3>1. w[0][b] = <<>>
      <4>1. 0 \in 0..N
        OBVIOUS
      <4> QED BY <1>1, <4>1
    <3> QED BY <1>2, <3>1
  <2> QED BY <2>1
<1>4. ASSUME NEW n \in Nat, n \in T PROVE n + 1 \in T
  <2> SUFFICES ASSUME n + 1 <= N PROVE Good(n + 1)
    OBVIOUS
  <2> SUFFICES ASSUME NEW b \in G \cup {NULL} PROVE IsPath(w[n + 1][b], b, next, G, f, n + 1)
    OBVIOUS
  <2>1. n + 1 \in 0..N /\ n + 1 # 0 /\ (n + 1) - 1 = n /\ n <= N /\ n + 1 \in Nat
    OBVIOUS
  <2>2. CASE b = NULL
    <3>1. w[n + 1][b] = <<>>
      BY <1>1, <2>1, <2>2
    <3> QED BY <1>2, <2>1, <2>2, <3>1
  <2>3. CASE b # NULL
    <3>1. w[n + 1][b] = <<b>> \o w[n][next[b]] /\ b \in G
      BY <1>1, <2>1, <2>3
    <3>2. next[b] \in G \cup {NULL}
      BY <3>1 DEF Climbs
    <3>3. IsPath(w[n][next[b]], next[b], next, G, f, n)
      BY <1>4, <2>1, <3>2
    <3> QED BY <3>1, <3>3, PathOn
  <2> QED BY <2>2, <2>3
<1> HIDE DEF T
<1>5. Nat \subseteq T
  BY <1>3, <1>4, NatInSet
<1> QED BY <1>5 DEF T

\* The whole path from b.
IsWholePath(q, b, next, G, f) ==
  /\ q \in Seq(G)
  /\ b = NULL => q = <<>>
  /\ b # NULL => Len(q) > 0 /\ q[1] = b /\ next[q[Len(q)]] = NULL
  /\ \A k \in 1..(Len(q) - 1) : q[k + 1] = next[q[k]]
  /\ \A k, l \in 1..Len(q) : k < l => f[q[k]] < f[q[l]]

\* With enough steps the path is whole.
LEMMA FollowsAll ==
  ASSUME NEW next, NEW G, NEW f, Climbs(next, G, f), IsFiniteSet(G),
         NEW N \in Nat, Cardinality(G) < N, NEW b \in G \cup {NULL}
  PROVE  IsWholePath(Follow(next, b, N), b, next, G, f)
<1>1. PICK w : IsWalk(w, next, N) /\ \A c : Follow(next, c, N) = w[N][c]
  BY FollowIs
<1> DEFINE q == Follow(next, b, N)
<1>2. IsPath(q, b, next, G, f, N)
  <2>1. N \in 0..N
    OBVIOUS
  <2> QED BY <1>1, <2>1, WalkIsPath
<1> HIDE DEF q
<1>3. q \in Seq(G) /\ Len(q) \in Nat /\ \A k \in 1..Len(q) : q[k] \in G
  BY <1>2 DEF IsPath
<1>4. \A k, l \in 1..Len(q) : q[k] = q[l] => k = l
  <2>1. \A k, l \in 1..Len(q) : k < l => f[q[k]] < f[q[l]]
    BY <1>2 DEF IsPath
  <2>2. \A k \in 1..Len(q) : f[q[k]] \in Int
    BY <1>3 DEF Climbs, Ranks
  <2> QED BY <1>3, <2>1, <2>2
<1>5. Len(q) < N
  <2> DEFINE S == {q[k] : k \in 1..Len(q)}
  <2>1. Cardinality(S) = Len(q)
    <3>1. \A w2 : w2 \in S <=> \E p \in 1..Len(q) : q[p] = w2
      OBVIOUS
    <3> HIDE DEF S
    <3> QED BY <1>3, <1>4, <3>1, CountSeq
  <2>2. Cardinality(S) <= Cardinality(G) /\ Cardinality(G) \in Nat
    BY <1>3, FS_Subset, FS_CardinalityType
  <2> HIDE DEF S
  <2>3. Len(q) \in Nat
    BY <1>3
  <2> QED BY ONLY <2>1, <2>2, <2>3, Cardinality(G) < N, N \in Nat
<1>6. IsWholePath(q, b, next, G, f)
  <2>1. b # NULL => Len(q) > 0 /\ q[1] = b /\ next[q[Len(q)]] = NULL
    BY <1>2, <1>5 DEF IsPath
  <2> QED BY <1>2, <2>1 DEF IsPath, IsWholePath
<1> QED BY <1>6 DEF q

-----------------------------------------------------------------------------
(* Lists.                                                                  *)

\* No heap of this size holds as many blocks as the walks have steps.
LEMMA FewBlocks ==
  ASSUME NEW B, NEW S, NEW F, NEW m, Plan(B, S, F, m), m <= MaxHeap
  PROVE  /\ IsFiniteSet(B) /\ Cardinality(B) < MaxBlocks
         /\ IsFiniteSet(F) /\ Cardinality(F) < MaxBlocks
         /\ MaxBlocks \in Nat
<1> DEFINE n == MaxHeap \div 8
           g == [b \in B |-> b \div 8]
<1>1. \A b \in B : b \in Int /\ b % 8 = 0 /\ 16 <= b /\ 24 <= S[b] /\ S[b] \in Int /\ b + S[b] <= m
  BY DEF Plan, Eights
<1>2. m \in Int /\ n \in Nat /\ MaxHeap \in Nat
  BY HeapAssumption DEF Plan, Eights
<1>3. ASSUME NEW b \in B PROVE b \div 8 \in 1..n /\ b = 8 * (b \div 8)
  <2>1. b \in Int /\ b % 8 = 0 /\ 16 <= b /\ b <= MaxHeap
    BY <1>1, <1>2
  <2>2. b = 8 * (b \div 8) /\ b \div 8 \in Int
    BY <2>1
  <2>3. MaxHeap = 8 * n + (MaxHeap % 8) /\ MaxHeap % 8 \in 0..7
    BY <1>2
  <2> HIDE DEF n
  <2> QED BY <1>2, <2>1, <2>2, <2>3
<1>4. g \in Injection(B, 1..n)
  <2>1. g \in [B -> 1..n]
    BY <1>3
  <2>2. \A b, c \in B : g[b] = g[c] => b = c
    BY <1>3
  <2> QED BY <2>1, <2>2 DEF Injection, IsInjective
<1>5. IsFiniteSet(1..n) /\ Cardinality(1..n) <= n
  <2>1. 1 \in Int /\ n \in Int
    BY <1>2
  <2>2. IsFiniteSet(1..n) /\ Cardinality(1..n) = IF 1 > n THEN 0 ELSE n - 1 + 1
    BY <2>1, FS_Interval
  <2> QED BY <1>2, <2>2
<1> HIDE DEF g, n
<1>6. IsFiniteSet(B) /\ Cardinality(B) <= Cardinality(1..n)
  BY <1>4, <1>5, FS_Injection
<1>7. F \subseteq B
  BY DEF Plan
<1>8. IsFiniteSet(F) /\ Cardinality(F) <= Cardinality(B)
  BY <1>6, <1>7, FS_Subset
<1>9. Cardinality(B) \in Nat /\ Cardinality(F) \in Nat /\ Cardinality(1..n) \in Nat
  BY <1>5, <1>6, <1>8, FS_CardinalityType
<1>10. MaxBlocks = n + 1
  BY DEF MaxBlocks, n
<1> QED BY <1>2, <1>5, <1>6, <1>8, <1>9, <1>10

\* Some block of a finite set is of the lowest rank.
LEMMA LowestRank ==
  ASSUME NEW T, IsFiniteSet(T), T \subseteq Int, T # {}, NEW r \in Ranks
  PROVE  \E x \in T : \A y \in T : r[x] <= r[y]
<1> DEFINE Low(U) == U = {} \/ \E x \in U : \A y \in U : r[x] <= r[y]
           E == {U \in SUBSET T : Low(U)}
<1>1. ASSUME NEW U \in SUBSET T, \A V \in SUBSET U : V # U => V \in E PROVE U \in E
  <2> SUFFICES ASSUME U # {} PROVE Low(U)
    OBVIOUS
  <2>1. PICK x : x \in U
    OBVIOUS
  <2> DEFINE V == U \ {x}
  <2>2. V \in SUBSET U /\ V # U
    BY <2>1
  <2>3. Low(V)
    BY <1>1, <2>2
  <2>4. \A y \in U : r[y] \in Int
    BY DEF Ranks
  <2>5. CASE V = {}
    <3>1. \A y \in U : y = x
      BY <2>5
    <3>2. r[x] <= r[x]
      BY <2>1, <2>4
    <3> QED BY <2>1, <3>1, <3>2
  <2>6. CASE V # {}
    <3>1. PICK z \in V : \A y \in V : r[z] <= r[y]
      BY <2>3, <2>6
    <3>2. r[x] \in Int /\ r[z] \in Int /\ z \in U /\ x \in U
      BY <2>1, <2>4
    <3>3. CASE r[x] <= r[z]
      <4>1. \A y \in U : r[x] <= r[y]
        BY <2>4, <3>1, <3>2, <3>3
      <4> QED BY <3>2, <4>1
    <3>4. CASE ~(r[x] <= r[z])
      <4>1. \A y \in U : r[z] <= r[y]
        BY <2>4, <3>1, <3>2, <3>4
      <4> QED BY <3>2, <4>1
    <3> QED BY <3>3, <3>4
  <2> QED BY <2>5, <2>6
<1>2. E \subseteq SUBSET T
  OBVIOUS
<1> HIDE DEF E
<1>3. T \in E
  BY <1>1, <1>2, SetInduction
<1> QED BY <1>3 DEF E

\* l holds the blocks of the list i, each once, with its link back.
IsList(H, S, F, i, l) ==
  /\ l \in Seq(F)
  /\ \A k \in 1..Len(l) : index_of(S[l[k]]) = i
  /\ \A k \in 1..Len(l) : Rd(H, l[k] + 8) = IF k = 1 THEN NULL ELSE l[k - 1]
  /\ \A j, k \in 1..Len(l) : l[j] = l[k] => j = k
  /\ \A b \in F : index_of(S[b]) = i => \E k \in 1..Len(l) : l[k] = b

\* Following the links from a list's head finds its blocks.
LEMMA ListIs ==
  ASSUME NEW H, NEW B, NEW S, NEW F, NEW r, Shape(H, B, S, F, r), NEW i \in Lists
  PROVE  IsList(H, S, F, i, FreeList(H, i))
<1> DEFINE next == [b \in Int |-> GET(H, b + 0)]
           l == Follow(next, H.glob[i], MaxBlocks)
           nx == Nexts(H, F)
           pv == Prevs(H, F)
           gl == H.glob
<1>1. FreeList(H, i) = l
  BY DEF FreeList, ListFrom
<1>2. Linked(F, S, nx, pv, gl, r) /\ r \in Ranks /\ Roomy(F) /\ Plan(B, S, F, H.brk) /\ H.brk <= MaxHeap
  BY DEF Shape, Chained
<1>3. F \subseteq Int \ {NULL} /\ \A b \in F : S[b] \in Int
  BY <1>2 DEF Roomy, Eights, NULL, Plan
<1>4. \A b \in F : next[b] = nx[b] /\ nx[b] = Rd(H, b) /\ pv[b] = Rd(H, b + 8)
  BY <1>3 DEF GET, Nexts, Prevs
<1> HIDE DEF next, nx, pv
<1>5. Climbs(next, F, r)
  <2>1. \A b \in F : nx[b] # NULL => nx[b] \in F /\ r[b] < r[nx[b]]
    BY <1>2 DEF Linked
  <2> QED BY <1>2, <1>3, <1>4, <2>1 DEF Climbs
<1>6. gl[i] \in F \cup {NULL} /\ (gl[i] # NULL => pv[gl[i]] = NULL /\ index_of(S[gl[i]]) = i)
  BY <1>2 DEF Linked
<1>7. IsFiniteSet(F) /\ Cardinality(F) < MaxBlocks /\ MaxBlocks \in Nat
  BY <1>2, FewBlocks
<1>8. IsWholePath(l, gl[i], next, F, r)
  BY <1>5, <1>6, <1>7, FollowsAll
<1> HIDE DEF l
<1>9. /\ l \in Seq(F) /\ Len(l) \in Nat /\ \A k \in 1..Len(l) : l[k] \in F
      /\ gl[i] = NULL => Len(l) = 0
      /\ gl[i] # NULL => Len(l) > 0 /\ l[1] = gl[i] /\ next[l[Len(l)]] = NULL
      /\ \A k \in 1..(Len(l) - 1) : l[k + 1] = next[l[k]]
  BY <1>8 DEF IsWholePath
<1>10. \A j, k \in 1..Len(l) : l[j] = l[k] => j = k
  <2>1. \A j, k \in 1..Len(l) : j < k => r[l[j]] < r[l[k]]
    BY <1>8 DEF IsWholePath
  <2>2. \A k \in 1..Len(l) : r[l[k]] \in Int
    BY <1>2, <1>3, <1>9 DEF Ranks
  <2> QED BY <1>9, <2>1, <2>2
<1>11. ASSUME NEW k \in 1..Len(l), k # 1
       PROVE  /\ k - 1 \in 1..Len(l) /\ l[k - 1] \in F /\ l[k] = nx[l[k - 1]] /\ l[k] # NULL
  <2>1. k - 1 \in 1..(Len(l) - 1) /\ (k - 1) + 1 = k /\ k - 1 \in 1..Len(l)
    BY <1>9, <1>11
  <2>2. l[k] = next[l[k - 1]] /\ l[k - 1] \in F /\ l[k] \in F
    BY <1>9, <2>1
  <2> QED BY <1>3, <1>4, <2>1, <2>2
<1>12. ASSUME NEW k \in 1..Len(l) PROVE Rd(H, l[k] + 8) = IF k = 1 THEN NULL ELSE l[k - 1]
  <2>1. l[k] \in F /\ Rd(H, l[k] + 8) = pv[l[k]]
    BY <1>4, <1>9
  <2>2. CASE k = 1
    <3>1. l[1] = gl[i] /\ gl[i] # NULL
      BY <1>9, <2>2
    <3> QED BY <1>6, <2>1, <2>2, <3>1
  <2>3. CASE k # 1
    BY <1>2, <1>11, <2>1, <2>3 DEF Linked
  <2> QED BY <2>2, <2>3
<1>13. ASSUME NEW k \in 1..Len(l) PROVE index_of(S[l[k]]) = i
  <2> DEFINE T == {n \in Nat : n + 1 \in 1..Len(l) => index_of(S[l[n + 1]]) = i}
  <2>1. 0 \in T
    BY <1>6, <1>9
  <2>2. ASSUME NEW n \in Nat, n \in T PROVE n + 1 \in T
    <3> SUFFICES ASSUME (n + 1) + 1 \in 1..Len(l) PROVE index_of(S[l[(n + 1) + 1]]) = i
      OBVIOUS
    <3>1. (n + 1) + 1 # 1 /\ ((n + 1) + 1) - 1 = n + 1
      OBVIOUS
    <3>2. n + 1 \in 1..Len(l) /\ l[n + 1] \in F /\ l[(n + 1) + 1] = nx[l[n + 1]] /\ l[(n + 1) + 1] # NULL
      BY <1>11, <3>1
    <3>3. index_of(S[l[n + 1]]) = i
      BY <2>2, <3>2
    <3> QED BY <1>2, <3>2, <3>3 DEF Linked
  <2> HIDE DEF T
  <2>3. k - 1 \in T
    BY <2>1, <2>2, NatInSet
  <2>4. (k - 1) + 1 = k
    OBVIOUS
  <2> QED BY <2>3, <2>4 DEF T
<1>14. ASSUME NEW b \in F, index_of(S[b]) = i PROVE \E k \in 1..Len(l) : l[k] = b
  <2> DEFINE Lost == {c \in F : index_of(S[c]) = i /\ ~\E k \in 1..Len(l) : l[k] = c}
  <2> SUFFICES ASSUME Lost # {} PROVE FALSE
    BY <1>14
  <2>1. Lost \subseteq F
    OBVIOUS
  <2>2. IsFiniteSet(Lost) /\ Lost \subseteq Int
    BY <1>3, <1>7, <2>1, FS_Subset
  <2>3. PICK c \in Lost : \A d \in Lost : r[c] <= r[d]
    <3> HIDE DEF Lost
    <3> QED BY <1>2, <2>2, LowestRank
  <2>4. c \in F /\ index_of(S[c]) = i /\ ~\E k \in 1..Len(l) : l[k] = c
    OBVIOUS
  <2>5. CASE pv[c] = NULL
    <3>1. gl[i] = c /\ c # NULL
      BY <1>2, <1>3, <2>4, <2>5 DEF Linked
    <3>2. 1 \in 1..Len(l) /\ l[1] = c
      BY <1>9, <3>1
    <3> QED BY <2>4, <3>2
  <2>6. CASE pv[c] # NULL
    <3> DEFINE d == pv[c]
    <3>1. d \in F /\ nx[d] = c /\ c # NULL
      BY <1>2, <1>3, <2>4, <2>6 DEF Linked
    <3>2. index_of(S[d]) = i /\ r[d] < r[c]
      BY <1>2, <2>4, <3>1 DEF Linked
    <3>3. ~\E k \in 1..Len(l) : l[k] = d
      <4> SUFFICES ASSUME NEW k \in 1..Len(l), l[k] = d PROVE FALSE
        OBVIOUS
      <4>1. next[l[k]] = c
        BY <1>4, <3>1
      <4>2. k # Len(l)
        BY <1>9, <3>1, <4>1
      <4>3. k \in 1..(Len(l) - 1) /\ k + 1 \in 1..Len(l)
        BY <1>9, <4>2
      <4>4. l[k + 1] = c
        BY <1>9, <4>1, <4>3
      <4> QED BY <2>4, <4>3, <4>4
    <3>4. d \in Lost
      BY <3>1, <3>2, <3>3
    <3>5. r[c] \in Int /\ r[d] \in Int /\ r[c] <= r[d]
      BY <1>2, <1>3, <2>3, <2>4, <3>1, <3>4 DEF Ranks
    <3> QED BY <3>2, <3>5
  <2> QED BY <2>5, <2>6
<1>15. IsList(H, S, F, i, l)
  BY <1>9, <1>10, <1>12, <1>13, <1>14 DEF IsList
<1> QED BY <1>1, <1>15

-----------------------------------------------------------------------------
(* find and find_list.                                                     *)

\* The size of a free block is in its header.
LEMMA FreeSize ==
  ASSUME NEW H, NEW B, NEW S, NEW F, NEW r, Shape(H, B, S, F, r)
  PROVE  \A b \in F : b \in Int /\ b # NULL /\ S[b] \in Int /\ 24 <= S[b] /\ GET_SIZE(H, HDRP(b)) = S[b]
<1> SUFFICES ASSUME NEW b \in F
             PROVE b \in Int /\ b # NULL /\ S[b] \in Int /\ 24 <= S[b] /\ GET_SIZE(H, HDRP(b)) = S[b]
  OBVIOUS
<1>1. Plan(B, S, F, H.brk) /\ Tags(H, B, S, F, H.brk)
  BY DEF Shape
<1>2. b \in B \cup {H.brk} /\ 16 <= b /\ b \in Int /\ 24 <= S[b]
  BY <1>1 DEF Plan, Eights
<1>3. S[b] \in Int /\ GET_SIZE(H, HDRP(b)) = S[b]
  BY ONLY <1>1, <1>2, HeadReads
<1> QED BY <1>2, <1>3 DEF NULL

\* A block p is free and large enough.
Fits(S, F, p, s) == p \in F /\ s <= S[p]

\* The search of a list finds a block that fits if there is one.
LEMMA FindIs ==
  ASSUME NEW H, NEW B, NEW S, NEW F, NEW r, Shape(H, B, S, F, r), NEW i \in Lists, NEW s \in Int
  PROVE  /\ find(H, i, s) # NULL => Fits(S, F, find(H, i, s), s)
         /\ \A b \in F : index_of(S[b]) = i /\ s <= S[b] => find(H, i, s) # NULL
<1> DEFINE l == FreeList(H, i)
           fits == {k \in DOMAIN l : s <= GET_SIZE(H, HDRP(l[k]))}
           first == CHOOSE k \in fits : \A j \in fits : k <= j
<1>1. find(H, i, s) = IF fits = {} THEN NULL ELSE l[first]
  BY DEF find, FreeList
<1>2. IsList(H, S, F, i, l)
  BY ListIs
<1> HIDE DEF l
<1>3. l \in Seq(F) /\ DOMAIN l = 1..Len(l) /\ \A k \in 1..Len(l) : l[k] \in F
  BY <1>2 DEF IsList
<1>4. fits \subseteq Nat /\ \A k \in fits : l[k] \in F /\ s <= S[l[k]]
  BY <1>3, FreeSize
<1>5. fits # {} => first \in fits
  <2> HIDE DEF fits
  <2> SUFFICES ASSUME fits # {} PROVE first \in fits
    OBVIOUS
  <2>1. \E k \in fits : \A j \in fits : k <= j
    BY <1>4, LeastNat
  <2> QED BY <2>1
<1>6. ASSUME NEW b \in F, index_of(S[b]) = i, s <= S[b] PROVE fits # {}
  <2>1. PICK k \in 1..Len(l) : l[k] = b
    BY <1>2, <1>6 DEF IsList
  <2>2. GET_SIZE(H, HDRP(b)) = S[b]
    BY FreeSize
  <2>3. k \in fits
    BY <1>3, <1>6, <2>1, <2>2
  <2> QED BY <2>3
<1> HIDE DEF fits
<1>7. ASSUME fits # {} PROVE l[first] # NULL /\ Fits(S, F, l[first], s)
  <2>1. first \in fits
    BY <1>5, <1>7
  <2> HIDE DEF first
  <2>2. l[first] \in F /\ s <= S[l[first]]
    BY <1>4, <2>1
  <2>3. l[first] # NULL
    BY <2>2, FreeSize
  <2> QED BY <2>2, <2>3 DEF Fits
<1> QED BY <1>1, <1>6, <1>7

\* A larger size is in no lower class.
LEMMA ClassRises ==
  ASSUME NEW s \in Int, NEW t \in Int, s <= t
  PROVE  index_of(s) <= index_of(t)
<1> DEFINE below(u) == {m \in ClassLimits : m < u}
<1>1. IsFiniteSet(ClassLimits) /\ \A m \in ClassLimits : m \in Int
  <2> DEFINE n == 61440
  <2>1. n \in Nat /\ \A m \in ClassLimits : m \in Int /\ 1 <= m /\ m <= n
    BY DEF ClassLimits
  <2> HIDE DEF n
  <2>2. IsFiniteSet(1..n)
    BY <2>1, FS_Interval
  <2>3. ClassLimits \subseteq 1..n
    BY <2>1
  <2>4. IsFiniteSet(ClassLimits)
    BY <2>2, <2>3, FS_Subset
  <2> QED BY <2>1, <2>4
<1>2. below(s) \subseteq below(t)
  BY <1>1
<1>3. IsFiniteSet(below(t)) /\ IsFiniteSet(below(s))
  BY <1>1, FS_Subset
<1>4. Cardinality(below(s)) <= Cardinality(below(t))
  BY <1>2, <1>3, FS_Subset
<1>5. Cardinality(below(s)) \in Nat /\ Cardinality(below(t)) \in Nat
  BY <1>3, FS_CardinalityType
<1>6. index_of(s) = Cardinality(below(s)) + 1 /\ index_of(t) = Cardinality(below(t)) + 1
  BY DEF index_of
<1> HIDE DEF below
<1> QED BY <1>4, <1>5, <1>6

\* The search of the lists finds a block that fits if there is one.
LEMMA FindListIs ==
  ASSUME NEW H, NEW B, NEW S, NEW F, NEW r, Shape(H, B, S, F, r), NEW s \in Int, 0 < s
  PROVE  /\ find_list(H, s) # NULL => Fits(S, F, find_list(H, s), s)
         /\ \A b \in F : s <= S[b] => find_list(H, s) # NULL
<1> DEFINE found == {i \in index_of(s)..TOTALLIST : find(H, i, s) # NULL}
           least == CHOOSE i \in found : \A j \in found : i <= j
<1>1. find_list(H, s) = IF found = {} THEN NULL ELSE find(H, least, s)
  BY DEF find_list
<1>2. \A t : index_of(t) \in Lists /\ index_of(t) \in Int /\ 1 <= index_of(t) /\ index_of(t) <= 14
  BY ClassRange DEF Lists
<1>3. found \subseteq Lists /\ found \subseteq Nat
  BY <1>2 DEF TOTALLIST, Lists
<1>4. \A i \in found : find(H, i, s) # NULL /\ Fits(S, F, find(H, i, s), s)
  BY <1>3, FindIs
<1>5. ASSUME NEW b \in F, s <= S[b] PROVE found # {}
  <2>1. S[b] \in Int
    BY FreeSize
  <2>2. index_of(s) <= index_of(S[b])
    BY <1>5, <2>1, ClassRises
  <2>3. index_of(S[b]) \in index_of(s)..TOTALLIST
    BY <1>2, <2>2 DEF TOTALLIST
  <2>4. find(H, index_of(S[b]), s) # NULL
    BY <1>2, <1>5, FindIs
  <2> QED BY <2>3, <2>4
<1> HIDE DEF found
<1>6. found # {} => least \in found
  <2> SUFFICES ASSUME found # {} PROVE least \in found
    OBVIOUS
  <2>1. \E k \in found : \A j \in found : k <= j
    BY <1>3, LeastNat
  <2> QED BY <2>1
<1> HIDE DEF least
<1> QED BY <1>1, <1>4, <1>5, <1>6

-----------------------------------------------------------------------------
(* malloc.                                                                 *)

\* The block for a request holds it, with a header.
LEMMA BlockForIs ==
  ASSUME NEW n \in Nat
  PROVE  /\ BlockFor(n) \in Eights /\ BlockFor(n) \in Int /\ 24 <= BlockFor(n) /\ n + 4 <= BlockFor(n)
         /\ Larger(BlockFor(n), CHUNKSIZE) \in Eights /\ 24 <= Larger(BlockFor(n), CHUNKSIZE)
         /\ BlockFor(n) <= Larger(BlockFor(n), CHUNKSIZE)
<1>1. BlockFor(n) = IF n <= 16 THEN 24 ELSE ((n + 11) \div 8) * 8
  <2>1. ALIGN(n + WSIZE) = ((n + 11) \div 8) * 8
    BY DEF ALIGN, WSIZE
  <2>2. 2 * DSIZE = 16
    BY DEF DSIZE
  <2> QED BY <2>1, <2>2 DEF BlockFor, MINBLOCK
<1>2. BlockFor(n) \in Int /\ BlockFor(n) % 8 = 0 /\ 24 <= BlockFor(n) /\ n + 4 <= BlockFor(n)
  <2>1. CASE n <= 16
    BY <1>1, <2>1
  <2>2. CASE ~(n <= 16)
    <3> DEFINE q == (n + 11) \div 8
    <3>1. q \in Int /\ n + 4 <= q * 8 /\ q * 8 <= n + 11
      OBVIOUS
    <3>2. BlockFor(n) = q * 8
      BY <1>1, <2>2
    <3> HIDE DEF q
    <3>3. 3 <= q
      BY <2>2, <3>1
    <3>4. (q * 8) % 8 = 0 /\ q * 8 \in Int /\ 24 <= q * 8
      BY <3>1, <3>3
    <3> QED BY <3>1, <3>2, <3>4
  <2> QED BY <2>1, <2>2
<1>3. CHUNKSIZE \in Int /\ CHUNKSIZE % 8 = 0 /\ 24 <= CHUNKSIZE
  BY HeapAssumption
<1> QED BY <1>2, <1>3 DEF Larger, Eights

\* What changes free blocks and then takes one, takes one.
LEMMA TakenAfter ==
  ASSUME NEW H, NEW B, NEW S, NEW F, NEW G, NEW B2, NEW S2, NEW F2, NEW K, NEW p, NEW n,
         IsHeap(H), IsHeap(G), IsHeap(K),
         FreeChanged(H, B, S, F, G, B2, S2, F2), IsTaken(G, B2, S2, F2, K, p, n)
  PROVE  IsTaken(H, B, S, F, K, p, n)
<1>1. PICK B3, S3, F3 : Taken(G, B2, S2, F2, K, B3, S3, F3, p, n)
  BY DEF IsTaken
<1>2. /\ H.brk \in Nat /\ G.brk \in Nat /\ K.brk \in Nat
      /\ H.brk <= G.brk /\ G.brk <= K.brk /\ G.fault = H.fault /\ K.fault = G.fault
  BY <1>1 DEF Taken, FreeChanged, IsHeap
<1>3. H.brk <= K.brk /\ K.fault = H.fault
  BY <1>2
<1>4. Steady(H, S, G, S2, B \ F) /\ B2 \ F2 = B \ F
  BY DEF FreeChanged
<1>5. Steady(G, S2, K, S3, B \ F)
  BY <1>1, <1>4 DEF Taken
<1>6. Steady(H, S, K, S3, B \ F)
  BY <1>4, <1>5, SteadyTwice
<1>7. Taken(H, B, S, F, K, B3, S3, F3, p, n)
  BY <1>1, <1>3, <1>4, <1>6 DEF Taken
<1> QED BY <1>7 DEF IsTaken

\* A heap with a shape is one.
LEMMA ShapeHeap ==
  ASSUME NEW H, NEW B, NEW S, NEW F, NEW r, Shape(H, B, S, F, r)
  PROVE  IsHeap(H) /\ H.brk \in Nat
BY DEF Shape, Chained, IsHeap

\* malloc finds nothing and the heap cannot grow.
NoRoom(H, S, F, n) ==
  /\ \A b \in F : S[b] < BlockFor(n)
  /\ ~CanGrow(H, Larger(BlockFor(n), CHUNKSIZE))

\* What malloc does with a request.
LEMMA MallocIs ==
  ASSUME NEW H, NEW B, NEW S, NEW F, NEW r, Shape(H, B, S, F, r), NoTwins(S, F), 16 <= H.brk,
         NEW n \in Nat, 0 < n
  PROVE  \/ malloc(H, n).p # NULL /\ IsTaken(H, B, S, F, malloc(H, n).h, malloc(H, n).p, BlockFor(n))
         \/ malloc(H, n).p = NULL /\ malloc(H, n).h = H /\ NoRoom(H, S, F, n)
<1> DEFINE req == BlockFor(n)
           big == Larger(req, CHUNKSIZE)
           found == find_list(H, req)
           more == extend_heap(H, big)
<1>1. /\ req \in Eights /\ req \in Int /\ 24 <= req /\ 0 < req /\ big \in Eights /\ 24 <= big /\ req <= big
      /\ big \in Int
  BY BlockForIs DEF Eights
<1>2. malloc(H, n) = IF found # NULL THEN Result(place(H, found, req), found)
                     ELSE IF more.p # NULL THEN Result(place(more.h, more.p, req), more.p)
                     ELSE Result(more.h, NULL)
  <2>1. n # 0
    OBVIOUS
  <2> QED BY <2>1 DEF malloc
<1>3. /\ found # NULL => Fits(S, F, found, req)
      /\ \A b \in F : req <= S[b] => found # NULL
  BY <1>1, FindListIs
<1>4. /\ CanGrow(H, big) => IsMerged(H, B, S, F, more.h, more.p, big)
      /\ ~CanGrow(H, big) => more.h = H /\ more.p = NULL
  BY <1>1, ExtendIs
<1>5. IsHeap(H)
  BY ShapeHeap
<1> HIDE DEF req, big, found, more
<1>6. CASE found # NULL
  <2>1. malloc(H, n).h = place(H, found, req) /\ malloc(H, n).p = found
    BY <1>2, <1>6 DEF Result
  <2>2. found \in F /\ req <= S[found]
    BY <1>3, <1>6 DEF Fits
  <2>3. IsTaken(H, B, S, F, place(H, found, req), found, req)
    BY <1>1, <2>2, PlaceIs
  <2> QED BY <1>6, <2>1, <2>3 DEF req
<1>7. CASE found = NULL /\ CanGrow(H, big)
  <2> DEFINE G == more.h
             p == more.p
  <2>1. PICK B2, S2, F2 : FreeChanged(H, B, S, F, G, B2, S2, F2) /\ NoTwins(S2, F2) /\ p \in F2 /\ big <= S2[p]
    BY <1>4, <1>7 DEF IsMerged
  <2>2. PICK r2 \in Ranks : Shape(G, B2, S2, F2, r2)
    BY <2>1 DEF FreeChanged
  <2>3. p # NULL /\ S2[p] \in Int /\ IsHeap(G)
    BY <2>1, <2>2, FreeSize, ShapeHeap
  <2>4. req <= S2[p]
    BY <1>1, <2>1, <2>3
  <2> DEFINE K == place(G, p, req)
  <2>5. IsTaken(G, B2, S2, F2, K, p, req)
    BY <1>1, <2>1, <2>2, <2>4, PlaceIs
  <2>6. malloc(H, n).h = K /\ malloc(H, n).p = p
    BY <1>2, <1>7, <2>3 DEF Result
  <2> HIDE DEF K, G, p
  <2>7. IsHeap(K)
    BY <2>5, ShapeHeap DEF IsTaken, Taken
  <2>8. IsTaken(H, B, S, F, K, p, req)
    BY <1>5, <2>1, <2>3, <2>5, <2>7, TakenAfter
  <2> QED BY <2>3, <2>6, <2>8 DEF req
<1>8. CASE found = NULL /\ ~CanGrow(H, big)
  <2>1. malloc(H, n).h = H /\ malloc(H, n).p = NULL
    BY <1>2, <1>4, <1>8 DEF Result
  <2>2. \A b \in F : S[b] < req
    BY <1>1, <1>3, <1>8, FreeSize
  <2> QED BY <1>8, <2>1, <2>2 DEF NoRoom, req, big
<1> QED BY <1>6, <1>7, <1>8

-----------------------------------------------------------------------------
(* free.                                                                   *)

\* What free has made when it calls coalesce.
Freed(H, p) ==
  LET size == GET_SIZE(H, HDRP(p))
      next == HDRP(NEXT_BLKP(H, p))
      H1 == Tag(H, p, PACK(size, GET_PREV_ALLOC(H, HDRP(p))))
      H2 == Wr(H1, next, PACK(GET_SIZE(H, next), GET_ALLOC(H, next)))
  IN  insert_list(H2, p, size)

\* The plan when the block p is free.
LEMMA FreedPlan ==
  ASSUME NEW B, NEW S, NEW F, NEW m, Plan(B, S, F, m), NEW p \in B
  PROVE  /\ Plan(B, S, F \cup {p}, m)
         /\ \A x \in B \cup {m} : AfterFree(S, F \cup {p}, x) <=> AfterFree(S, F, x) \/ x = p + S[p]
<1>1. Plan(B, S, F \cup {p}, m)
  BY DEF Plan
<1>2. ASSUME NEW x \in B \cup {m}
      PROVE  AfterFree(S, F \cup {p}, x) <=> AfterFree(S, F, x) \/ x = p + S[p]
  BY DEF AfterFree
<1> QED BY <1>1, <1>2

\* From H to G, the block p has become free, and only the next block's footer may not say so.
IsFreed(H, B, S, F, G, p) ==
  /\ \E r2 \in Ranks : ShapeBut(G, B, S, F \cup {p}, r2, p + S[p])
  /\ G.brk = H.brk /\ G.fault = H.fault
  /\ Steady(H, S, G, S, B \ (F \cup {p}))

\* The new tags and the list.
LEMMA FreedIs ==
  ASSUME NEW H, NEW B, NEW S, NEW F, NEW r, Shape(H, B, S, F, r), NEW p \in B \ F
  PROVE  IsFreed(H, B, S, F, Freed(H, p), p)
<1> DEFINE m == H.brk
           F2 == F \cup {p}
           c == p + S[p]
           w == PACK(S[p], GET_PREV_ALLOC(H, HDRP(p)))
           v == PACK(GET_SIZE(H, HDRP(c)), GET_ALLOC(H, HDRP(c)))
           K1 == Tag(H, p, w)
           K2 == Wr(K1, c - 4, v)
           G == insert_list(K2, p, S[p])
           last == p + S[p] - 8
<1>1. Chained(H, F, S, r) /\ Plan(B, S, F, m) /\ Tags(H, B, S, F, m) /\ IsHeap(H) /\ m \in Nat /\ m <= MaxHeap
  BY DEF Shape, Chained, IsHeap
<1>0. SameSize(H, H)
  BY <1>1 DEF SameSize
<1> HIDE DEF m
<1>2. /\ Plan(B, S, F2, m)
      /\ \A x \in B \cup {m} : AfterFree(S, F2, x) <=> AfterFree(S, F, x) \/ x = c
  BY <1>1, FreedPlan
<1>3. /\ p \in B /\ p \in Int /\ S[p] \in Int /\ p \in Eights /\ S[p] \in Eights /\ p + S[p] <= m /\ 24 <= S[p]
      /\ m \in Int /\ m \in Eights /\ F \subseteq B /\ m \notin B /\ 16 <= p /\ p \notin F
      /\ c \in B \cup {m} /\ c \in Int /\ c \in Eights /\ S[c] \in Int /\ c # p /\ 16 <= c /\ c <= m
      /\ \A x \in B : x \in Int /\ S[x] \in Int /\ x \in Eights /\ S[x] \in Eights /\ 24 <= S[x] /\ 16 <= x /\ x + S[x] <= m
      /\ \A x, y \in B : x < y => x + S[x] <= y
  <2>1. /\ \A x \in B : x \in Int /\ S[x] \in Int /\ x \in Eights /\ S[x] \in Eights /\ 24 <= S[x] /\ 16 <= x
                        /\ x + S[x] <= m /\ x + S[x] \in B \cup {m}
        /\ \A x, y \in B : x < y => x + S[x] <= y
        /\ m \in Int /\ m \in Eights /\ F \subseteq B /\ m \notin B /\ S[m] = 0
    BY <1>1 DEF Plan, Eights
  <2>2. c \in B \cup {m} /\ c \in Int /\ c \in Eights /\ S[c] \in Int /\ c # p /\ 16 <= c /\ c <= m
    BY <2>1
  <2> QED BY <2>1, <2>2
<1>4. /\ GET_SIZE(H, HDRP(p)) = S[p] /\ NEXT_BLKP(H, p) = c
      /\ GET_PREV_ALLOC(H, HDRP(p)) = IF AfterFree(S, F, p) THEN 0 ELSE 2
  <2>1. p \in B \cup {m}
    BY <1>3
  <2> QED BY ONLY <1>1, <2>1, HeadReads
<1>5. G = Freed(H, p)
  BY <1>4 DEF Freed, HDRP, WSIZE
<1>6. /\ GET_SIZE(H, HDRP(c)) = S[c]
      /\ GET_ALLOC(H, HDRP(c)) = IF c \in F THEN 0 ELSE 1
  BY ONLY <1>1, <1>3, HeadReads
<1>7. c = p + S[p]
  OBVIOUS
<1> HIDE DEF c
<1>8. w = Code(S, F2, p)
  <2>1. AfterFree(S, F2, p) <=> AfterFree(S, F, p)
    BY <1>2, <1>3
  <2>2. Code(S, F2, p) = S[p] + 0 + (IF AfterFree(S, F, p) THEN 0 ELSE 2)
    BY <2>1 DEF Code
  <2>3. w = S[p] + (IF AfterFree(S, F, p) THEN 0 ELSE 2)
    BY <1>4 DEF PACK
  <2> QED BY <1>3, <2>2, <2>3
<1>9. v = Code(S, F2, c)
  <2>1. AfterFree(S, F2, c)
    BY <1>2, <1>3
  <2>2. Code(S, F2, c) = S[c] + (IF c \in F THEN 0 ELSE 1) + 0
    BY <1>3, <2>1 DEF Code
  <2>3. v = S[c] + (IF c \in F THEN 0 ELSE 1)
    BY <1>6 DEF PACK
  <2> QED BY <1>3, <2>2, <2>3
<1> HIDE DEF w, v
<1>10. SizeOf(w) = S[p] /\ w \in Int /\ v \in Int
  <2>1. p \in B \cup {m}
    BY <1>3
  <2>2. SizeOf(Code(S, F2, p)) = S[p]
    BY <1>2, <2>1, CodeParts
  <2>3. Code(S, F2, p) \in Int /\ Code(S, F2, c) \in Int
    BY <1>3 DEF Code
  <2> QED BY <1>8, <1>9, <2>2, <2>3
<1>11. /\ SameSize(H, K1) /\ K1.glob = H.glob
       /\ \A x : Rd(K1, x) = IF x = p - 4 \/ x = last THEN w ELSE Rd(H, x)
  <2>1. 4 <= p /\ 8 <= S[p] /\ p + S[p] <= MaxHeap
    BY <1>1, <1>3, HeapAssumption
  <2> QED BY <1>1, <1>3, <1>10, <2>1, TagIs
<1>12. c - 4 \in Word
  <2>1. c - 4 \in Int /\ (c - 4) % 4 = 0 /\ 0 <= c - 4 /\ (c - 4) + 4 <= MaxHeap
    BY <1>1, <1>3, HeapAssumption DEF Eights
  <2> QED BY <2>1, WordAt
<1> HIDE DEF K1
<1>13. IsHeap(K1)
  BY <1>11 DEF SameSize
<1>14. /\ SameSize(K1, K2) /\ K2.glob = K1.glob
       /\ \A x : Rd(K2, x) = IF x = c - 4 THEN v ELSE Rd(K1, x)
  <2>1. K2 = Wr(K1, c - 4, v) /\ v \in Int
    BY <1>10
  <2> HIDE DEF K2
  <2> QED BY ONLY <1>12, <1>13, <2>1, WriteIs
<1> HIDE DEF K2
<1>15. IsHeap(K2) /\ K2.glob = H.glob /\ K2.brk = m /\ K2.fault = H.fault
  BY <1>11, <1>14 DEF SameSize, m
<1>16. \A x : Rd(K2, x) = IF x = c - 4 THEN v ELSE IF x = p - 4 \/ x = last THEN w ELSE Rd(H, x)
  BY <1>11, <1>14
<1>17. /\ Roomy(F2)
       /\ \A y \in F2 : \A d \in B \cup {m} : d - 4 < y \/ y + 16 <= d - 4
       /\ \A y \in F2 : \A b \in B : b + S[b] - 8 < y \/ y + 16 <= b + S[b] - 8
  BY <1>1, <1>2, LinksApart
<1>18. Chained(K2, F, S, r)
  <2>1. \A y \in F : Rd(K2, y) = Rd(H, y) /\ Rd(K2, y + 8) = Rd(H, y + 8)
    <3> SUFFICES ASSUME NEW y \in F PROVE Rd(K2, y) = Rd(H, y) /\ Rd(K2, y + 8) = Rd(H, y + 8)
      OBVIOUS
    <3>1. y \in Int /\ p \in Int /\ c \in Int /\ last \in Int
      BY <1>3
    <3>2. /\ c - 4 < y \/ y + 16 <= c - 4
          /\ p - 4 < y \/ y + 16 <= p - 4
          /\ last < y \/ y + 16 <= last
      BY <1>3, <1>17
    <3> HIDE DEF last
    <3>3. /\ y # c - 4 /\ y # p - 4 /\ y + 8 # c - 4 /\ y + 8 # p - 4
          /\ y # last /\ y + 8 # last
      BY ONLY <3>1, <3>2
    <3> QED BY <1>16, <3>3
  <2>2. \A y \in F : S[y] = S[y]
    OBVIOUS
  <2> QED BY ONLY <1>1, <1>15, <2>1, <2>2, ChainedSame
<1>19. /\ \E r2 \in Ranks : Chained(G, F2, S, r2)
       /\ SameButLinks(K2, G, F2)
  <2>1. Roomy(F \cup {p}) /\ p \notin F
    BY <1>3, <1>17
  <2>2. G = insert_list(K2, p, S[p])
    OBVIOUS
  <2> HIDE DEF G
  <2> QED BY <1>18, <2>1, <2>2, InsertIs
<1>20. TagsBut(K2, B, S, F2, m, c)
  <2>1. ASSUME NEW x \in B \cup {m} PROVE Rd(K2, x - 4) = Code(S, F2, x)
    <3>1. CASE x = c
      BY <1>9, <1>16, <3>1
    <3>2. CASE x = p
      <4>1. p - 4 # c - 4
        BY <1>3
      <4> QED BY <1>8, <1>16, <3>2, <4>1
    <3>3. CASE x # c /\ x # p
      <4>1. x \in Eights /\ p \in Eights /\ S[p] \in Eights /\ x \in Int /\ c \in Int /\ p \in Int
        BY <1>3
      <4>2. x - 4 # last
        BY <4>1, TagsDiffer
      <4>3. x - 4 # c - 4 /\ x - 4 # p - 4
        BY <3>3, <4>1
      <4>4. Rd(K2, x - 4) = Rd(H, x - 4)
        BY <1>16, <4>2, <4>3
      <4>5. Rd(H, x - 4) = Code(S, F, x)
        BY <1>1 DEF Tags
      <4>6. Code(S, F2, x) = Code(S, F, x)
        BY <1>2, <3>3 DEF Code
      <4> QED BY <4>4, <4>5, <4>6
    <3> QED BY <3>1, <3>2, <3>3
  <2>2. ASSUME NEW y \in F2 \ {c} PROVE Rd(K2, y + S[y] - 8) = Code(S, F2, y)
    <3>1. CASE y = p
      <4>1. last # c - 4
        BY <1>3, TagsDiffer
      <4> QED BY <1>8, <1>16, <3>1, <4>1
    <3>2. CASE y # p
      <4>1. y \in F /\ y \in B /\ y \in Eights /\ S[y] \in Eights /\ p \in Eights /\ c \in Eights /\ y # c
        BY <1>3, <3>2
      <4>2. y + S[y] - 8 # c - 4 /\ y + S[y] - 8 # p - 4 /\ y + S[y] - 8 \in Int
        BY <4>1, TagsDiffer
      <4>3. y + S[y] # p + S[p]
        BY <1>1, <1>3, <3>2, <4>1, OneEnd
      <4>4. y + S[y] - 8 # last
        <5>1. y \in Int /\ S[y] \in Int /\ p \in Int /\ S[p] \in Int
          BY <1>3, <4>1
        <5> QED BY ONLY <4>3, <5>1
      <4>5. Rd(K2, y + S[y] - 8) = Rd(H, y + S[y] - 8)
        BY <1>16, <4>2, <4>4
      <4>6. Rd(H, y + S[y] - 8) = Code(S, F, y)
        BY <1>1, <4>1 DEF Tags
      <4>7. Code(S, F2, y) = Code(S, F, y)
        BY <1>2, <4>1 DEF Code
      <4> QED BY <4>5, <4>6, <4>7
    <3> QED BY <3>1, <3>2
  <2> QED BY <2>1, <2>2 DEF TagsBut, Heads
<1>21. TagsBut(G, B, S, F2, m, c)
  <2> HIDE DEF G
  <2> QED BY <1>1, <1>2, <1>19, <1>20, TagsButKept
<1>22. G.brk = m /\ G.fault = H.fault
  BY <1>15, <1>19 DEF SameButLinks, SameSize
<1>23. Steady(H, S, G, S, B \ F2)
  <2>1. Steady(H, S, K2, S, B \ F2)
    <3> SUFFICES ASSUME NEW a \in B \ F2, NEW x \in Int, a <= x, x < a + S[a] - 4 PROVE Rd(K2, x) = Rd(H, x)
      BY DEF Steady, Kept
    <3>1. a \in B /\ a # p /\ a \in Int /\ S[a] \in Int /\ 24 <= S[a] /\ a + S[a] <= m
          /\ (a < p => a + S[a] <= p) /\ (p < a => p + S[p] <= a)
      BY <1>3
    <3>2. (c \in B => (a < c => a + S[a] <= c)) /\ (c \notin B => c = m)
      BY <1>3
    <3>3. p \in Int /\ S[p] \in Int /\ c \in Int /\ c = p + S[p] /\ 24 <= S[p] /\ m \in Int
          /\ a <= x /\ x < a + S[a] - 4 /\ x \in Int /\ last = p + S[p] - 8
      BY <1>3, <1>7
    <3> HIDE DEF last
    <3>4. x # c - 4 /\ x # p - 4 /\ x # last
      BY ONLY <3>1, <3>2, <3>3
    <3> QED BY <1>16, <3>4
  <2>2. Steady(K2, S, G, S, B \ F2)
    <3> HIDE DEF G
    <3> QED BY <1>1, <1>2, <1>19, DataKept DEF Steady
  <2> HIDE DEF G
  <2> QED BY <2>1, <2>2, SteadyTwice
<1> HIDE DEF G
<1>24. \E r2 \in Ranks : ShapeBut(G, B, S, F2, r2, c)
  BY <1>1, <1>2, <1>19, <1>21, <1>22 DEF ShapeBut
<1>25. IsFreed(H, B, S, F, G, p)
  BY <1>7, <1>22, <1>23, <1>24 DEF IsFreed, m
<1> QED BY <1>5, <1>25

\* From H to G, the block p is no longer in use.
Released(H, B, S, F, G, B2, S2, F2, p) ==
  /\ \E r2 \in Ranks : Shape(G, B2, S2, F2, r2)
  /\ H.brk <= G.brk /\ G.fault = H.fault
  /\ Steady(H, S, G, S2, (B \ F) \ {p}) /\ B2 \ F2 = (B \ F) \ {p}
  /\ NoTwins(S2, F2)

\* The same, whatever the plan of G.
IsReleased(H, B, S, F, G, p) == \E B2, S2, F2 : Released(H, B, S, F, G, B2, S2, F2, p)

\* What free does with a block in use.
LEMMA FreeIs ==
  ASSUME NEW H, NEW B, NEW S, NEW F, NEW r, Shape(H, B, S, F, r), NoTwins(S, F), NEW p \in B \ F
  PROVE  IsReleased(H, B, S, F, free(H, p), p)
<1> DEFINE G == Freed(H, p)
           K == coalesce(G, p).h
           E == F \cup {p}
<1>1. free(H, p) = K
  <2>1. p # NULL
    BY DEF Shape, Plan, NULL
  <2> QED BY <2>1 DEF free, Freed
<1>2. IsFreed(H, B, S, F, G, p)
  BY FreedIs
<1> HIDE DEF G
<1>3. PICK r2 \in Ranks : ShapeBut(G, B, S, E, r2, p + S[p])
  BY <1>2 DEF IsFreed
<1>4. \A x \in E : x + S[x] \in E => x = p \/ x + S[x] = p
  BY DEF NoTwins
<1>5. p \in E /\ B \ E = (B \ F) \ {p}
  OBVIOUS
<1> HIDE DEF E
<1>6. IsMerged(G, B, S, E, K, coalesce(G, p).p, S[p])
  BY <1>3, <1>4, <1>5, CoalesceIs
<1>7. PICK B2, S2, F2 : FreeChanged(G, B, S, E, K, B2, S2, F2) /\ NoTwins(S2, F2)
  BY <1>6 DEF IsMerged
<1> HIDE DEF K
<1>8. H.brk <= K.brk /\ K.fault = H.fault
  BY <1>2, <1>7 DEF IsFreed, FreeChanged
<1>9. Steady(H, S, G, S, B \ E)
  BY <1>2 DEF IsFreed, E
<1>10. Steady(G, S, K, S2, B \ E) /\ B2 \ F2 = B \ E /\ \E r3 \in Ranks : Shape(K, B2, S2, F2, r3)
  BY <1>7 DEF FreeChanged
<1>11. Steady(H, S, K, S2, B \ E)
  BY <1>9, <1>10, SteadyTwice
<1>12. Released(H, B, S, F, K, B2, S2, F2, p)
  BY <1>5, <1>7, <1>8, <1>10, <1>11 DEF Released
<1> QED BY <1>1, <1>12 DEF IsReleased

-----------------------------------------------------------------------------
(* The client's words.                                                     *)

\* G differs from H in the n bytes at p only.
Filled(H, G, p, n) ==
  /\ SameSize(H, G) /\ G.glob = H.glob
  /\ \A x \in Int : x < p \/ p + n <= x => Rd(G, x) = Rd(H, x)

\* What memset does.
LEMMA FillIs ==
  ASSUME NEW H, IsHeap(H), NEW p \in Int, p # NULL, NEW n \in Int, NEW w \in Int
  PROVE  /\ Filled(H, Fill(H, p, n, w), p, n)
         /\ \A a \in Word : p <= a /\ a < p + n => Rd(Fill(H, p, n, w), a) = w
<1> DEFINE mem2 == [a \in Word |-> IF a \in p..(p + n - 1) THEN w ELSE H.mem[a]]
           G == [H EXCEPT !.mem = mem2]
<1>1. Fill(H, p, n, w) = G
  BY DEF Fill
<1>2. mem2 \in [Word -> Int]
  BY DEF IsHeap
<1>3. G.mem = mem2 /\ G.brk = H.brk /\ G.glob = H.glob /\ G.fault = H.fault /\ IsHeap(G)
  <2> HIDE DEF mem2
  <2> QED BY <1>2 DEF IsHeap
<1>4. \A a \in Word : a \in Int /\ Rd(G, a) = mem2[a] /\ Rd(H, a) = H.mem[a]
  <2>1. \A a \in Word : a \in Int
    BY HeapAssumption DEF Word
  <2>2. DOMAIN mem2 = Word /\ DOMAIN H.mem = Word
    BY DEF IsHeap
  <2> QED BY <1>3, <2>1, <2>2 DEF Rd
<1>5. \A x : x \notin Word => Rd(G, x) = 0 /\ Rd(H, x) = 0
  <2>2. DOMAIN mem2 = Word /\ DOMAIN H.mem = Word
    BY DEF IsHeap
  <2> QED BY <1>3, <2>2 DEF Rd
<1> HIDE DEF G
<1>6. ASSUME NEW x \in Int, x < p \/ p + n <= x PROVE Rd(G, x) = Rd(H, x)
  <2>1. CASE x \in Word
    BY <1>4, <1>6, <2>1
  <2>2. CASE x \notin Word
    BY <1>5, <2>2
  <2> QED BY <2>1, <2>2
<1>7. ASSUME NEW a \in Word, p <= a, a < p + n PROVE Rd(G, a) = w
  BY <1>4, <1>7
<1>8. Filled(H, G, p, n)
  BY <1>3, <1>6 DEF Filled, SameSize
<1> QED BY <1>1, <1>7, <1>8

\* What memcpy does.
LEMMA CopyIs ==
  ASSUME NEW H, IsHeap(H), NEW p \in Int, p # NULL, NEW q \in Int, NEW n \in Int
  PROVE  /\ Filled(H, Copy(H, p, q, n), p, n)
         /\ \A a \in Word : p <= a /\ a < p + n => Rd(Copy(H, p, q, n), a) = Rd(H, q + (a - p))
<1> DEFINE mem2 == [a \in Word |-> IF a \in p..(p + n - 1) THEN Rd(H, q + (a - p)) ELSE H.mem[a]]
           G == [H EXCEPT !.mem = mem2]
<1>1. Copy(H, p, q, n) = G
  BY DEF Copy
<1>2. mem2 \in [Word -> Int]
  <2>1. \A a : Rd(H, q + (a - p)) \in Int
    BY ReadInt
  <2> QED BY <2>1 DEF IsHeap
<1>3. G.mem = mem2 /\ G.brk = H.brk /\ G.glob = H.glob /\ G.fault = H.fault /\ IsHeap(G)
  <2> HIDE DEF mem2
  <2> QED BY <1>2 DEF IsHeap
<1>4. \A a \in Word : a \in Int /\ Rd(G, a) = mem2[a] /\ Rd(H, a) = H.mem[a]
  <2>1. \A a \in Word : a \in Int
    BY HeapAssumption DEF Word
  <2>2. DOMAIN mem2 = Word /\ DOMAIN H.mem = Word
    BY DEF IsHeap
  <2> QED BY <1>3, <2>1, <2>2 DEF Rd
<1>5. \A x : x \notin Word => Rd(G, x) = 0 /\ Rd(H, x) = 0
  <2>2. DOMAIN mem2 = Word /\ DOMAIN H.mem = Word
    BY DEF IsHeap
  <2> QED BY <1>3, <2>2 DEF Rd
<1> HIDE DEF G
<1>6. ASSUME NEW x \in Int, x < p \/ p + n <= x PROVE Rd(G, x) = Rd(H, x)
  <2>1. CASE x \in Word
    BY <1>4, <1>6, <2>1
  <2>2. CASE x \notin Word
    BY <1>5, <2>2
  <2> QED BY <2>1, <2>2
<1>7. ASSUME NEW a \in Word, p <= a, a < p + n PROVE Rd(G, a) = Rd(H, q + (a - p))
  BY <1>4, <1>7
<1>8. Filled(H, G, p, n)
  BY <1>3, <1>6 DEF Filled, SameSize
<1> QED BY <1>1, <1>7, <1>8

\* The client's writes in its own block leave the heap's shape and the other blocks alone.
LEMMA FilledKeeps ==
  ASSUME NEW H, NEW B, NEW S, NEW F, NEW r, Shape(H, B, S, F, r), NEW p \in B \ F,
         NEW n \in Int, n + 4 <= S[p], NEW G, Filled(H, G, p, n)
  PROVE  Shape(G, B, S, F, r) /\ Steady(H, S, G, S, (B \ F) \ {p})
<1> DEFINE m == H.brk
<1>1. Chained(H, F, S, r) /\ Plan(B, S, F, m) /\ Tags(H, B, S, F, m) /\ m <= MaxHeap
  BY DEF Shape
<1>2. IsHeap(G) /\ G.brk = m /\ G.glob = H.glob
  BY DEF Filled, SameSize
<1> HIDE DEF m
<1>3. /\ p \in Int /\ S[p] \in Int /\ p + S[p] <= m /\ p \notin F /\ F \subseteq B /\ m \in Int
      /\ \A x \in B : x \in Int /\ S[x] \in Int /\ 24 <= S[x] /\ x + S[x] <= m
      /\ \A x, y \in B : x < y => x + S[x] <= y
  BY <1>1 DEF Plan, Eights
<1>4. \A x \in Int : x < p \/ p + S[p] - 4 <= x => Rd(G, x) = Rd(H, x)
  <2> SUFFICES ASSUME NEW x \in Int, x < p \/ p + S[p] - 4 <= x PROVE Rd(G, x) = Rd(H, x)
    OBVIOUS
  <2>1. x < p \/ p + n <= x
    BY <1>3
  <2> QED BY <2>1 DEF Filled
<1>5. ASSUME NEW b \in B, b # p, NEW x \in Int, b <= x, x < b + S[b] PROVE Rd(G, x) = Rd(H, x)
  <2>1. x < p \/ p + S[p] <= x
    BY <1>3, <1>5
  <2>2. x < p \/ p + S[p] - 4 <= x
    BY <1>3, <2>1
  <2> QED BY <1>4, <2>2
<1>6. Chained(G, F, S, r)
  <2>1. \A y \in F : Rd(G, y) = Rd(H, y) /\ Rd(G, y + 8) = Rd(H, y + 8)
    <3> SUFFICES ASSUME NEW y \in F PROVE Rd(G, y) = Rd(H, y) /\ Rd(G, y + 8) = Rd(H, y + 8)
      OBVIOUS
    <3>1. /\ y \in B /\ y # p /\ y \in Int /\ y + 8 \in Int /\ y <= y /\ y < y + S[y]
          /\ y <= y + 8 /\ y + 8 < y + S[y]
      BY <1>3
    <3> QED BY <1>5, <3>1
  <2>2. \A y \in F : S[y] = S[y]
    OBVIOUS
  <2> QED BY ONLY <1>1, <1>2, <2>1, <2>2, ChainedSame
<1>7. Tags(G, B, S, F, m)
  <2>1. ASSUME NEW c \in B \cup {m} PROVE Rd(G, c - 4) = Rd(H, c - 4)
    <3>1. c \in Int /\ c - 4 \in Int /\ (c < p \/ c = p \/ p + S[p] <= c)
      BY <1>3
    <3>2. c - 4 < p \/ p + S[p] - 4 <= c - 4
      BY ONLY <1>3, <3>1
    <3> QED BY <1>4, <3>1, <3>2
  <2>2. ASSUME NEW y \in F PROVE Rd(G, y + S[y] - 8) = Rd(H, y + S[y] - 8)
    <3>1. y \in B /\ y # p /\ y + S[y] - 8 \in Int /\ y <= y + S[y] - 8 /\ y + S[y] - 8 < y + S[y]
      BY <1>3
    <3> QED BY <1>5, <3>1
  <2> QED BY <1>1, <2>1, <2>2 DEF Tags
<1>8. Steady(H, S, G, S, (B \ F) \ {p})
  <2> SUFFICES ASSUME NEW a \in (B \ F) \ {p}, NEW x \in Int, a <= x, x < a + S[a] - 4 PROVE Rd(G, x) = Rd(H, x)
    BY DEF Steady, Kept
  <2>1. a \in B /\ a # p /\ x < a + S[a]
    BY <1>3
  <2> QED BY <1>5, <2>1
<1>9. H.brk = m
  BY DEF m
<1> QED BY <1>1, <1>2, <1>6, <1>7, <1>8, <1>9 DEF Shape

-----------------------------------------------------------------------------
(* calloc and realloc.                                                     *)

\* A block just taken may be filled.
LEMMA TakenFilled ==
  ASSUME NEW H, NEW B, NEW S, NEW F, NEW G, NEW B2, NEW S2, NEW F2, NEW p, NEW t, t \in Int,
         Taken(H, B, S, F, G, B2, S2, F2, p, t),
         NEW n \in Int, n + 4 <= t, NEW K, Filled(G, K, p, n)
  PROVE  Taken(H, B, S, F, K, B2, S2, F2, p, t)
<1>1. PICK r2 \in Ranks : Shape(G, B2, S2, F2, r2)
  BY DEF Taken
<1>2. p \in B2 \ F2 /\ p \notin B \ F /\ B2 \ F2 = (B \ F) \cup {p} /\ t <= S2[p]
  BY DEF Taken
<1>3. n + 4 <= S2[p]
  <2>1. p \in B2 /\ Plan(B2, S2, F2, G.brk)
    BY <1>1, <1>2 DEF Shape
  <2>2. S2[p] \in Int
    BY <2>1 DEF Plan, Eights
  <2> QED BY <1>2, <2>2
<1>4. Shape(K, B2, S2, F2, r2) /\ Steady(G, S2, K, S2, (B2 \ F2) \ {p})
  BY <1>1, <1>2, <1>3, FilledKeeps
<1>5. (B2 \ F2) \ {p} = B \ F
  BY <1>2
<1>6. Steady(H, S, G, S2, B \ F)
  BY DEF Taken
<1>7. Steady(H, S, K, S2, B \ F)
  BY <1>4, <1>5, <1>6, SteadyTwice
<1>8. K.brk = G.brk /\ K.fault = G.fault
  BY DEF Filled, SameSize
<1> QED BY <1>4, <1>7, <1>8 DEF Taken

\* From H to G, a block p for n bytes has come into use.
IsAllocated(H, B, S, F, G, p, n) == p # NULL /\ IsTaken(H, B, S, F, G, p, BlockFor(n))

\* What calloc does: the block is zero; with none, it writes at address 0.
LEMMA CallocIs ==
  ASSUME NEW H, NEW B, NEW S, NEW F, NEW r, Shape(H, B, S, F, r), NoTwins(S, F), 16 <= H.brk,
         NEW k \in Nat, NEW z \in Nat, NEW n \in Nat, n = k * z, 0 < n
  PROVE  \/ /\ IsAllocated(H, B, S, F, calloc(H, k, z).h, calloc(H, k, z).p, n)
            /\ \A a \in Word : calloc(H, k, z).p <= a /\ a < calloc(H, k, z).p + n => Rd(calloc(H, k, z).h, a) = 0
         \/ calloc(H, k, z).p = NULL /\ calloc(H, k, z).h.fault
<1> DEFINE G == malloc(H, n).h
           p == malloc(H, n).p
           K == Fill(G, p, n, 0)
<1>1. calloc(H, k, z).h = K /\ calloc(H, k, z).p = p
  BY DEF calloc, Result
<1>2. \/ p # NULL /\ IsTaken(H, B, S, F, G, p, BlockFor(n))
      \/ p = NULL /\ G = H
  BY MallocIs
<1> HIDE DEF G, p
<1>3. CASE p # NULL /\ IsTaken(H, B, S, F, G, p, BlockFor(n))
  <2>1. PICK B2, S2, F2 : Taken(H, B, S, F, G, B2, S2, F2, p, BlockFor(n))
    BY <1>3 DEF IsTaken
  <2>2. PICK r2 \in Ranks : Shape(G, B2, S2, F2, r2)
    BY <2>1 DEF Taken
  <2>3. IsHeap(G)
    BY <2>2, ShapeHeap
  <2>4. p \in Int
    <3>1. p \in B2
      BY <2>1 DEF Taken
    <3> QED BY <2>2, <3>1 DEF Shape, Plan, Eights
  <2>5. /\ Filled(G, K, p, n)
        /\ \A a \in Word : p <= a /\ a < p + n => Rd(K, a) = 0
    BY <1>3, <2>3, <2>4, FillIs
  <2>6. BlockFor(n) \in Int /\ n + 4 <= BlockFor(n)
    BY BlockForIs
  <2> HIDE DEF K
  <2>7. Taken(H, B, S, F, K, B2, S2, F2, p, BlockFor(n))
    BY <2>1, <2>5, <2>6, TakenFilled
  <2>8. IsAllocated(H, B, S, F, K, p, n)
    BY <1>3, <2>7 DEF IsAllocated, IsTaken
  <2> QED BY <1>1, <2>5, <2>8
<1>4. CASE p = NULL /\ G = H
  <2>1. IsHeap(H)
    BY ShapeHeap
  <2>2. K = [H EXCEPT !.fault = H.fault \/ n > 0]
    BY <1>4 DEF Fill
  <2>3. K.fault
    BY <2>1, <2>2 DEF IsHeap
  <2> QED BY <1>1, <1>4, <2>3
<1> QED BY <1>2, <1>3, <1>4

\* From H to G, the block q has given way to p, for n bytes, with q's data.
Moved(H, B, S, F, G, B2, S2, F2, q, p, n) ==
  /\ \E r2 \in Ranks : Shape(G, B2, S2, F2, r2)
  /\ H.brk <= G.brk /\ G.fault = H.fault
  /\ Steady(H, S, G, S2, (B \ F) \ {q}) /\ B2 \ F2 = ((B \ F) \ {q}) \cup {p}
  /\ NoTwins(S2, F2) /\ p \notin B \ F /\ BlockFor(n) <= S2[p]
  /\ \A a \in Word : p <= a /\ a < p + n /\ a - p < S[q] - 4 => Rd(G, a) = Rd(H, q + (a - p))

\* The same, whatever the plan of G.
IsMoved(H, B, S, F, G, q, p, n) == p # NULL /\ \E B2, S2, F2 : Moved(H, B, S, F, G, B2, S2, F2, q, p, n)

\* What realloc does with a block in use and a size that is not zero.
LEMMA ReallocIs ==
  ASSUME NEW H, NEW B, NEW S, NEW F, NEW r, Shape(H, B, S, F, r), NoTwins(S, F), 16 <= H.brk,
         NEW q \in B \ F, NEW n \in Nat, 0 < n
  PROVE  \/ IsMoved(H, B, S, F, realloc(H, q, n).h, q, realloc(H, q, n).p, n)
         \/ realloc(H, q, n).p = NULL /\ realloc(H, q, n).h = H /\ NoRoom(H, S, F, n)
<1> DEFINE G == malloc(H, n).h
           p == malloc(H, n).p
           K == Copy(G, p, q, n)
           L == free(K, q)
           t == BlockFor(n)
<1>1. q # NULL /\ q \in Int /\ S[q] \in Int
  BY DEF Shape, Plan, NULL, Eights
<1>2. /\ p = NULL => realloc(H, q, n) = malloc(H, n)
      /\ p # NULL => realloc(H, q, n).h = L /\ realloc(H, q, n).p = p
  BY <1>1 DEF realloc, Result
<1>3. \/ p # NULL /\ IsTaken(H, B, S, F, G, p, t)
      \/ p = NULL /\ G = H /\ NoRoom(H, S, F, n)
  BY MallocIs
<1>4. CASE p = NULL /\ G = H /\ NoRoom(H, S, F, n)
  BY <1>2, <1>4
<1> HIDE DEF G, p
<1>5. CASE p # NULL /\ IsTaken(H, B, S, F, G, p, t)
  <2>1. PICK B1, S1, F1 : Taken(H, B, S, F, G, B1, S1, F1, p, t)
    BY <1>5 DEF IsTaken
  <2>2. PICK r1 \in Ranks : Shape(G, B1, S1, F1, r1)
    BY <2>1 DEF Taken
  <2>3. IsHeap(G)
    BY <2>2, ShapeHeap
  <2>4. /\ p \in B1 /\ p \in B1 \ F1 /\ p \notin B \ F /\ B1 \ F1 = (B \ F) \cup {p} /\ NoTwins(S1, F1)
        /\ t <= S1[p] /\ q \in B1 \ F1 /\ q # p /\ Steady(H, S, G, S1, B \ F)
    BY <2>1 DEF Taken
  <2>5. p \in Int /\ S1[p] \in Int
    BY <2>2, <2>4 DEF Shape, Plan, Eights
  <2>6. /\ Filled(G, K, p, n)
        /\ \A a \in Word : p <= a /\ a < p + n => Rd(K, a) = Rd(G, q + (a - p))
    BY <1>1, <1>5, <2>3, <2>5, CopyIs
  <2>7. t \in Int /\ n + 4 <= t
    BY BlockForIs
  <2>8. n + 4 <= S1[p] /\ n \in Int
    BY <2>4, <2>5, <2>7
  <2> HIDE DEF K, t
  <2>9. Taken(H, B, S, F, K, B1, S1, F1, p, t)
    BY <2>1, <2>6, <2>7, <2>8, TakenFilled
  <2>10. PICK r2 \in Ranks : Shape(K, B1, S1, F1, r2)
    BY <2>9 DEF Taken
  <2>11. IsReleased(K, B1, S1, F1, L, q)
    BY <2>4, <2>10, FreeIs
  <2> HIDE DEF L
  <2>12. PICK B2, S2, F2 : Released(K, B1, S1, F1, L, B2, S2, F2, q)
    BY <2>11 DEF IsReleased
  <2>13. /\ B2 \ F2 = (B1 \ F1) \ {q} /\ Steady(K, S1, L, S2, (B1 \ F1) \ {q}) /\ NoTwins(S2, F2)
         /\ K.brk <= L.brk /\ L.fault = K.fault
    BY <2>12 DEF Released
  <2>14. PICK r3 \in Ranks : Shape(L, B2, S2, F2, r3)
    BY <2>12 DEF Released
  <2>15. B2 \ F2 = ((B \ F) \ {q}) \cup {p}
    BY <2>4, <2>13
  <2>16. H.brk <= L.brk /\ L.fault = H.fault
    <3>1. H.brk <= K.brk /\ K.fault = H.fault
      BY <2>9 DEF Taken
    <3>2. H.brk \in Nat /\ K.brk \in Nat /\ L.brk \in Nat
      BY <2>10, <2>14, ShapeHeap
    <3> QED BY <2>13, <3>1, <3>2
  <2>17. Steady(H, S, L, S2, (B \ F) \ {q})
    <3>1. Steady(H, S, K, S1, (B \ F) \ {q})
      BY <2>9 DEF Taken, Steady, Kept
    <3>2. Steady(K, S1, L, S2, (B \ F) \ {q})
      BY <2>4, <2>13 DEF Steady, Kept
    <3> QED BY <3>1, <3>2, SteadyTwice
  <2>18. S2[p] = S1[p] /\ \A x \in Int : p <= x /\ x < p + S1[p] - 4 => Rd(L, x) = Rd(K, x)
    <3>1. p \in (B1 \ F1) \ {q}
      BY <2>4
    <3> QED BY <2>13, <3>1 DEF Steady, Kept
  <2>19. ASSUME NEW a \in Word, p <= a, a < p + n, a - p < S[q] - 4 PROVE Rd(L, a) = Rd(H, q + (a - p))
    <3>1. a \in Int
      BY HeapAssumption DEF Word
    <3>2. Rd(L, a) = Rd(K, a)
      BY <2>5, <2>8, <2>18, <2>19, <3>1
    <3>3. Rd(K, a) = Rd(G, q + (a - p))
      BY <2>6, <2>19
    <3>4. q + (a - p) \in Int /\ q <= q + (a - p) /\ q + (a - p) < q + S[q] - 4
      BY <1>1, <2>5, <2>19, <3>1
    <3>5. Rd(G, q + (a - p)) = Rd(H, q + (a - p))
      BY <2>4, <3>4 DEF Steady, Kept
    <3> QED BY <3>2, <3>3, <3>5
  <2>20. Moved(H, B, S, F, L, B2, S2, F2, q, p, n)
    BY <2>4, <2>13, <2>14, <2>15, <2>16, <2>17, <2>18, <2>19 DEF Moved, t
  <2>21. IsMoved(H, B, S, F, L, q, p, n)
    BY <1>5, <2>20 DEF IsMoved
  <2> QED BY <1>2, <1>5, <2>21
<1> QED BY <1>3, <1>4, <1>5

-----------------------------------------------------------------------------
(* mm_init.                                                                *)

\* G is ready for requests, and no block of it is in use.
IsFresh(H, G) ==
  /\ G.fault = H.fault /\ 16 <= G.brk
  /\ \E B, S, F : NoTwins(S, F) /\ B \ F = {} /\ \E r \in Ranks : Shape(G, B, S, F, r)

\* The lists are empty.
Emptied(H) == [H EXCEPT !.glob = [i \in 1..TOTALLIST |-> NULL]]

\* The prologue and the epilogue.
Started(H) ==
  LET H1 == Wr(Wr(WithBreak(Emptied(H), 16), 0, 0), WSIZE, PACK(DSIZE, CUR_ALLOC))
  IN  Wr(Wr(H1, 2 * WSIZE, PACK(DSIZE, CUR_ALLOC)), 3 * WSIZE, PACK(0, PREV_ALLOC + CUR_ALLOC))

\* mm_init extends that.
LEMMA InitSplit ==
  ASSUME NEW H, IsHeap(H), H.brk = 0
  PROVE  mm_init(H) = extend_heap(Started(H), CHUNKSIZE)
<1> DEFINE E == Emptied(H)
<1>1. E.brk = 0
  BY DEF Emptied, IsHeap
<1> HIDE DEF E
<1>2. CanGrow(E, 16) /\ E.brk + 16 = 16
  BY <1>1, HeapAssumption DEF CanGrow
<1>3. mem_sbrk(E, 16) = WithBreak(E, 16)
  BY <1>2 DEF mem_sbrk, WithBreak
<1>4. 4 * WSIZE = 16
  BY DEF WSIZE
<1> QED BY <1>3, <1>4 DEF mm_init, Started, E, Emptied

\* What mm_init makes of an empty heap.
LEMMA InitIs ==
  ASSUME NEW H, IsHeap(H), H.brk = 0
  PROVE  IsFresh(H, mm_init(H).h)
<1> DEFINE E == Emptied(H)
           E0 == WithBreak(E, 16)
           E1 == Wr(E0, 0, 0)
           E2 == Wr(E1, 4, 9)
           E3 == Wr(E2, 8, 9)
           G == Wr(E3, 12, 3)
           S == [x \in Int |-> 0]
           r == [x \in Int |-> 0]
           gl == [i \in Lists |-> NULL]
<1>1. IsHeap(E) /\ E.glob = gl /\ E.fault = H.fault
  <2>1. gl \in [Lists -> Int] /\ gl = [i \in 1..TOTALLIST |-> NULL]
    BY DEF Lists, TOTALLIST, NULL
  <2> HIDE DEF gl
  <2>2. E = [H EXCEPT !.glob = gl]
    BY <2>1 DEF Emptied
  <2> QED BY <2>1, <2>2 DEF IsHeap
<1> HIDE DEF E, gl
<1>2. IsHeap(E0) /\ E0.brk = 16 /\ E0.glob = gl /\ E0.fault = H.fault
  BY <1>1, BreakIs
<1>3. 0 \in Word /\ 4 \in Word /\ 8 \in Word /\ 12 \in Word
  <2>1. 0 + 4 <= MaxHeap /\ 4 + 4 <= MaxHeap /\ 8 + 4 <= MaxHeap /\ 12 + 4 <= MaxHeap
    BY HeapAssumption
  <2> QED BY <2>1, WordAt
<1>4. G = Started(H)
  <2>1. WSIZE = 4 /\ 2 * WSIZE = 8 /\ 3 * WSIZE = 12
    BY DEF WSIZE
  <2>2. PACK(DSIZE, CUR_ALLOC) = 9 /\ PACK(0, PREV_ALLOC + CUR_ALLOC) = 3
    BY DEF PACK, DSIZE, CUR_ALLOC, PREV_ALLOC
  <2> QED BY <2>1, <2>2 DEF Started, E, E0, E1, E2, E3, G
<1> HIDE DEF E0
<1>5. SameSize(E0, E1) /\ E1.glob = E0.glob
  BY <1>2, <1>3, WriteIs
<1>6. IsHeap(E1)
  BY <1>5 DEF SameSize
<1> HIDE DEF E1
<1>7. SameSize(E1, E2) /\ E2.glob = E1.glob
  BY <1>3, <1>6, WriteIs
<1>8. IsHeap(E2)
  BY <1>7 DEF SameSize
<1> HIDE DEF E2
<1>9. SameSize(E2, E3) /\ E3.glob = E2.glob
  BY <1>3, <1>8, WriteIs
<1>10. IsHeap(E3)
  BY <1>9 DEF SameSize
<1> HIDE DEF E3
<1>11. SameSize(E3, G) /\ G.glob = E3.glob /\ Rd(G, 12) = 3
  BY <1>3, <1>10, WriteIs
<1> HIDE DEF G
<1>12. IsHeap(G) /\ G.brk = 16 /\ G.glob = gl /\ G.fault = H.fault
  BY <1>2, <1>5, <1>7, <1>9, <1>11 DEF SameSize
<1>13. Plan({}, S, {}, 16)
  BY DEF Plan, Eights
<1>14. Tags(G, {}, S, {}, 16)
  <2>1. Code(S, {}, 16) = 3
    BY DEF Code, AfterFree
  <2>2. 16 - 4 = 12
    OBVIOUS
  <2> QED BY <1>11, <2>1, <2>2 DEF Tags
<1>15. Chained(G, {}, S, r)
  <2>1. r \in Ranks
    BY DEF Ranks
  <2>2. Roomy({})
    BY DEF Roomy
  <2>3. gl \in [Lists -> Int] /\ \A i \in Lists : gl[i] = NULL
    BY DEF gl, NULL
  <2>4. Linked({}, S, Nexts(G, {}), Prevs(G, {}), gl, r)
    BY <2>3 DEF Linked, Nexts, Prevs
  <2> QED BY <1>12, <2>1, <2>2, <2>4 DEF Chained
<1>16. r \in Ranks /\ NoTwins(S, {}) /\ 16 <= MaxHeap
  BY HeapAssumption DEF Ranks, NoTwins
<1> HIDE DEF S, r
<1>17. Shape(G, {}, S, {}, r)
  BY <1>12, <1>13, <1>14, <1>15, <1>16 DEF Shape
<1>18. CHUNKSIZE \in Eights /\ 24 <= CHUNKSIZE
  BY HeapAssumption DEF Eights
<1> DEFINE K == extend_heap(G, CHUNKSIZE).h
<1>19. /\ CanGrow(G, CHUNKSIZE) => IsMerged(G, {}, S, {}, K, extend_heap(G, CHUNKSIZE).p, CHUNKSIZE)
       /\ ~CanGrow(G, CHUNKSIZE) => K = G
  BY <1>12, <1>16, <1>17, <1>18, ExtendIs
<1>20. mm_init(H).h = K
  BY <1>4, InitSplit
<1> HIDE DEF K
<1>21. CASE CanGrow(G, CHUNKSIZE)
  <2>1. PICK B2, S2, F2 : FreeChanged(G, {}, S, {}, K, B2, S2, F2) /\ NoTwins(S2, F2)
    BY <1>19, <1>21 DEF IsMerged
  <2>2. B2 \ F2 = {} /\ K.fault = G.fault /\ 16 <= K.brk /\ \E r2 \in Ranks : Shape(K, B2, S2, F2, r2)
    BY <1>12, <2>1 DEF FreeChanged
  <2> QED BY <1>12, <1>20, <2>1, <2>2 DEF IsFresh
<1>22. CASE ~CanGrow(G, CHUNKSIZE)
  <2>1. K = G
    BY <1>19, <1>22
  <2>2. {} \ {} = {}
    OBVIOUS
  <2>3. 16 <= G.brk
    BY <1>12
  <2> QED BY <1>12, <1>16, <1>17, <1>20, <2>1, <2>2, <2>3 DEF IsFresh
<1> QED BY <1>21, <1>22

-----------------------------------------------------------------------------
(* What the walks find.                                                    *)

\* q holds every block, in address order, up to the epilogue at m.
IsBlocks(B, S, m, q) ==
  /\ q \in Seq(B)
  /\ \A k \in 1..(Len(q) - 1) : q[k + 1] = q[k] + S[q[k]]
  /\ Len(q) = 0 => m = 16
  /\ Len(q) > 0 => q[1] = 16 /\ q[Len(q)] + S[q[Len(q)]] = m
  /\ \A b \in B : \E k \in 1..Len(q) : q[k] = b

\* The walk over the blocks finds them all.
LEMMA BlocksAre ==
  ASSUME NEW H, NEW B, NEW S, NEW F, NEW r, Shape(H, B, S, F, r)
  PROVE  IsBlocks(B, S, H.brk, Blocks(H))
<1> DEFINE m == H.brk
           next == [b \in Int |-> BlockAt(H, NEXT_BLKP(H, b))]
           start == BlockAt(H, 16)
           q == Follow(next, start, MaxBlocks)
           f == [x \in Int |-> x]
<1>1. Blocks(H) = q
  BY DEF Blocks, BlocksFrom, FirstBlock, WSIZE
<1>2. Plan(B, S, F, m) /\ Tags(H, B, S, F, m) /\ m <= MaxHeap
  BY DEF Shape
<1> HIDE DEF m
<1>3. /\ \A x \in B : x \in Int /\ x # NULL /\ S[x] \in Int /\ 24 <= S[x] /\ 16 <= x /\ x + S[x] \in B \cup {m}
      /\ 16 \in B \cup {m} /\ m \notin B /\ S[m] = 0 /\ m \in Int
      /\ \A c \in B \cup {m} : c = 16 \/ \E b \in B : b + S[b] = c
  BY <1>2 DEF Plan, Eights, NULL
<1>4. ASSUME NEW c \in B \cup {m} PROVE BlockAt(H, c) = IF c = m THEN NULL ELSE c
  <2>1. GET_SIZE(H, HDRP(c)) = S[c]
    BY <1>2, HeadReads
  <2>2. CASE c = m
    BY <1>3, <2>1, <2>2 DEF BlockAt
  <2>3. CASE c # m
    <3>1. c \in B /\ ~(S[c] <= 0)
      BY <1>3, <2>3
    <3> QED BY <2>1, <2>3, <3>1 DEF BlockAt
  <2> QED BY <2>2, <2>3
<1>5. \A b \in B : next[b] = IF b + S[b] = m THEN NULL ELSE b + S[b]
  <2> SUFFICES ASSUME NEW b \in B PROVE next[b] = IF b + S[b] = m THEN NULL ELSE b + S[b]
    OBVIOUS
  <2>1. NEXT_BLKP(H, b) = b + S[b]
    BY <1>2, HeadReads
  <2>2. b \in Int /\ b + S[b] \in B \cup {m}
    BY <1>3
  <2>3. next[b] = BlockAt(H, b + S[b])
    BY <2>1, <2>2
  <2> HIDE DEF next
  <2> QED BY <1>4, <2>2, <2>3
<1> HIDE DEF next
<1>6. start = IF 16 = m THEN NULL ELSE 16
  BY <1>3, <1>4
<1> HIDE DEF start
<1>7. start \in B \cup {NULL}
  BY <1>3, <1>6
<1>8. Climbs(next, B, f)
  <2>1. f \in Ranks /\ \A x \in Int : f[x] = x
    BY DEF Ranks
  <2>2. B \subseteq Int \ {NULL}
    BY <1>3
  <2>3. \A b \in B : next[b] # NULL => next[b] \in B /\ b < next[b]
    BY <1>3, <1>5
  <2> HIDE DEF f
  <2> QED BY <2>1, <2>2, <2>3 DEF Climbs
<1>9. IsFiniteSet(B) /\ Cardinality(B) < MaxBlocks /\ MaxBlocks \in Nat
  BY <1>2, FewBlocks
<1>10. IsWholePath(q, start, next, B, f)
  BY <1>7, <1>8, <1>9, FollowsAll
<1> HIDE DEF q
<1>11. /\ q \in Seq(B) /\ Len(q) \in Nat /\ \A k \in 1..Len(q) : q[k] \in B
       /\ start = NULL => Len(q) = 0
       /\ start # NULL => Len(q) > 0 /\ q[1] = start /\ next[q[Len(q)]] = NULL
       /\ \A k \in 1..(Len(q) - 1) : q[k + 1] = next[q[k]]
  BY <1>10 DEF IsWholePath
<1>12. ASSUME NEW k \in 1..(Len(q) - 1) PROVE q[k + 1] = q[k] + S[q[k]]
  <2>1. q[k + 1] = next[q[k]] /\ q[k] \in B /\ q[k + 1] \in B
    BY <1>11
  <2>2. next[q[k]] # NULL
    BY <1>3, <2>1
  <2> QED BY <1>5, <2>1, <2>2
<1>13. Len(q) = 0 => m = 16
  BY <1>6, <1>11 DEF NULL
<1>14. ASSUME Len(q) > 0 PROVE q[1] = 16 /\ q[Len(q)] + S[q[Len(q)]] = m
  <2>1. q[1] = 16 /\ next[q[Len(q)]] = NULL
    BY <1>6, <1>11, <1>14
  <2>2. q[Len(q)] \in B
    BY <1>11, <1>14
  <2>3. q[Len(q)] + S[q[Len(q)]] # NULL
    BY <1>3, <2>2 DEF NULL
  <2> QED BY <1>5, <2>1, <2>2, <2>3
<1>15. ASSUME NEW b \in B PROVE \E k \in 1..Len(q) : q[k] = b
  <2> DEFINE Lost == {c \in B : ~\E k \in 1..Len(q) : q[k] = c}
  <2> SUFFICES ASSUME Lost # {} PROVE FALSE
    OBVIOUS
  <2>1. Lost \subseteq B
    OBVIOUS
  <2>2. IsFiniteSet(Lost) /\ Lost \subseteq Int
    BY <1>3, <1>9, <2>1, FS_Subset
  <2>3. PICK c \in Lost : \A d \in Lost : c <= d
    <3>1. f \in Ranks /\ \A x \in Int : f[x] = x
      BY DEF Ranks
    <3> HIDE DEF Lost, f
    <3>2. PICK c \in Lost : \A d \in Lost : f[c] <= f[d]
      BY <2>2, <3>1, LowestRank
    <3>3. \A d \in Lost : f[d] = d
      BY <2>2, <3>1
    <3> QED BY <3>2, <3>3
  <2>4. c \in B /\ ~\E k \in 1..Len(q) : q[k] = c
    OBVIOUS
  <2>5. CASE c = 16
    <3>1. start = 16 /\ 16 # NULL
      BY <1>3, <1>6, <2>4, <2>5 DEF NULL
    <3>2. Len(q) > 0 /\ q[1] = 16
      BY <1>11, <3>1
    <3>3. 1 \in 1..Len(q)
      BY <1>11, <3>2
    <3> QED BY <2>4, <2>5, <3>2, <3>3
  <2>6. CASE c # 16
    <3>1. PICK y \in B : y + S[y] = c
      BY <1>3, <2>4, <2>6
    <3>0. c \in B
      BY <2>4
    <3> HIDE DEF Lost
    <3>a. y \in Int /\ S[y] \in Int /\ 24 <= S[y] /\ c \in Int /\ c # NULL /\ c # m
      BY <1>3, <3>0
    <3>2. y < c /\ c # m /\ c # NULL
      BY ONLY <3>1, <3>a
    <3>3. y \notin Lost
      <4> SUFFICES ASSUME y \in Lost PROVE FALSE
        OBVIOUS
      <4>1. c <= y
        BY <2>3
      <4> QED BY ONLY <3>2, <3>a, <4>1
    <3> USE DEF Lost
    <3>4. PICK k \in 1..Len(q) : q[k] = y
      BY <3>3
    <3>5. next[q[k]] = c
      BY <1>5, <3>1, <3>2, <3>4
    <3>6. k # Len(q)
      BY <1>11, <3>2, <3>5
    <3>7. k \in 1..(Len(q) - 1) /\ k + 1 \in 1..Len(q)
      BY <1>11, <3>6
    <3>8. q[k + 1] = c
      BY <1>11, <3>5, <3>7
    <3> QED BY <2>4, <3>7, <3>8
  <2> QED BY <2>5, <2>6
<1>16. IsBlocks(B, S, m, q)
  BY <1>11, <1>12, <1>13, <1>14, <1>15 DEF IsBlocks
<1> QED BY <1>1, <1>16 DEF m

\* The blocks fill the heap.
LEMMA ShapeTiled ==
  ASSUME NEW H, NEW B, NEW S, NEW F, NEW r, Shape(H, B, S, F, r)
  PROVE  Tiled(H)
<1> DEFINE b == Blocks(H)
           m == H.brk
<1>1. Plan(B, S, F, m) /\ Tags(H, B, S, F, m) /\ IsBlocks(B, S, m, b)
  BY BlocksAre DEF Shape
<1> HIDE DEF b, m
<1>2. b \in Seq(B) /\ Len(b) \in Nat /\ DOMAIN b = 1..Len(b) /\ \A k \in 1..Len(b) : b[k] \in B
  BY <1>1 DEF IsBlocks
<1>3. \A x \in B : GET_SIZE(H, HDRP(x)) = S[x] /\ NEXT_BLKP(H, x) = x + S[x]
  BY <1>1, HeadReads
<1>4. \A x \in B : S[x] \in Int /\ 24 <= S[x]
  BY <1>1 DEF Plan, Eights
<1>5. \A k \in DOMAIN b : GET_SIZE(H, HDRP(b[k])) >= MINBLOCK
  BY <1>2, <1>3, <1>4 DEF MINBLOCK
<1>6. (IF b = <<>> THEN FirstBlock ELSE NEXT_BLKP(H, b[Len(b)])) = m
  <2>1. CASE b = <<>>
    BY <1>1, <2>1 DEF IsBlocks, FirstBlock, WSIZE
  <2>2. CASE b # <<>>
    <3>1. Len(b) > 0 /\ Len(b) \in 1..Len(b)
      BY <1>2, <2>2
    <3>2. b[Len(b)] \in B /\ b[Len(b)] + S[b[Len(b)]] = m
      BY <1>1, <1>2, <3>1 DEF IsBlocks
    <3> QED BY <1>3, <2>2, <3>2
  <2> QED BY <2>1, <2>2
<1> QED BY <1>5, <1>6 DEF Tiled, b, m

\* Whether a block is free is in its own header and in the next.
LEMMA ShapeTagged ==
  ASSUME NEW H, NEW B, NEW S, NEW F, NEW r, Shape(H, B, S, F, r)
  PROVE  Tagged(H)
<1> DEFINE b == Blocks(H)
           m == H.brk
<1>1. Plan(B, S, F, m) /\ Tags(H, B, S, F, m) /\ IsBlocks(B, S, m, b)
  BY BlocksAre DEF Shape
<1> HIDE DEF b, m
<1>2. b \in Seq(B) /\ Len(b) \in Nat /\ DOMAIN b = 1..Len(b) /\ \A k \in 1..Len(b) : b[k] \in B
  BY <1>1 DEF IsBlocks
<1>3. \A x \in B \cup {m} : /\ GET_ALLOC(H, HDRP(x)) = IF x \in F THEN 0 ELSE 1
                            /\ GET_SIZE(H, HDRP(x)) = S[x]
                            /\ GET_PREV_ALLOC(H, HDRP(x)) = IF AfterFree(S, F, x) THEN 0 ELSE 2
                            /\ NEXT_BLKP(H, x) = x + S[x]
  BY <1>1, HeadReads
<1>4. /\ \A x \in B : x \in Int /\ S[x] \in Int /\ 24 <= S[x] /\ 16 <= x /\ x + S[x] \in B \cup {m}
      /\ F \subseteq B
  BY <1>1 DEF Plan, Eights
<1>5. ASSUME NEW x \in B
      PROVE  /\ GET_PREV_ALLOC(H, HDRP(NEXT_BLKP(H, x))) = 2 * GET_ALLOC(H, HDRP(x))
             /\ IsFree(H, x) => Rd(H, FTRP(H, x)) = Rd(H, HDRP(x))
  <2>1. AfterFree(S, F, x + S[x]) <=> x \in F
    <3>1. ASSUME NEW y \in F, y + S[y] = x + S[x] PROVE y = x
      BY <1>1, <1>4, <3>1, OneEnd
    <3> QED BY <3>1 DEF AfterFree
  <2>2. GET_PREV_ALLOC(H, HDRP(NEXT_BLKP(H, x))) = IF x \in F THEN 0 ELSE 2
    BY <1>3, <1>4, <2>1
  <2>3. 2 * GET_ALLOC(H, HDRP(x)) = IF x \in F THEN 0 ELSE 2
    BY <1>3
  <2>4. ASSUME IsFree(H, x) PROVE Rd(H, FTRP(H, x)) = Rd(H, HDRP(x))
    <3>1. x \in F
      BY <1>3, <2>4 DEF IsFree
    <3>2. FTRP(H, x) = x + S[x] - 8
      BY <1>3 DEF FTRP, DSIZE
    <3>3. HDRP(x) = x - 4
      BY DEF HDRP, WSIZE
    <3>4. Rd(H, x - 4) = Code(S, F, x) /\ Rd(H, x + S[x] - 8) = Code(S, F, x)
      BY <1>1, <3>1 DEF Tags
    <3> QED BY <3>2, <3>3, <3>4
  <2> QED BY <2>2, <2>3, <2>4
<1>6. ASSUME b # <<>> PROVE GET_PREV_ALLOC(H, HDRP(b[1])) = PREV_ALLOC
  <2>1. Len(b) > 0 /\ 1 \in 1..Len(b)
    BY <1>2, <1>6
  <2>2. b[1] = 16 /\ b[1] \in B
    BY <1>1, <1>2, <2>1 DEF IsBlocks
  <2>3. ~AfterFree(S, F, b[1])
    BY <1>4, <2>2 DEF AfterFree
  <2> QED BY <1>3, <2>2, <2>3 DEF PREV_ALLOC
<1> QED BY <1>2, <1>5, <1>6 DEF Tagged, b

\* The free blocks that the walk finds.
LEMMA ShapeFree ==
  ASSUME NEW H, NEW B, NEW S, NEW F, NEW r, Shape(H, B, S, F, r)
  PROVE  FreeBlocks(H) = F
<1> DEFINE b == Blocks(H)
           m == H.brk
<1>1. Plan(B, S, F, m) /\ Tags(H, B, S, F, m) /\ IsBlocks(B, S, m, b)
  BY BlocksAre DEF Shape
<1> HIDE DEF b, m
<1>2. b \in Seq(B) /\ DOMAIN b = 1..Len(b) /\ \A k \in 1..Len(b) : b[k] \in B
  BY <1>1 DEF IsBlocks
<1>3. \A x \in B : IsFree(H, x) <=> x \in F
  <2>1. \A x \in B : GET_ALLOC(H, HDRP(x)) = IF x \in F THEN 0 ELSE 1
    BY <1>1, HeadReads
  <2> QED BY <2>1 DEF IsFree
<1>4. F \subseteq B /\ \A x \in B : \E k \in 1..Len(b) : b[k] = x
  BY <1>1 DEF Plan, IsBlocks
<1>5. FreeBlocks(H) = {b[k] : k \in {j \in DOMAIN b : IsFree(H, b[j])}}
  BY DEF FreeBlocks, b
<1> QED BY <1>2, <1>3, <1>4, <1>5

\* No two of them are neighbours.
LEMMA ShapeMerged ==
  ASSUME NEW H, NEW B, NEW S, NEW F, NEW r, Shape(H, B, S, F, r), NoTwins(S, F)
  PROVE  Merged(H)
<1> DEFINE b == Blocks(H)
           m == H.brk
<1>1. Plan(B, S, F, m) /\ Tags(H, B, S, F, m) /\ IsBlocks(B, S, m, b)
  BY BlocksAre DEF Shape
<1> HIDE DEF b, m
<1>2. b \in Seq(B) /\ Len(b) \in Nat /\ \A k \in 1..Len(b) : b[k] \in B
  BY <1>1 DEF IsBlocks
<1>3. \A x \in B : IsFree(H, x) <=> x \in F
  <2>1. \A x \in B : GET_ALLOC(H, HDRP(x)) = IF x \in F THEN 0 ELSE 1
    BY <1>1, HeadReads
  <2> QED BY <2>1 DEF IsFree
<1>4. \A k \in 1..(Len(b) - 1) : b[k + 1] = b[k] + S[b[k]] /\ b[k] \in B /\ b[k + 1] \in B
  BY <1>1, <1>2 DEF IsBlocks
<1>5. \A k \in 1..(Len(b) - 1) : ~(IsFree(H, b[k]) /\ IsFree(H, b[k + 1]))
  BY <1>3, <1>4 DEF NoTwins
<1> QED BY <1>5 DEF Merged, b

\* Each of them is on its list.
LEMMA ShapeOnLists ==
  ASSUME NEW H, NEW B, NEW S, NEW F, NEW r, Shape(H, B, S, F, r)
  PROVE  OnLists(H)
<1>1. FreeBlocks(H) = F
  BY ShapeFree
<1>2. \A b \in F : GET_SIZE(H, HDRP(b)) = S[b]
  BY FreeSize
<1>3. \A i \in Lists : IsList(H, S, F, i, FreeList(H, i))
  BY ListIs
<1>4. Lists = 1..TOTALLIST
  BY DEF Lists, TOTALLIST
<1>5. ASSUME NEW i \in Lists, NEW k \in DOMAIN FreeList(H, i)
      PROVE  LET l == FreeList(H, i)
             IN  /\ l[k] \in F /\ index_of(GET_SIZE(H, HDRP(l[k]))) = i
                 /\ GET(H, PREDECESSOR(l[k])) = (IF k = 1 THEN NULL ELSE l[k - 1])
  <2> DEFINE l == FreeList(H, i)
  <2>1. IsList(H, S, F, i, l)
    BY <1>3
  <2> HIDE DEF l
  <2>2. l \in Seq(F) /\ DOMAIN l = 1..Len(l)
    BY <2>1 DEF IsList
  <2>3. k \in 1..Len(l)
    BY <2>2 DEF l
  <2>4. l[k] \in F /\ index_of(S[l[k]]) = i /\ Rd(H, l[k] + 8) = IF k = 1 THEN NULL ELSE l[k - 1]
    BY <2>1, <2>2, <2>3 DEF IsList
  <2>5. GET(H, PREDECESSOR(l[k])) = Rd(H, l[k] + 8)
    BY DEF GET, PREDECESSOR, DSIZE
  <2> QED BY <1>2, <2>4, <2>5 DEF l
<1>6. ASSUME NEW b \in F
      PROVE  LET l == FreeList(H, index_of(GET_SIZE(H, HDRP(b))))
             IN  Cardinality({k \in DOMAIN l : l[k] = b}) = 1
  <2> DEFINE i == index_of(S[b])
             l == FreeList(H, i)
  <2>1. IsList(H, S, F, i, l)
    BY <1>3, ClassRange
  <2>2. l = FreeList(H, index_of(GET_SIZE(H, HDRP(b))))
    BY <1>2
  <2> HIDE DEF l
  <2>3. DOMAIN l = 1..Len(l)
    BY <2>1 DEF IsList
  <2>4. PICK k \in 1..Len(l) : l[k] = b
    BY <2>1 DEF IsList
  <2>5. {j \in DOMAIN l : l[j] = b} = {k}
    BY <2>1, <2>3, <2>4 DEF IsList
  <2>6. Cardinality({k}) = 1
    BY FS_Singleton
  <2> QED BY <2>2, <2>5, <2>6
<1> QED BY <1>1, <1>4, <1>5, <1>6 DEF OnLists

-----------------------------------------------------------------------------
(* The trace's blocks and the blocks in use.                               *)

\* The blocks with something in them.
Occupied(bl) == {i \in Ids : bl[i].size > 0}

\* A block of the trace, as mdriver.c records it.
Payload(p, n) == [lo |-> p, size |-> n]

\* The trace's blocks; an index without a block has NoBlock.
Typed(bl) ==
  /\ bl \in [Ids -> [lo : Int, size : Nat]]
  /\ \A i \in Ids : bl[i].size = 0 => bl[i] = NoBlock

\* The blocks A in use are those of the trace, with room for them and with their data.
Held(H, A, S, bl) ==
  /\ \A i \in Occupied(bl) :
       bl[i].lo \in A /\ BlockFor(bl[i].size) <= S[bl[i].lo] /\ check_index(H, i, bl[i])
  /\ \A i, j \in Occupied(bl) : bl[i].lo = bl[j].lo => i = j
  /\ \A a \in A : \E i \in Occupied(bl) : bl[i].lo = a

\* Addresses are integers.
LEMMA WordInt == \A a \in Word : a \in Int /\ 0 <= a
<1>1. ASSUME NEW a \in Word PROVE a \in Int /\ 0 <= a
  <2>0. MaxHeap \div 4 - 1 \in Int
    BY HeapAssumption
  <2>1. PICK k \in 0..(MaxHeap \div 4 - 1) : a = 4 * k
    BY DEF Word
  <2>2. k \in Int /\ 0 <= k
    BY <2>0, <2>1
  <2> QED BY <2>1, <2>2
<1> QED BY <1>1

\* A payload of a block in use is kept with the block.
LEMMA IndexKept ==
  ASSUME NEW H, NEW G, NEW A, NEW S, Kept(H, G, A, S), NEW p \in Int, p \in A, S[p] \in Int,
         NEW n \in Nat, BlockFor(n) <= S[p], NEW i
  PROVE  check_index(G, i, Payload(p, n)) <=> check_index(H, i, Payload(p, n))
<1>1. n + 4 <= S[p]
  <2>1. BlockFor(n) \in Int /\ n + 4 <= BlockFor(n)
    BY BlockForIs
  <2> QED BY <2>1
<1>2. ASSUME NEW a \in WordsOf(Payload(p, n)) PROVE Rd(G, a) = Rd(H, a)
  <2>1. a \in Word /\ a \in p..(p + n - 1)
    BY DEF WordsOf, Payload
  <2>2. a \in Int /\ p <= a /\ a < p + S[p] - 4
    BY <1>1, <2>1
  <2> QED BY <2>2 DEF Kept
<1> QED BY <1>2 DEF check_index

\* A free number is given a block that was not in use.
LEMMA GiveHeld ==
  ASSUME NEW H, NEW A, NEW S, NEW bl, Held(H, A, S, bl), Typed(bl), A \subseteq Int,
         \A a \in A : S[a] \in Int,
         NEW G, NEW S2, Steady(H, S, G, S2, A),
         NEW i \in Ids, i \notin Occupied(bl), NEW p \in Int, p \notin A, NEW n \in Nat, 0 < n,
         BlockFor(n) <= S2[p], check_index(G, i, Payload(p, n))
  PROVE  /\ Held(G, A \cup {p}, S2, [bl EXCEPT ![i] = Payload(p, n)])
         /\ Typed([bl EXCEPT ![i] = Payload(p, n)])
<1> DEFINE new == [bl EXCEPT ![i] = Payload(p, n)]
<1>1. new[i] = Payload(p, n) /\ \A j \in Ids \ {i} : new[j] = bl[j]
  BY DEF Typed
<1>2. Payload(p, n) \in [lo : Int, size : Nat] /\ Payload(p, n).lo = p /\ Payload(p, n).size = n
  BY DEF Payload
<1>3. Typed(new)
  <2>1. new \in [Ids -> [lo : Int, size : Nat]]
    BY <1>2 DEF Typed
  <2>2. ASSUME NEW j \in Ids, new[j].size = 0 PROVE new[j] = NoBlock
    BY <1>1, <1>2, <2>2 DEF Typed
  <2> HIDE DEF new
  <2> QED BY <2>1, <2>2 DEF Typed
<1> HIDE DEF new
<1>4. i \in Occupied(new) /\ \A j \in Ids \ {i} : j \in Occupied(new) <=> j \in Occupied(bl)
  BY <1>1, <1>2 DEF Occupied
<1>5. Occupied(new) \subseteq Ids /\ Occupied(bl) \subseteq Ids
  BY DEF Occupied
<1>6. ASSUME NEW j \in Occupied(new)
      PROVE  new[j].lo \in A \cup {p} /\ BlockFor(new[j].size) <= S2[new[j].lo] /\ check_index(G, j, new[j])
  <2>1. CASE j = i
    BY <1>1, <1>2, <2>1
  <2>2. CASE j # i
    <3>1. new[j] = bl[j] /\ j \in Occupied(bl) /\ j \in Ids
      BY <1>1, <1>4, <1>5, <2>2
    <3>2. bl[j].lo \in A /\ BlockFor(bl[j].size) <= S[bl[j].lo] /\ check_index(H, j, bl[j])
      BY <3>1 DEF Held
    <3>3. bl[j] = Payload(bl[j].lo, bl[j].size) /\ bl[j].size \in Nat /\ bl[j].lo \in Int
      BY <3>1 DEF Typed, Payload
    <3>4. S2[bl[j].lo] = S[bl[j].lo] /\ Kept(H, G, A, S)
      BY <3>2 DEF Steady
    <3>5. check_index(G, j, Payload(bl[j].lo, bl[j].size)) <=> check_index(H, j, Payload(bl[j].lo, bl[j].size))
      BY <3>2, <3>3, <3>4, IndexKept
    <3> QED BY <3>1, <3>2, <3>3, <3>4, <3>5
  <2> QED BY <2>1, <2>2
<1>7. ASSUME NEW j \in Occupied(new), NEW k \in Occupied(new), new[j].lo = new[k].lo PROVE j = k
  <2>1. \A x \in Occupied(new) : x # i => new[x] = bl[x] /\ x \in Occupied(bl) /\ bl[x].lo \in A /\ bl[x].lo # p
    BY <1>1, <1>4, <1>5 DEF Held
  <2> QED BY <1>1, <1>2, <1>7, <2>1 DEF Held
<1>8. ASSUME NEW a \in A \cup {p} PROVE \E j \in Occupied(new) : new[j].lo = a
  <2>1. CASE a = p
    BY <1>1, <1>2, <1>4, <2>1
  <2>2. CASE a \in A
    <3>1. PICK j \in Occupied(bl) : bl[j].lo = a
      BY <2>2 DEF Held
    <3> QED BY <1>1, <1>4, <1>5, <3>1
  <2> QED BY <2>1, <2>2
<1>9. Held(G, A \cup {p}, S2, new)
  BY <1>6, <1>7, <1>8 DEF Held
<1> QED BY <1>3, <1>9 DEF new

\* A block that was in use is taken from its number.
LEMMA DropHeld ==
  ASSUME NEW H, NEW A, NEW S, NEW bl, Held(H, A, S, bl), Typed(bl), A \subseteq Int,
         \A a \in A : S[a] \in Int,
         NEW i \in Occupied(bl), NEW q, q = bl[i].lo,
         NEW G, NEW S2, Steady(H, S, G, S2, A \ {q})
  PROVE  /\ Held(G, A \ {q}, S2, [bl EXCEPT ![i] = NoBlock])
         /\ Typed([bl EXCEPT ![i] = NoBlock])
<1> DEFINE new == [bl EXCEPT ![i] = NoBlock]
<1>0. i \in Ids
  BY DEF Occupied
<1>1. new[i] = NoBlock /\ \A j \in Ids \ {i} : new[j] = bl[j]
  BY <1>0 DEF Typed
<1>2. NoBlock \in [lo : Int, size : Nat] /\ NoBlock.size = 0
  BY DEF NoBlock, NULL
<1>3. Typed(new)
  <2>1. new \in [Ids -> [lo : Int, size : Nat]]
    BY <1>2 DEF Typed
  <2>2. ASSUME NEW j \in Ids, new[j].size = 0 PROVE new[j] = NoBlock
    BY <1>1, <2>2 DEF Typed
  <2> HIDE DEF new
  <2> QED BY <2>1, <2>2 DEF Typed
<1> HIDE DEF new
<1>4. i \notin Occupied(new) /\ \A j \in Ids \ {i} : j \in Occupied(new) <=> j \in Occupied(bl)
  BY <1>1, <1>2 DEF Occupied
<1>5. Occupied(new) \subseteq Ids /\ Occupied(bl) \subseteq Ids
  BY DEF Occupied
<1>6. \A j \in Occupied(new) : j # i /\ j \in Ids /\ j \in Occupied(bl) /\ new[j] = bl[j] /\ bl[j].lo # q
  BY <1>1, <1>4, <1>5 DEF Held
<1>7. ASSUME NEW j \in Occupied(new)
      PROVE  new[j].lo \in A \ {q} /\ BlockFor(new[j].size) <= S2[new[j].lo] /\ check_index(G, j, new[j])
  <2>1. new[j] = bl[j] /\ j \in Occupied(bl) /\ j \in Ids /\ bl[j].lo # q
    BY <1>6
  <2>2. bl[j].lo \in A \ {q} /\ BlockFor(bl[j].size) <= S[bl[j].lo] /\ check_index(H, j, bl[j])
    BY <2>1 DEF Held
  <2>3. bl[j] = Payload(bl[j].lo, bl[j].size) /\ bl[j].size \in Nat /\ bl[j].lo \in Int
    BY <2>1 DEF Typed, Payload
  <2>4. S2[bl[j].lo] = S[bl[j].lo] /\ Kept(H, G, A \ {q}, S)
    BY <2>2 DEF Steady
  <2>5. check_index(G, j, Payload(bl[j].lo, bl[j].size)) <=> check_index(H, j, Payload(bl[j].lo, bl[j].size))
    BY <2>2, <2>3, <2>4, IndexKept
  <2> QED BY <2>1, <2>2, <2>3, <2>4, <2>5
<1>8. ASSUME NEW j \in Occupied(new), NEW k \in Occupied(new), new[j].lo = new[k].lo PROVE j = k
  BY <1>6, <1>8 DEF Held
<1>9. ASSUME NEW a \in A \ {q} PROVE \E j \in Occupied(new) : new[j].lo = a
  <2>1. PICK j \in Occupied(bl) : bl[j].lo = a
    BY DEF Held
  <2> QED BY <1>1, <1>4, <1>5, <2>1
<1>10. Held(G, A \ {q}, S2, new)
  BY <1>7, <1>8, <1>9 DEF Held
<1> QED BY <1>3, <1>10 DEF new

\* The blocks in use are those of the trace.
HeldBy(H, B, S, F, bl) == Held(H, B \ F, S, bl)

\* The blocks in use are A and p.
OneMore(B, F, A, p) == B \ F = A \cup {p} /\ p \notin A

\* A heap in order, as the functions of mm.c leave it.
Settled(H, B, S, F) == NoTwins(S, F) /\ \E r \in Ranks : Shape(H, B, S, F, r)

\* Between two requests: the heap is in order and holds the blocks of the trace.
Ready(H, bl) ==
  /\ Typed(bl) /\ H.fault = FALSE /\ 16 <= H.brk
  /\ \E B, S, F : Settled(H, B, S, F) /\ HeldBy(H, B, S, F, bl)

\* Where the blocks in use are.
LEMMA UsedAre ==
  ASSUME NEW H, NEW B, NEW S, NEW F, Settled(H, B, S, F)
  PROVE  /\ IsHeap(H) /\ H.brk \in Nat /\ H.brk <= MaxHeap /\ B \ F \subseteq Int
         /\ \A a \in B \ F : /\ S[a] \in Int /\ a \in Eights /\ 16 <= a /\ a # NULL /\ a + S[a] <= H.brk
         /\ \A a, b \in B \ F : a < b => a + S[a] <= b
<1>1. PICK r \in Ranks : Shape(H, B, S, F, r)
  BY DEF Settled
<1>2. IsHeap(H) /\ H.brk \in Nat
  BY <1>1, ShapeHeap
<1>3. Plan(B, S, F, H.brk) /\ H.brk <= MaxHeap
  BY <1>1 DEF Shape
<1>4. B \subseteq Eights /\ S \in [Int -> Int]
  BY <1>3 DEF Plan
<1>5. Eights \subseteq Int
  BY DEF Eights
<1>6. B \ F \subseteq Int
  BY <1>4, <1>5
<1>7. ASSUME NEW a \in B \ F
      PROVE  S[a] \in Int /\ a \in Eights /\ 16 <= a /\ a # NULL /\ a + S[a] <= H.brk
  <2>1. a \in Int /\ S[a] \in Int /\ a \in Eights
    BY <1>4, <1>5
  <2>2. 16 <= a /\ a + S[a] <= H.brk
    BY <1>3 DEF Plan
  <2>3. a # NULL
    BY <2>1, <2>2 DEF NULL
  <2> QED BY <2>1, <2>2, <2>3
<1>8. \A a, b \in B \ F : a < b => a + S[a] <= b
  BY <1>3 DEF Plan
<1> QED BY <1>2, <1>3, <1>6, <1>7, <1>8

\* Blocks that keep what they hold stay the trace's.
LEMMA HeldKept ==
  ASSUME NEW H, NEW A, NEW S, NEW bl, Held(H, A, S, bl), Typed(bl), A \subseteq Int,
         \A a \in A : S[a] \in Int, NEW G, NEW S2, Steady(H, S, G, S2, A)
  PROVE  Held(G, A, S2, bl)
<1>1. ASSUME NEW j \in Occupied(bl)
      PROVE  bl[j].lo \in A /\ BlockFor(bl[j].size) <= S2[bl[j].lo] /\ check_index(G, j, bl[j])
  <2>1. j \in Ids
    BY DEF Occupied
  <2>2. bl[j].lo \in A /\ BlockFor(bl[j].size) <= S[bl[j].lo] /\ check_index(H, j, bl[j])
    BY DEF Held
  <2>3. bl[j] = Payload(bl[j].lo, bl[j].size) /\ bl[j].size \in Nat /\ bl[j].lo \in Int
    BY <2>1 DEF Typed, Payload
  <2>4. S2[bl[j].lo] = S[bl[j].lo] /\ Kept(H, G, A, S)
    BY <2>2 DEF Steady
  <2>5. check_index(G, j, Payload(bl[j].lo, bl[j].size)) <=> check_index(H, j, Payload(bl[j].lo, bl[j].size))
    BY <2>2, <2>3, <2>4, IndexKept
  <2> QED BY <2>2, <2>3, <2>4, <2>5
<1> QED BY <1>1 DEF Held

\* The trace's blocks when i has been given one.
Given(bl, i, p, n) == [bl EXCEPT ![i] = Payload(p, n)]

\* The block p has been given to i in G, for n bytes, and the blocks A were in use before.
Offered(G, B, S, F, A, bl, i, p, n) ==
  /\ Settled(G, B, S, F) /\ G.fault = FALSE /\ 16 <= G.brk
  /\ Held(G, A, S, bl) /\ Typed(bl) /\ OneMore(B, F, A, p)
  /\ i \in Ids /\ i \notin Occupied(bl) /\ n \in Nat /\ 0 < n /\ BlockFor(n) <= S[p]

\* What becomes of the heap when the driver has filled it.
Owned(G, bl, i, p, n) ==
  Ready(Fill(G, p, n, Data(i)), Given(bl, i, p, n)) /\ Fill(G, p, n, Data(i)).brk = G.brk

\* The driver fills a block that has just been given to i.
LEMMA FillReady ==
  ASSUME NEW G, NEW B, NEW S, NEW F, NEW A, NEW bl, NEW i, NEW p, NEW n,
         Offered(G, B, S, F, A, bl, i, p, n)
  PROVE  Owned(G, bl, i, p, n)
<1>a. /\ Settled(G, B, S, F) /\ G.fault = FALSE /\ 16 <= G.brk
      /\ Held(G, A, S, bl) /\ Typed(bl) /\ OneMore(B, F, A, p)
      /\ i \in Ids /\ i \notin Occupied(bl) /\ n \in Nat /\ 0 < n /\ BlockFor(n) <= S[p]
  BY DEF Offered
<1> DEFINE K == Fill(G, p, n, Data(i))
           new == Given(bl, i, p, n)
<1>0. B \ F = A \cup {p} /\ p \notin A
  BY <1>a DEF OneMore
<1>1. p \in B \ F /\ p \in Int /\ p # NULL /\ IsHeap(G) /\ A \subseteq Int /\ S[p] \in Int
      /\ \A a \in A : S[a] \in Int
  BY <1>0, <1>a, UsedAre
<1>2. Data(i) \in Int /\ n \in Int
  BY <1>a, DriverAssumption DEF Data, Ids
<1>3. /\ Filled(G, K, p, n)
      /\ \A a \in Word : p <= a /\ a < p + n => Rd(K, a) = Data(i)
  BY <1>1, <1>2, FillIs
<1> HIDE DEF K
<1>4. K.brk = G.brk /\ K.fault = FALSE
  BY <1>a, <1>3 DEF Filled, SameSize
<1>5. n + 4 <= S[p]
  <2>1. BlockFor(n) \in Int /\ n + 4 <= BlockFor(n)
    BY <1>a, BlockForIs
  <2> QED BY <1>a, <1>1, <2>1
<1>6. PICK r \in Ranks : Shape(G, B, S, F, r)
  BY <1>a DEF Settled
<1>7. Shape(K, B, S, F, r) /\ Steady(G, S, K, S, (B \ F) \ {p})
  BY <1>a, <1>1, <1>2, <1>3, <1>5, <1>6, FilledKeeps
<1>8. (B \ F) \ {p} = A
  BY <1>0
<1>9. check_index(K, i, Payload(p, n))
  <2>1. ASSUME NEW a \in WordsOf(Payload(p, n)) PROVE Rd(K, a) = Data(i)
    <3>1. a \in Word /\ a \in p..(p + n - 1)
      BY DEF WordsOf, Payload
    <3>2. p <= a /\ a < p + n
      BY <1>a, <1>1, <3>1
    <3> QED BY <1>3, <3>1, <3>2
  <2> QED BY <2>1 DEF check_index
<1>10. Held(K, A \cup {p}, S, new) /\ Typed(new)
  <2>1. Steady(G, S, K, S, A)
    BY <1>7, <1>8
  <2> QED BY <1>a, <1>0, <1>1, <1>9, <2>1, GiveHeld DEF Given
<1> HIDE DEF new
<1>11. Settled(K, B, S, F)
  BY <1>a, <1>6, <1>7 DEF Settled
<1>12. Ready(K, new)
  <2>1. HeldBy(K, B, S, F, new)
    BY <1>0, <1>10 DEF HeldBy
  <2> QED BY <1>a, <1>4, <1>10, <1>11, <2>1 DEF Ready
<1> QED BY <1>4, <1>12 DEF new, K, Owned

\* No free block is large enough, and the heap cannot grow.
Full(H, n) ==
  /\ \A bp \in FreeBlocks(H) : GET_SIZE(H, HDRP(bp)) < BlockFor(n)
  /\ ~CanGrow(H, Larger(BlockFor(n), CHUNKSIZE))

\* What malloc's search says of the blocks.
LEMMA NoRoomFull ==
  ASSUME NEW H, NEW B, NEW S, NEW F, NEW r, Shape(H, B, S, F, r), NEW n, NoRoom(H, S, F, n)
  PROVE  Full(H, n)
<1>1. FreeBlocks(H) = F
  BY ShapeFree
<1>2. \A b \in F : GET_SIZE(H, HDRP(b)) = S[b]
  BY FreeSize
<1> QED BY <1>1, <1>2 DEF Full, NoRoom

\* What was given to i, before it is filled.
LEMMA TakenReady ==
  ASSUME NEW H, NEW B, NEW S, NEW F, Settled(H, B, S, F), H.fault = FALSE, 16 <= H.brk,
         NEW bl, Typed(bl), HeldBy(H, B, S, F, bl),
         NEW i \in Ids, i \notin Occupied(bl), NEW n \in Nat, 0 < n,
         NEW G, NEW p, IsTaken(H, B, S, F, G, p, BlockFor(n))
  PROVE  Owned(G, bl, i, p, n) /\ H.brk <= G.brk /\ G.fault = FALSE
<1>1. PICK B2, S2, F2 : Taken(H, B, S, F, G, B2, S2, F2, p, BlockFor(n))
  BY DEF IsTaken
<1>2. Settled(G, B2, S2, F2)
  BY <1>1 DEF Taken, Settled
<1>3. /\ G.fault = FALSE /\ H.brk <= G.brk /\ Steady(H, S, G, S2, B \ F)
      /\ B2 \ F2 = (B \ F) \cup {p} /\ p \notin B \ F /\ BlockFor(n) <= S2[p]
  BY <1>1 DEF Taken
<1>4. 16 <= G.brk
  <2>1. H.brk \in Nat /\ G.brk \in Nat
    BY <1>2, UsedAre
  <2> QED BY <1>3, <2>1
<1>5. B \ F \subseteq Int /\ \A a \in B \ F : S[a] \in Int
  BY UsedAre
<1> DEFINE A == B \ F
<1>6. Held(G, A, S2, bl)
  BY <1>3, <1>5, HeldKept DEF HeldBy
<1>7. OneMore(B2, F2, A, p)
  BY <1>3 DEF OneMore
<1> HIDE DEF A
<1>8. Offered(G, B2, S2, F2, A, bl, i, p, n)
  BY <1>2, <1>3, <1>4, <1>6, <1>7 DEF Offered
<1>9. Owned(G, bl, i, p, n)
  BY <1>8, FillReady
<1> QED BY <1>3, <1>9

\* A block was given to i, or none; and one of zeros, or none and address 0 was written.
MallocDone(H, bl, i, n, G, p) ==
  \/ p # NULL /\ G.fault = FALSE /\ H.brk <= G.brk /\ Owned(G, bl, i, p, n)
  \/ p = NULL /\ G = H /\ Full(H, n)

\* What calloc leaves: the words are zero, or, if the heap is full, it has touched address 0.
CallocDone(H, bl, i, n, G, p) ==
  \/ /\ p # NULL /\ G.fault = FALSE /\ H.brk <= G.brk /\ Owned(G, bl, i, p, n)
     /\ \A a \in WordsOf(Payload(p, n)) : Rd(G, a) = 0
  \/ p = NULL /\ G.fault

\* A request for a new block.
LEMMA MallocReady ==
  ASSUME NEW H, NEW bl, Ready(H, bl), NEW i \in Ids, i \notin Occupied(bl), NEW n \in Nat, 0 < n,
         NEW G, NEW p, G = malloc(H, n).h, p = malloc(H, n).p
  PROVE  MallocDone(H, bl, i, n, G, p)
<1>1. PICK B, S, F : Settled(H, B, S, F) /\ HeldBy(H, B, S, F, bl)
  BY DEF Ready
<1>2. Typed(bl) /\ H.fault = FALSE /\ 16 <= H.brk
  BY DEF Ready
<1>3. PICK r \in Ranks : Shape(H, B, S, F, r)
  BY <1>1 DEF Settled
<1>4. NoTwins(S, F)
  BY <1>1 DEF Settled
<1>5. \/ p # NULL /\ IsTaken(H, B, S, F, G, p, BlockFor(n))
      \/ p = NULL /\ G = H /\ NoRoom(H, S, F, n)
  BY <1>2, <1>3, <1>4, MallocIs
<1>6. CASE p # NULL /\ IsTaken(H, B, S, F, G, p, BlockFor(n))
  <2>1. Owned(G, bl, i, p, n) /\ H.brk <= G.brk /\ G.fault = FALSE
    BY <1>1, <1>2, <1>6, TakenReady
  <2> QED BY <1>6, <2>1 DEF MallocDone
<1>7. CASE p = NULL /\ G = H /\ NoRoom(H, S, F, n)
  BY <1>3, <1>7, NoRoomFull DEF MallocDone
<1> QED BY <1>5, <1>6, <1>7

\* A request for words that are zero.
LEMMA CallocReady ==
  ASSUME NEW H, NEW bl, Ready(H, bl), NEW i \in Ids, i \notin Occupied(bl),
         NEW k \in Nat, NEW z \in Nat, NEW n \in Nat, n = k * z, 0 < n,
         NEW G, NEW p, G = calloc(H, k, z).h, p = calloc(H, k, z).p
  PROVE  CallocDone(H, bl, i, n, G, p)
<1>1. PICK B, S, F : Settled(H, B, S, F) /\ HeldBy(H, B, S, F, bl)
  BY DEF Ready
<1>2. Typed(bl) /\ H.fault = FALSE /\ 16 <= H.brk
  BY DEF Ready
<1>3. PICK r \in Ranks : Shape(H, B, S, F, r)
  BY <1>1 DEF Settled
<1>4. NoTwins(S, F)
  BY <1>1 DEF Settled
<1>5. \/ /\ IsAllocated(H, B, S, F, G, p, n)
         /\ \A a \in Word : p <= a /\ a < p + n => Rd(G, a) = 0
      \/ p = NULL /\ G.fault
  BY <1>2, <1>3, <1>4, CallocIs
<1>6. CASE /\ IsAllocated(H, B, S, F, G, p, n)
           /\ \A a \in Word : p <= a /\ a < p + n => Rd(G, a) = 0
  <2>1. p # NULL /\ IsTaken(H, B, S, F, G, p, BlockFor(n))
    BY <1>6 DEF IsAllocated
  <2>2. Owned(G, bl, i, p, n) /\ H.brk <= G.brk /\ G.fault = FALSE
    BY <1>1, <1>2, <2>1, TakenReady
  <2>3. p \in Int
    <3>1. PICK B2, S2, F2 : Taken(H, B, S, F, G, B2, S2, F2, p, BlockFor(n))
      BY <2>1 DEF IsTaken
    <3>2. Settled(G, B2, S2, F2) /\ p \in B2 \ F2
      BY <3>1 DEF Taken, Settled
    <3> QED BY <3>2, UsedAre
  <2>4. ASSUME NEW a \in WordsOf(Payload(p, n)) PROVE Rd(G, a) = 0
    <3>1. a \in Word /\ a \in p..(p + n - 1)
      BY DEF WordsOf, Payload
    <3>2. p <= a /\ a < p + n
      BY <2>3, <3>1
    <3> QED BY <1>6, <3>1, <3>2
  <2> QED BY <2>1, <2>2, <2>4 DEF CallocDone
<1> QED BY <1>5, <1>6 DEF CallocDone

\* The trace's blocks when i has given its own back.
Without(bl, i) == [bl EXCEPT ![i] = NoBlock]

\* The address of word x of one block in another.
LEMMA WordMoved ==
  ASSUME NEW p \in Eights, NEW q \in Eights, NEW a \in Word, p <= a, 0 <= q, q + (a - p) + 4 <= MaxHeap
  PROVE  q + (a - p) \in Word
<1>1. p \in Int /\ q \in Int /\ p % 8 = 0 /\ q % 8 = 0
  BY DEF Eights
<1>2. a \in Int /\ a % 4 = 0
  <2>0. MaxHeap \div 4 - 1 \in Int
    BY HeapAssumption
  <2>1. PICK k \in 0..(MaxHeap \div 4 - 1) : a = 4 * k
    BY DEF Word
  <2>2. k \in Int
    BY <2>0, <2>1
  <2> QED BY <2>1, <2>2
<1> DEFINE x == q + (a - p)
<1>3. x \in Int /\ x % 4 = 0
  BY <1>1, <1>2
<1>4. 0 <= x /\ x + 4 <= MaxHeap
  BY <1>1, <1>2
<1> HIDE DEF x
<1>5. x \in Word
  BY <1>3, <1>4, WordAt
<1> QED BY <1>5 DEF x

\* The trace gives a block back.
LEMMA FreeReady ==
  ASSUME NEW H, NEW bl, Ready(H, bl), NEW i \in Occupied(bl), NEW G, G = free(H, bl[i].lo)
  PROVE  Ready(G, Without(bl, i)) /\ H.brk <= G.brk
<1>1. PICK B, S, F : Settled(H, B, S, F) /\ HeldBy(H, B, S, F, bl)
  BY DEF Ready
<1>2. Typed(bl) /\ H.fault = FALSE /\ 16 <= H.brk
  BY DEF Ready
<1>3. PICK r \in Ranks : Shape(H, B, S, F, r)
  BY <1>1 DEF Settled
<1>4. NoTwins(S, F)
  BY <1>1 DEF Settled
<1> DEFINE q == bl[i].lo
           A == B \ F
<1>5. Held(H, A, S, bl) /\ q \in B \ F
  BY <1>1 DEF HeldBy, Held
<1>6. G = free(H, q)
  OBVIOUS
<1> HIDE DEF q
<1>7. IsReleased(H, B, S, F, G, q)
  BY <1>3, <1>4, <1>5, <1>6, FreeIs
<1>8. PICK B2, S2, F2 : Released(H, B, S, F, G, B2, S2, F2, q)
  BY <1>7 DEF IsReleased
<1>9. /\ G.fault = FALSE /\ H.brk <= G.brk /\ Steady(H, S, G, S2, A \ {q})
      /\ B2 \ F2 = A \ {q} /\ Settled(G, B2, S2, F2)
  BY <1>2, <1>8 DEF Released, Settled
<1>10. A \subseteq Int /\ \A a \in A : S[a] \in Int
  BY <1>1, UsedAre
<1>11. q = bl[i].lo
  BY DEF q
<1> HIDE DEF A
<1>12. Held(G, A \ {q}, S2, Without(bl, i)) /\ Typed(Without(bl, i))
  BY <1>2, <1>5, <1>9, <1>10, <1>11, DropHeld DEF Without
<1>13. HeldBy(G, B2, S2, F2, Without(bl, i))
  BY <1>9, <1>12 DEF HeldBy
<1>14. 16 <= G.brk
  <2>1. H.brk \in Nat /\ G.brk \in Nat
    BY <1>1, <1>9, UsedAre
  <2> QED BY <1>2, <1>9, <2>1
<1> QED BY <1>9, <1>12, <1>13, <1>14 DEF Ready

\* What the trace has after a block has moved to p.
Regiven(H, G, bl, i, p, n) ==
  /\ p # NULL /\ G.fault = FALSE /\ H.brk <= G.brk /\ Owned(G, Without(bl, i), i, p, n)
  /\ check_index(G, i, Payload(p, Smaller(n, bl[i].size)))

\* What realloc's copy brings of a block.
LEMMA MovedData ==
  ASSUME NEW H, NEW B, NEW S, NEW F, Settled(H, B, S, F), NEW bl, Typed(bl), HeldBy(H, B, S, F, bl),
         NEW i \in Occupied(bl), NEW q, q = bl[i].lo, NEW n \in Nat, 0 < n, NEW G, NEW p,
         NEW B2, NEW S2, NEW F2, Moved(H, B, S, F, G, B2, S2, F2, q, p, n)
  PROVE  check_index(G, i, Payload(p, Smaller(n, bl[i].size)))
<1> DEFINE m == bl[i].size
           k == Smaller(n, m)
<1>1. i \in Ids /\ m \in Nat
  BY DEF Typed, Occupied
<1>2. k \in Nat /\ k <= n /\ k <= m
  BY <1>1 DEF Smaller
<1>3. q \in B \ F /\ BlockFor(m) <= S[q] /\ check_index(H, i, bl[i])
  BY DEF HeldBy, Held
<1> HIDE DEF k
<1>4. q \in Int /\ q \in Eights /\ S[q] \in Int /\ 16 <= q /\ q + S[q] <= H.brk /\ H.brk \in Nat /\ H.brk <= MaxHeap
  BY <1>3, UsedAre
<1>5. m + 4 <= S[q]
  <2>1. BlockFor(m) \in Int /\ m + 4 <= BlockFor(m)
    BY <1>1, BlockForIs
  <2> QED BY <1>1, <1>3, <1>4, <2>1
<1>6. Settled(G, B2, S2, F2) /\ p \in B2 \ F2
  BY DEF Moved, Settled
<1>7. p \in Int /\ p \in Eights
  BY <1>6, UsedAre
<1>8. ASSUME NEW a \in WordsOf(Payload(p, k)) PROVE Rd(G, a) = Data(i)
  <2>1. a \in Word /\ a \in p..(p + k - 1)
    BY DEF WordsOf, Payload
  <2>2. a \in Int /\ p <= a /\ a < p + k
    BY <1>2, <1>7, <2>1
  <2>3. a < p + n /\ a - p < S[q] - 4
    BY <1>1, <1>2, <1>4, <1>5, <1>7, <2>2
  <2>4. Rd(G, a) = Rd(H, q + (a - p))
    BY <2>1, <2>2, <2>3 DEF Moved
  <2> DEFINE x == q + (a - p)
  <2>5. 0 <= q /\ x + 4 <= MaxHeap
    BY <1>4, <1>7, <2>2, <2>3, HeapAssumption
  <2>6. x \in Word
    BY <1>4, <1>7, <2>1, <2>2, <2>5, WordMoved
  <2>7. x \in q..(q + m - 1)
    BY <1>1, <1>2, <1>4, <1>7, <2>2
  <2> HIDE DEF x
  <2>8. x \in WordsOf(bl[i])
    BY <2>6, <2>7 DEF WordsOf
  <2>9. Rd(H, x) = Data(i)
    BY <1>3, <2>8 DEF check_index
  <2> QED BY <2>4, <2>9 DEF x
<1>9. check_index(G, i, Payload(p, k))
  BY <1>8 DEF check_index
<1> QED BY <1>9 DEF k

\* A block moves.
LEMMA MovedReady ==
  ASSUME NEW H, NEW B, NEW S, NEW F, Settled(H, B, S, F), H.fault = FALSE, 16 <= H.brk,
         NEW bl, Typed(bl), HeldBy(H, B, S, F, bl),
         NEW i \in Occupied(bl), NEW q, q = bl[i].lo, NEW n \in Nat, 0 < n, NEW G, NEW p,
         IsMoved(H, B, S, F, G, q, p, n)
  PROVE  Regiven(H, G, bl, i, p, n)
<1>1. PICK B2, S2, F2 : Moved(H, B, S, F, G, B2, S2, F2, q, p, n)
  BY DEF IsMoved
<1> DEFINE A == B \ F
           A2 == A \ {q}
           bl2 == Without(bl, i)
<1>2. /\ Settled(G, B2, S2, F2) /\ G.fault = FALSE /\ H.brk <= G.brk /\ Steady(H, S, G, S2, A2)
      /\ B2 \ F2 = A2 \cup {p} /\ p \notin A /\ BlockFor(n) <= S2[p]
  BY <1>1 DEF Moved, Settled
<1>3. 16 <= G.brk
  <2>1. H.brk \in Nat /\ G.brk \in Nat
    BY <1>2, UsedAre
  <2> QED BY <1>2, <2>1
<1>4. Held(H, A, S, bl)
  BY DEF HeldBy
<1>5. A \subseteq Int /\ \A a \in A : S[a] \in Int
  BY UsedAre
<1>6. OneMore(B2, F2, A2, p)
  BY <1>2 DEF OneMore
<1> HIDE DEF A
<1>7. Held(G, A2, S2, bl2) /\ Typed(bl2)
  BY <1>2, <1>4, <1>5, DropHeld DEF Without
<1>8. i \in Ids /\ i \notin Occupied(bl2)
  <2>1. i \in Ids
    BY DEF Occupied
  <2>2. bl2[i] = NoBlock
    BY <2>1 DEF Without, Typed
  <2> QED BY <2>1, <2>2 DEF Occupied, NoBlock
<1> HIDE DEF A2, bl2
<1>9. Offered(G, B2, S2, F2, A2, bl2, i, p, n)
  BY <1>2, <1>3, <1>6, <1>7, <1>8 DEF Offered
<1>10. Owned(G, bl2, i, p, n)
  BY <1>9, FillReady
<1>11. check_index(G, i, Payload(p, Smaller(n, bl[i].size)))
  BY <1>1, MovedData
<1>12. p # NULL
  BY DEF IsMoved
<1> QED BY <1>2, <1>10, <1>11, <1>12 DEF Regiven, bl2

\* A request for another size.
LEMMA ReallocReady ==
  ASSUME NEW H, NEW bl, Ready(H, bl), NEW i \in Occupied(bl), NEW n \in Nat, 0 < n,
         NEW G, NEW p, G = realloc(H, bl[i].lo, n).h, p = realloc(H, bl[i].lo, n).p
  PROVE  Regiven(H, G, bl, i, p, n) \/ (p = NULL /\ G = H /\ Full(H, n))
<1>1. PICK B, S, F : Settled(H, B, S, F) /\ HeldBy(H, B, S, F, bl)
  BY DEF Ready
<1>2. Typed(bl) /\ H.fault = FALSE /\ 16 <= H.brk
  BY DEF Ready
<1>3. PICK r \in Ranks : Shape(H, B, S, F, r)
  BY <1>1 DEF Settled
<1>4. NoTwins(S, F)
  BY <1>1 DEF Settled
<1> DEFINE q == bl[i].lo
<1>5. q \in B \ F
  BY <1>1 DEF HeldBy, Held
<1>6. G = realloc(H, q, n).h /\ p = realloc(H, q, n).p /\ q = bl[i].lo
  OBVIOUS
<1> HIDE DEF q
<1>7. \/ IsMoved(H, B, S, F, G, q, p, n)
      \/ p = NULL /\ G = H /\ NoRoom(H, S, F, n)
  BY <1>2, <1>3, <1>4, <1>5, <1>6, ReallocIs
<1>8. CASE IsMoved(H, B, S, F, G, q, p, n)
  BY <1>1, <1>2, <1>6, <1>8, MovedReady
<1>9. CASE p = NULL /\ G = H /\ NoRoom(H, S, F, n)
  BY <1>3, <1>9, NoRoomFull
<1> QED BY <1>7, <1>8, <1>9

\* Before the first request there are no blocks.
Empty == [i \in Ids |-> NoBlock]

\* The heap that an evaluation starts with.
LEMMA InitReady ==
  ASSUME NEW M \in Memories, NEW G, G = mm_init(mem_reset_brk(M)).h
  PROVE  Ready(G, Empty)
<1>1. IsHeap(mem_init) /\ mem_init.fault = FALSE
  BY DEF IsHeap, mem_init, Lists, NULL
<1>2. IsHeap(M) /\ M.fault = FALSE
  <2>1. CASE M = mem_init
    BY <1>1, <2>1
  <2>2. CASE M = Fill(mem_init, WSIZE, MaxHeap, -(NumIds + 1))
    <3>1. WSIZE \in Int /\ WSIZE # NULL /\ MaxHeap \in Int /\ -(NumIds + 1) \in Int
      BY HeapAssumption, DriverAssumption DEF WSIZE, NULL
    <3>2. Filled(mem_init, Fill(mem_init, WSIZE, MaxHeap, -(NumIds + 1)), WSIZE, MaxHeap)
      BY <1>1, <3>1, FillIs
    <3> QED BY <1>1, <2>2, <3>2 DEF Filled, SameSize
  <2> QED BY <2>1, <2>2 DEF Memories
<1>3. mem_reset_brk(M) = WithBreak(M, 0)
  BY DEF mem_reset_brk, WithBreak
<1> DEFINE H == mem_reset_brk(M)
<1>4. IsHeap(H) /\ H.brk = 0 /\ H.fault = FALSE
  <2>1. 0 \in Nat
    OBVIOUS
  <2> QED BY <1>2, <1>3, <2>1, BreakIs
<1> HIDE DEF H
<1>5. IsFresh(H, G)
  <2>1. G = mm_init(H).h
    BY DEF H
  <2> QED BY <1>4, <2>1, InitIs
<1>6. G.fault = FALSE /\ 16 <= G.brk
  BY <1>4, <1>5 DEF IsFresh
<1>7. PICK B, S, F : Settled(G, B, S, F) /\ B \ F = {}
  BY <1>5 DEF IsFresh, Settled
<1>8. Typed(Empty)
  BY DEF Typed, Empty, NoBlock, NULL
<1>9. Occupied(Empty) = {}
  BY DEF Occupied, Empty, NoBlock
<1>10. HeldBy(G, B, S, F, Empty)
  BY <1>7, <1>9 DEF HeldBy, Held
<1> QED BY <1>6, <1>7, <1>8, <1>10 DEF Ready

-----------------------------------------------------------------------------
(* What eval_mm_valid and eval_mm_util look at.                            *)

\* A payload at lo of n bytes in a heap that ends at m.
Within(lo, n, m) == lo \in Int /\ n \in Nat /\ lo % 8 = 0 /\ 16 <= lo /\ lo + n <= m

\* Two payloads have no byte in common.
Apart(lo, n, lo2, n2) == lo + n <= lo2 \/ lo2 + n2 <= lo

\* The payloads are aligned, in the heap and apart.
LEMMA PayloadsAre ==
  ASSUME NEW H, NEW bl, Ready(H, bl)
  PROVE  /\ \A i \in Occupied(bl) : Within(bl[i].lo, bl[i].size, H.brk)
         /\ \A i, j \in Occupied(bl) : i # j => Apart(bl[i].lo, bl[i].size, bl[j].lo, bl[j].size)
<1>1. PICK B, S, F : Settled(H, B, S, F) /\ HeldBy(H, B, S, F, bl)
  BY DEF Ready
<1>2. ASSUME NEW i \in Occupied(bl)
      PROVE  /\ bl[i].lo \in B \ F /\ bl[i].lo \in Int /\ bl[i].size \in Nat /\ S[bl[i].lo] \in Int
             /\ bl[i].size <= S[bl[i].lo]
  <2>1. bl[i].size \in Nat
    BY DEF Ready, Typed, Occupied
  <2>2. bl[i].lo \in B \ F /\ BlockFor(bl[i].size) <= S[bl[i].lo]
    BY <1>1 DEF HeldBy, Held
  <2>3. bl[i].lo \in Int /\ S[bl[i].lo] \in Int
    BY <1>1, <2>2, UsedAre
  <2>4. BlockFor(bl[i].size) \in Int /\ bl[i].size + 4 <= BlockFor(bl[i].size)
    BY <2>1, BlockForIs
  <2> QED BY <2>1, <2>2, <2>3, <2>4
<1>3. ASSUME NEW i \in Occupied(bl) PROVE Within(bl[i].lo, bl[i].size, H.brk)
  <2>1. /\ bl[i].lo \in B \ F /\ bl[i].lo \in Int /\ bl[i].size \in Nat /\ S[bl[i].lo] \in Int
        /\ bl[i].size <= S[bl[i].lo]
    BY <1>2
  <2>2. bl[i].lo \in Eights /\ 16 <= bl[i].lo /\ bl[i].lo + S[bl[i].lo] <= H.brk /\ H.brk \in Nat
    BY <1>1, <2>1, UsedAre
  <2>3. bl[i].lo % 8 = 0
    BY <2>2 DEF Eights
  <2>4. bl[i].lo + bl[i].size <= H.brk
    BY <2>1, <2>2
  <2> QED BY <2>1, <2>2, <2>3, <2>4 DEF Within
<1>4. ASSUME NEW i \in Occupied(bl), NEW j \in Occupied(bl), i # j
      PROVE  Apart(bl[i].lo, bl[i].size, bl[j].lo, bl[j].size)
  <2> DEFINE p == bl[i].lo
             q == bl[j].lo
             m == bl[i].size
             n == bl[j].size
  <2>1. /\ p \in B \ F /\ p \in Int /\ m \in Nat /\ S[p] \in Int /\ m <= S[p]
        /\ q \in B \ F /\ q \in Int /\ n \in Nat /\ S[q] \in Int /\ n <= S[q]
    BY <1>2
  <2>2. p # q
    BY <1>1, <1>4 DEF HeldBy, Held
  <2> HIDE DEF p, q, m, n
  <2>3. (p < q => p + S[p] <= q) /\ (q < p => q + S[q] <= p)
    BY <1>1, <2>1, UsedAre
  <2>4. Apart(p, m, q, n)
    BY <2>1, <2>2, <2>3 DEF Apart
  <2> QED BY <2>4 DEF p, q, m, n
<1> QED BY <1>3, <1>4

\* So the driver's range list takes them.
LEMMA RangeValid ==
  ASSUME NEW K, NEW bl, Ready(K, bl), NEW i \in Occupied(bl), NEW p, NEW n, bl[i] = Payload(p, n),
         NEW others, others \subseteq Occupied(bl) \ {i}, \A j \in others : blocks[j] = bl[j],
         NEW G, G.brk = K.brk
  PROVE  add_range(G, p, n, others) = "valid"
<1>1. bl[i].lo = p /\ bl[i].size = n
  BY DEF Payload
<1>2. Within(p, n, K.brk)
  BY <1>1, PayloadsAre
<1>3. K.brk \in Nat
  <2>1. PICK B, S, F : Settled(K, B, S, F)
    BY DEF Ready
  <2> QED BY <2>1, UsedAre
<1>4. n # 0
  BY <1>1 DEF Occupied
<1> DEFINE hi == p + n - 1
<1>5. p \in Int /\ n \in Nat /\ hi \in Int /\ p % 8 = 0 /\ 0 <= p /\ p <= hi /\ hi < K.brk /\ p < K.brk
  BY <1>2, <1>3, <1>4 DEF Within
<1>6. InHeap(G, p) /\ InHeap(G, hi)
  BY <1>3, <1>5 DEF InHeap
<1>7. ASSUME NEW j \in others
      PROVE  ~(\/ p \in blocks[j].lo..(blocks[j].lo + blocks[j].size - 1)
               \/ hi \in blocks[j].lo..(blocks[j].lo + blocks[j].size - 1))
  <2> DEFINE q == bl[j].lo
             m == bl[j].size
  <2>1. j \in Occupied(bl) /\ j # i /\ blocks[j].lo = q /\ blocks[j].size = m
    OBVIOUS
  <2>2. Within(q, m, K.brk) /\ Apart(q, m, p, n)
    BY <1>1, <2>1, PayloadsAre
  <2> HIDE DEF q, m
  <2>3. q \in Int /\ m \in Nat /\ (q + m <= p \/ p + n <= q)
    BY <2>2 DEF Within, Apart
  <2>4. ~(p \in q..(q + m - 1)) /\ ~(hi \in q..(q + m - 1))
    BY <1>5, <2>3
  <2> QED BY <2>1, <2>4
<1>8. ~(p % 8 # 0) /\ ~(~InHeap(G, p) \/ ~InHeap(G, hi))
  BY <1>5, <1>6
<1> HIDE DEF hi
<1>9. hi = p + n - 1
  BY DEF hi
<1> QED BY <1>7, <1>8, <1>9 DEF add_range

\* The sizes of the trace's blocks.
Size(bl) == [i \in Ids |-> bl[i].size]

\* The bytes in the trace's blocks.
Total(bl) == SumFunctionOnSet(Size(bl), Ids)

\* There are finitely many numbers.
LEMMA IdsFinite == IsFiniteSet(Ids)
<1>1. NumIds \in Nat
  BY DriverAssumption
<1> QED BY <1>1, FS_Interval DEF Ids

\* One block becomes another.
LEMMA TotalWith ==
  ASSUME NEW bl, Typed(bl), NEW bl2, Typed(bl2), NEW i \in Ids, \A j \in Ids \ {i} : bl2[j] = bl[j]
  PROVE  Total(bl) \in Nat /\ Total(bl2) \in Nat /\ Total(bl2) = Total(bl) + bl2[i].size - bl[i].size
<1> DEFINE f == Size(bl)
           g == Size(bl2)
           T == Ids \ {i}
<1>1. (\A j \in Ids : f[j] \in Nat /\ g[j] \in Nat) /\ (\A j \in T : f[j] = g[j])
  BY DEF Typed, Size
<1>2. f[i] = bl[i].size /\ g[i] = bl2[i].size /\ T \subseteq Ids
  BY DEF Size
<1>3. IsFiniteSet(Ids) /\ IsFiniteSet(T)
  BY IdsFinite, FS_Subset
<1> HIDE DEF f, g
<1>4. SumFunctionOnSet(f, Ids) = f[i] + SumFunctionOnSet(f, T)
  BY <1>1, <1>3, SumTake
<1>5. SumFunctionOnSet(g, Ids) = g[i] + SumFunctionOnSet(g, T)
  BY <1>1, <1>3, SumTake
<1> HIDE DEF T
<1>6. SumFunctionOnSet(f, T) = SumFunctionOnSet(g, T)
  BY <1>1, <1>3, SumSame
<1>7. SumFunctionOnSet(f, T) \in Nat
  <2>1. \A j \in T : f[j] \in Nat
    BY <1>1, <1>2
  <2> QED BY <1>3, <2>1, SumNat
<1>8. f[i] \in Nat /\ g[i] \in Nat
  BY <1>1
<1>9. SumFunctionOnSet(g, Ids) = SumFunctionOnSet(f, Ids) + g[i] - f[i]
      /\ SumFunctionOnSet(g, Ids) \in Nat /\ SumFunctionOnSet(f, Ids) \in Nat
  BY <1>4, <1>5, <1>6, <1>7, <1>8
<1> QED BY <1>2, <1>9 DEF Total, f, g

\* Nothing in no blocks.
LEMMA TotalZero ==
  ASSUME NEW f, NEW T, IsFiniteSet(T), \A i \in T : f[i] = 0
  PROVE  SumFunctionOnSet(f, T) = 0
<1> DEFINE D == {U \in SUBSET T : SumFunctionOnSet(f, U) = 0}
<1>1. ASSUME NEW U \in SUBSET T, \A V \in SUBSET U : V # U => V \in D PROVE U \in D
  <2>1. CASE U = {}
    BY <2>1, SumEmpty
  <2>2. CASE U # {}
    <3>1. IsFiniteSet(U)
      BY FS_Subset
    <3>2. First(U) \in U /\ SumFunctionOnSet(f, U) = f[First(U)] + SumFunctionOnSet(f, U \ {First(U)})
      BY <2>2, <3>1, SumFirst
    <3>3. U \ {First(U)} \in D
      BY <1>1, <3>2
    <3>4. f[First(U)] = 0
      BY <3>2
    <3> QED BY <3>2, <3>3, <3>4
  <2> QED BY <2>1, <2>2
<1>2. D \subseteq SUBSET T
  OBVIOUS
<1>3. T \in D
  <2> HIDE DEF D
  <2> QED BY <1>1, <1>2, SetInduction
<1> QED BY <1>3

\* Payloads apart, the blocks T of which end at x, have x bytes or fewer.
LEMMA BytesBelow ==
  ASSUME NEW H, NEW bl, Ready(H, bl)
  PROVE  \A x \in Nat : \A T \in SUBSET Ids :
           (\A i \in T \cap Occupied(bl) : bl[i].lo + bl[i].size <= x) =>
              SumFunctionOnSet(Size(bl), T) <= x
<1> DEFINE f == Size(bl)
           Low(T, x) == \A i \in T \cap Occupied(bl) : bl[i].lo + bl[i].size <= x
           Good(x) == \A T \in SUBSET Ids : Low(T, x) => SumFunctionOnSet(f, T) <= x
           Bad == {x \in Nat : ~Good(x)}
<1>0. /\ \A i \in Ids : f[i] \in Nat /\ f[i] = bl[i].size /\ (i \notin Occupied(bl) => f[i] = 0)
      /\ \A i \in Occupied(bl) : i \in Ids
  BY DEF Size, Ready, Typed, Occupied
<1> HIDE DEF f
<1>1. \A T \in SUBSET Ids : IsFiniteSet(T) /\ SumFunctionOnSet(f, T) \in Nat
  BY <1>0, IdsFinite, FS_Subset, SumNat
<1>2. ASSUME Bad # {} PROVE FALSE
  <2>1. PICK x \in Bad : \A y \in Bad : x <= y
    <3>1. Bad \subseteq Nat
      OBVIOUS
    <3> HIDE DEF Bad
    <3> QED BY <1>2, <3>1, LeastNat
  <2>2. x \in Nat /\ ~Good(x) /\ \A y \in Nat : y < x => Good(y)
    BY <2>1
  <2>3. PICK T \in SUBSET Ids : Low(T, x) /\ ~(SumFunctionOnSet(f, T) <= x)
    BY <2>2
  <2>4. CASE \E i \in T \cap Occupied(bl) : bl[i].lo + bl[i].size = x
    <3>1. PICK i \in T \cap Occupied(bl) : bl[i].lo + bl[i].size = x
      BY <2>4
    <3>2. Within(bl[i].lo, bl[i].size, H.brk)
      BY PayloadsAre
    <3>3. bl[i].lo \in Nat /\ bl[i].size \in Nat
      BY <3>2 DEF Within
    <3>4. bl[i].size > 0
      BY <3>1 DEF Occupied
    <3>5. bl[i].lo < x
      BY <3>1, <3>3, <3>4
    <3>6. Low(T \ {i}, bl[i].lo)
      <4>1. ASSUME NEW j \in (T \ {i}) \cap Occupied(bl) PROVE bl[j].lo + bl[j].size <= bl[i].lo
        <5>1. Apart(bl[i].lo, bl[i].size, bl[j].lo, bl[j].size) /\ Within(bl[j].lo, bl[j].size, H.brk)
          BY <3>1, PayloadsAre
        <5>2. bl[j].lo \in Int /\ bl[j].size \in Nat /\ bl[j].size > 0
          BY <5>1 DEF Within, Occupied
        <5>3. bl[j].lo + bl[j].size <= x
          BY <2>3
        <5> QED BY <3>1, <3>3, <5>1, <5>2, <5>3 DEF Apart
      <4> QED BY <4>1
    <3>7. T \ {i} \in SUBSET Ids /\ Good(bl[i].lo)
      BY <2>2, <3>3, <3>5
    <3>8. SumFunctionOnSet(f, T \ {i}) <= bl[i].lo
      BY <3>6, <3>7
    <3>9. SumFunctionOnSet(f, T) = f[i] + SumFunctionOnSet(f, T \ {i})
      <4>1. IsFiniteSet(T) /\ \A j \in T : f[j] \in Nat
        BY <1>0, <1>1
      <4> QED BY <3>1, <4>1, SumTake
    <3>10. f[i] = bl[i].size /\ SumFunctionOnSet(f, T \ {i}) \in Nat
      BY <1>0, <1>1, <3>1, <3>7
    <3>11. SumFunctionOnSet(f, T) <= x
      BY <3>1, <3>3, <3>8, <3>9, <3>10
    <3> QED BY <2>3, <3>11
  <2>5. CASE ~\E i \in T \cap Occupied(bl) : bl[i].lo + bl[i].size = x
    <3>1. CASE x = 0
      <4>1. ASSUME NEW i \in T PROVE f[i] = 0
        <5>1. CASE i \in Occupied(bl)
          <6>1. Within(bl[i].lo, bl[i].size, H.brk) /\ bl[i].lo + bl[i].size <= 0
            BY <2>3, <3>1, <5>1, PayloadsAre
          <6> QED BY <6>1 DEF Within
        <5> QED BY <1>0, <5>1
      <4>2. SumFunctionOnSet(f, T) = 0
        BY <1>1, <4>1, TotalZero
      <4> QED BY <2>3, <3>1, <4>2
    <3>2. CASE x # 0
      <4>1. x - 1 \in Nat /\ x - 1 < x /\ Good(x - 1)
        BY <2>2, <3>2
      <4>2. Low(T, x - 1)
        <5>1. ASSUME NEW i \in T \cap Occupied(bl) PROVE bl[i].lo + bl[i].size <= x - 1
          <6>1. Within(bl[i].lo, bl[i].size, H.brk) /\ bl[i].lo + bl[i].size <= x /\ bl[i].lo + bl[i].size # x
            BY <2>3, <2>5, PayloadsAre
          <6>2. bl[i].lo \in Int /\ bl[i].size \in Nat
            BY <6>1 DEF Within
          <6> QED BY <2>2, <6>1, <6>2
        <5> QED BY <5>1
      <4>3. SumFunctionOnSet(f, T) <= x - 1
        BY <4>1, <4>2
      <4>4. SumFunctionOnSet(f, T) \in Nat
        BY <1>1
      <4> QED BY <2>2, <2>3, <4>3, <4>4
    <3> QED BY <3>1, <3>2
  <2> QED BY <2>4, <2>5
<1>3. \A x \in Nat : Good(x)
  BY <1>2
<1> QED BY <1>3 DEF f

\* The blocks' bytes are in the heap.
LEMMA TotalFits ==
  ASSUME NEW H, NEW bl, Ready(H, bl)
  PROVE  Total(bl) <= H.brk
<1>1. H.brk \in Nat
  <2>1. PICK B, S, F : Settled(H, B, S, F)
    BY DEF Ready
  <2> QED BY <2>1, UsedAre
<1>2. \A i \in Occupied(bl) : bl[i].lo + bl[i].size <= H.brk
  BY PayloadsAre DEF Within
<1>3. Ids \in SUBSET Ids /\ \A i \in Ids \cap Occupied(bl) : bl[i].lo + bl[i].size <= H.brk
  BY <1>2
<1> QED BY <1>1, <1>3, BytesBelow DEF Total

-----------------------------------------------------------------------------
(* The requests.                                                           *)

\* The driver is linked with mm.c.
MmLinked ==
  /\ \A H : PkgInit("mm", H) = mm_init(H).h
  /\ \A H, n : PkgMalloc("mm", H, n) = malloc(H, n)
  /\ \A H, k, n : PkgCalloc("mm", H, k, n) = calloc(H, k, n)
  /\ \A H, p : PkgFree("mm", H, p) = free(H, p)
  /\ \A H, p, n : PkgRealloc("mm", H, p, n) = realloc(H, p, n)

\* What the driver may find of mm.c.
Verdicts == {"valid", "killed", "mm_malloc failed", "mm_realloc failed", "calloc failed"}

\* The heap and the trace's blocks bl, t bytes of them now and w at most so far.
InOrder(H, bl, t, w) == Ready(H, bl) /\ t = Total(bl) /\ w \in Int /\ w <= H.brk

\* The inductive invariant.
DriverInv == impl = "mm" => InOrder(heap, blocks, total, hwm) /\ status \in Verdicts

\* What a request may do to the trace's blocks.
Outcome(bl, bl2) ==
  \/ \E i \in Ids, n \in Sizes : \E p : bl2 = Given(bl, i, p, n)
  \/ \E i \in Ids : bl2 = Without(bl, i)
  \/ bl2 = bl
  \/ bl2 = Empty

\* The bytes are those of the blocks after a request too.
LEMMA AccountIs ==
  ASSUME NEW H, NEW bl, NEW t, NEW w, InOrder(H, bl, t, w),
         NEW K, NEW bl2, Ready(K, bl2), H.brk <= K.brk,
         NEW i \in Ids, \A j \in Ids \ {i} : bl2[j] = bl[j],
         NEW t2, t2 = t + bl2[i].size - bl[i].size, NEW w2, w2 = Larger(w, t2)
  PROVE  InOrder(K, bl2, t2, w2)
<1>1. Ready(H, bl) /\ t = Total(bl) /\ w \in Int /\ w <= H.brk
  BY DEF InOrder
<1>2. Typed(bl) /\ Typed(bl2)
  BY <1>1 DEF Ready
<1>3. Total(bl2) \in Nat /\ Total(bl2) = Total(bl) + bl2[i].size - bl[i].size
  BY <1>2, TotalWith
<1>4. Total(bl2) <= K.brk
  BY TotalFits
<1>5. t2 = Total(bl2)
  BY <1>1, <1>3
<1>6. H.brk \in Nat /\ K.brk \in Nat
  <2>1. PICK B, S, F : Settled(H, B, S, F)
    BY <1>1 DEF Ready
  <2>2. PICK B2, S2, F2 : Settled(K, B2, S2, F2)
    BY DEF Ready
  <2> QED BY <2>1, <2>2, UsedAre
<1>7. w2 \in Int /\ w2 <= K.brk
  BY <1>1, <1>3, <1>4, <1>5, <1>6 DEF Larger
<1> QED BY <1>5, <1>7 DEF InOrder

\* The heap and the blocks, when the driver has filled what i was given.
LEMMA OwnedIs ==
  ASSUME NEW G, NEW bl, Typed(bl), NEW i \in Ids, NEW p, NEW n \in Nat, 0 < n, Owned(G, bl, i, p, n),
         NEW K, K = Fill(G, p, n, Data(i)), NEW bl2, bl2 = Given(bl, i, p, n)
  PROVE  /\ Ready(K, bl2) /\ K.brk = G.brk /\ bl2[i] = Payload(p, n) /\ bl2[i].size = n
         /\ i \in Occupied(bl2)
         /\ \A j \in Ids \ {i} : bl2[j] = bl[j] /\ (j \in Occupied(bl2) <=> j \in Occupied(bl))
<1>1. Ready(K, bl2) /\ K.brk = G.brk
  BY DEF Owned
<1>2. bl2[i] = Payload(p, n) /\ \A j \in Ids \ {i} : bl2[j] = bl[j]
  BY DEF Given, Typed
<1>3. bl2[i].size = n
  BY <1>2 DEF Payload
<1> QED BY <1>1, <1>2, <1>3 DEF Occupied

\* What is found in the trace's blocks is Mdriver's Live.
LEMMA LiveIs == Live = Occupied(blocks)
BY DEF Live, Occupied

\* A block is given, whichever the request: what eval_mm_valid does next.
LEMMA GivenStep ==
  ASSUME InOrder(heap, blocks, total, hwm), NEW i \in Ids, NEW p, NEW n \in Nat, 0 < n,
         NEW G, heap.brk <= G.brk, Owned(G, Without(blocks, i), i, p, n),
         heap' = Fill(G, p, n, Data(i)), blocks' = Given(blocks, i, p, n),
         Account(n, blocks[i].size), NEW others, others \subseteq Live \ {i}
  PROVE  /\ InOrder(heap', blocks', total', hwm')
         /\ add_range(G, p, n, others) = "valid"
<1>1. Ready(heap, blocks)
  BY DEF InOrder
<1>2. Typed(blocks)
  BY <1>1 DEF Ready
<1> DEFINE bl2 == Without(blocks, i)
           bl3 == Given(blocks, i, p, n)
           K == Fill(G, p, n, Data(i))
<1>3. Given(bl2, i, p, n) = bl3
  BY <1>2 DEF Without, Given, Typed
<1>4. Typed(bl2) /\ \A j \in Ids \ {i} : bl2[j] = blocks[j]
  <2>1. NoBlock \in [lo : Int, size : Nat]
    BY DEF NoBlock, NULL
  <2>2. bl2 \in [Ids -> [lo : Int, size : Nat]]
    BY <1>2, <2>1 DEF Without, Typed
  <2>3. bl2[i] = NoBlock /\ \A j \in Ids \ {i} : bl2[j] = blocks[j]
    BY <1>2 DEF Without, Typed
  <2> HIDE DEF bl2
  <2>4. ASSUME NEW j \in Ids, bl2[j].size = 0 PROVE bl2[j] = NoBlock
    BY <1>2, <2>3, <2>4 DEF Typed
  <2> QED BY <2>2, <2>3, <2>4 DEF Typed
<1> HIDE DEF bl2, bl3, K
<1>5. /\ Ready(K, bl3) /\ K.brk = G.brk /\ bl3[i] = Payload(p, n) /\ bl3[i].size = n
      /\ i \in Occupied(bl3)
      /\ \A j \in Ids \ {i} : bl3[j] = bl2[j] /\ (j \in Occupied(bl3) <=> j \in Occupied(bl2))
  <2>1. Owned(G, bl2, i, p, n)
    BY DEF bl2
  <2>2. K = Fill(G, p, n, Data(i)) /\ bl3 = Given(bl2, i, p, n)
    BY <1>3 DEF K
  <2> QED BY <1>4, <2>1, <2>2, OwnedIs
<1>6. \A j \in Ids \ {i} : bl3[j] = blocks[j] /\ (j \in Occupied(bl3) <=> j \in Occupied(blocks))
  BY <1>4, <1>5 DEF Occupied
<1>7. InOrder(K, bl3, total', hwm')
  <2>1. total' = total + bl3[i].size - blocks[i].size /\ hwm' = Larger(hwm, total')
    BY <1>5 DEF Account
  <2>2. heap.brk <= K.brk
    BY <1>5
  <2> QED BY <1>5, <1>6, <2>1, <2>2, AccountIs
<1>8. add_range(G, p, n, others) = "valid"
  <2>1. others \subseteq Occupied(bl3) \ {i} /\ \A j \in others : blocks[j] = bl3[j]
    <3>1. others \subseteq Ids \ {i} /\ others \subseteq Occupied(blocks)
      BY LiveIs DEF Occupied
    <3> QED BY <1>6, <3>1
  <2>2. G.brk = K.brk
    BY <1>5
  <2> QED BY <1>5, <2>1, <2>2, RangeValid
<1> QED BY <1>7, <1>8 DEF K, bl3

\* A number that is not in use has no block.
LEMMA UnusedIs ==
  ASSUME NEW bl, Typed(bl), NEW i \in Ids, i \notin Occupied(bl)
  PROVE  bl[i] = NoBlock /\ bl[i].size = 0 /\ bl[i].lo = NULL /\ Without(bl, i) = bl
<1>1. bl[i].size \in Nat /\ ~(bl[i].size > 0)
  BY DEF Typed, Occupied
<1>2. bl[i].size = 0
  BY <1>1
<1>3. bl[i] = NoBlock
  BY <1>2 DEF Typed
<1>4. Without(bl, i) = bl
  BY <1>3 DEF Without, Typed
<1> QED BY <1>2, <1>3, <1>4 DEF NoBlock

\* The requests that the driver makes are for some bytes.
LEMMA SizeIs == ASSUME NEW n \in Sizes PROVE n \in Nat /\ 0 < n /\ n % 4 = 0
BY DriverAssumption DEF WSIZE

\* A request that changes nothing but what the driver knows.
LEMMA RefusedStep ==
  ASSUME InOrder(heap, blocks, total, hwm), heap' = heap, UNCHANGED <<blocks, total, hwm>>
  PROVE  InOrder(heap', blocks', total', hwm')
OBVIOUS

\* What a request to malloc does.
LEMMA AllocStep ==
  ASSUME MmLinked, impl = "mm", InOrder(heap, blocks, total, hwm), NEW i \in Ids, NEW n \in Sizes, Alloc(i, n)
  PROVE  /\ InOrder(heap', blocks', total', hwm') /\ Outcome(blocks, blocks')
         /\ \/ status' = "valid"
            \/ status' = "mm_malloc failed" /\ Full(heap, n)
<1> DEFINE G == malloc(heap, n).h
           p == malloc(heap, n).p
<1>1. PkgMalloc(impl, heap, n) = malloc(heap, n)
  BY DEF MmLinked
<1>2. /\ Unused(i)
      /\ \/ G.fault /\ Killed
         \/ ~G.fault /\ p = NULL /\ Failed(G, "mm_malloc failed")
         \/ /\ ~G.fault /\ p # NULL
            /\ status' = add_range(G, p, n, Live)
            /\ heap' = randomize_block(G, i, [lo |-> p, size |-> n])
            /\ blocks' = [blocks EXCEPT ![i] = [lo |-> p, size |-> n]]
            /\ Account(n, 0)
  BY <1>1 DEF Alloc
<1>3. n \in Nat /\ 0 < n
  BY SizeIs
<1>4. Ready(heap, blocks) /\ Typed(blocks) /\ heap.fault = FALSE
  BY DEF InOrder, Ready
<1>5. i \notin Occupied(blocks) /\ i \notin Live
  BY <1>2, LiveIs DEF Unused
<1>a. G = malloc(heap, n).h /\ p = malloc(heap, n).p
  OBVIOUS
<1> HIDE DEF G, p
<1>x. MallocDone(heap, blocks, i, n, G, p)
  BY <1>a, <1>3, <1>4, <1>5, MallocReady
<1>6. \/ p # NULL /\ G.fault = FALSE /\ heap.brk <= G.brk /\ Owned(G, blocks, i, p, n)
      \/ p = NULL /\ G = heap /\ Full(heap, n)
  BY <1>x DEF MallocDone
<1>7. blocks[i].size = 0 /\ Without(blocks, i) = blocks
  BY <1>4, <1>5, UnusedIs
<1>8. CASE p # NULL /\ G.fault = FALSE /\ heap.brk <= G.brk /\ Owned(G, blocks, i, p, n)
  <2>1. /\ status' = add_range(G, p, n, Live)
        /\ heap' = Fill(G, p, n, Data(i))
        /\ blocks' = Given(blocks, i, p, n)
        /\ Account(n, blocks[i].size)
    BY <1>2, <1>7, <1>8 DEF randomize_block, Given, Payload
  <2>2. Live \subseteq Live \ {i}
    BY <1>5
  <2>3. Owned(G, Without(blocks, i), i, p, n)
    BY <1>7, <1>8
  <2>4. InOrder(heap', blocks', total', hwm') /\ add_range(G, p, n, Live) = "valid"
    BY <1>3, <1>8, <2>1, <2>2, <2>3, GivenStep
  <2>5. Outcome(blocks, blocks')
    BY <2>1 DEF Outcome
  <2> QED BY <2>1, <2>4, <2>5
<1>9. CASE p = NULL /\ G = heap /\ Full(heap, n)
  <2>1. heap' = heap /\ UNCHANGED <<blocks, total, hwm>> /\ status' = "mm_malloc failed"
    BY <1>2, <1>4, <1>9 DEF Failed
  <2>2. InOrder(heap', blocks', total', hwm')
    BY <2>1, RefusedStep
  <2> QED BY <1>9, <2>1, <2>2 DEF Outcome
<1> QED BY <1>6, <1>8, <1>9

\* What a request to calloc does.
LEMMA CallocStep ==
  ASSUME MmLinked, impl = "mm", InOrder(heap, blocks, total, hwm), NEW i \in Ids, NEW n \in Sizes,
         Calloc(i, n \div WSIZE)
  PROVE  /\ InOrder(heap', blocks', total', hwm') /\ Outcome(blocks, blocks')
         /\ status' = "valid" \/ status' = "killed"
<1> DEFINE k == n \div WSIZE
           G == calloc(heap, k, WSIZE).h
           p == calloc(heap, k, WSIZE).p
<1>1. PkgCalloc(impl, heap, k, WSIZE) = calloc(heap, k, WSIZE)
  BY DEF MmLinked
<1>2. n \in Nat /\ 0 < n /\ k \in Nat /\ n = k * WSIZE /\ WSIZE \in Nat
  BY SizeIs DEF WSIZE
<1>3. Calloc(i, k)
  OBVIOUS
<1> HIDE DEF k
<1>4. /\ Unused(i)
      /\ \/ G.fault /\ Killed
         \/ ~G.fault /\ p = NULL /\ Failed(G, "calloc failed")
         \/ /\ ~G.fault /\ p # NULL
            /\ status' = IF \E a \in WordsOf([lo |-> p, size |-> n]) : Rd(G, a) # 0 THEN "not zeroed"
                         ELSE add_range(G, p, n, Live)
            /\ heap' = randomize_block(G, i, [lo |-> p, size |-> n])
            /\ blocks' = [blocks EXCEPT ![i] = [lo |-> p, size |-> n]]
            /\ Account(n, 0)
  BY <1>1, <1>2, <1>3 DEF Calloc
<1>5. Ready(heap, blocks) /\ Typed(blocks) /\ heap.fault = FALSE
  BY DEF InOrder, Ready
<1>6. i \notin Occupied(blocks) /\ i \notin Live
  BY <1>4, LiveIs DEF Unused
<1>a. G = calloc(heap, k, WSIZE).h /\ p = calloc(heap, k, WSIZE).p
  OBVIOUS
<1> HIDE DEF G, p
<1>x. CallocDone(heap, blocks, i, n, G, p)
  BY <1>a, <1>2, <1>5, <1>6, CallocReady
<1>7. \/ /\ p # NULL /\ G.fault = FALSE /\ heap.brk <= G.brk /\ Owned(G, blocks, i, p, n)
         /\ \A a \in WordsOf(Payload(p, n)) : Rd(G, a) = 0
      \/ p = NULL /\ G.fault
  BY <1>x DEF CallocDone
<1>8. blocks[i].size = 0 /\ Without(blocks, i) = blocks
  BY <1>5, <1>6, UnusedIs
<1>9. CASE /\ p # NULL /\ G.fault = FALSE /\ heap.brk <= G.brk /\ Owned(G, blocks, i, p, n)
           /\ \A a \in WordsOf(Payload(p, n)) : Rd(G, a) = 0
  <2>1. /\ status' = add_range(G, p, n, Live)
        /\ heap' = Fill(G, p, n, Data(i))
        /\ blocks' = Given(blocks, i, p, n)
        /\ Account(n, blocks[i].size)
    BY <1>4, <1>8, <1>9 DEF randomize_block, Given, Payload
  <2>2. Live \subseteq Live \ {i}
    BY <1>6
  <2>3. Owned(G, Without(blocks, i), i, p, n)
    BY <1>8, <1>9
  <2>4. InOrder(heap', blocks', total', hwm') /\ add_range(G, p, n, Live) = "valid"
    BY <1>2, <1>9, <2>1, <2>2, <2>3, GivenStep
  <2>5. Outcome(blocks, blocks')
    BY <2>1 DEF Outcome
  <2> QED BY <2>1, <2>4, <2>5
<1>10. CASE p = NULL /\ G.fault
  <2>1. heap' = heap /\ UNCHANGED <<blocks, total, hwm>> /\ status' = "killed"
    BY <1>4, <1>10 DEF Killed
  <2>2. InOrder(heap', blocks', total', hwm')
    BY <2>1, RefusedStep
  <2> QED BY <2>1, <2>2 DEF Outcome
<1> QED BY <1>7, <1>9, <1>10

\* The driver's data are where it left them.
LEMMA IndexHeld ==
  ASSUME NEW H, NEW bl, Ready(H, bl), NEW i \in Ids
  PROVE  check_index(H, i, bl[i])
<1>1. PICK B, S, F : Settled(H, B, S, F) /\ HeldBy(H, B, S, F, bl)
  BY DEF Ready
<1>2. CASE i \in Occupied(bl)
  BY <1>1, <1>2 DEF HeldBy, Held
<1>3. CASE i \notin Occupied(bl)
  <2>1. bl[i] = NoBlock
    BY <1>3, UnusedIs DEF Ready
  <2>2. WordsOf(NoBlock) = {}
    BY DEF WordsOf, NoBlock, NULL
  <2> QED BY <2>1, <2>2 DEF check_index
<1> QED BY <1>2, <1>3

\* No bytes of a block are anything.
LEMMA IndexEmpty == ASSUME NEW H, NEW i, NEW p \in Int PROVE check_index(H, i, Payload(p, 0))
<1>1. WordsOf(Payload(p, 0)) = {}
  BY DEF WordsOf, Payload
<1> QED BY <1>1 DEF check_index

\* A block that the driver fills has an address.
LEMMA OwnedAt ==
  ASSUME NEW G, NEW bl, Typed(bl), NEW i \in Ids, NEW p, NEW n, Owned(G, bl, i, p, n)
  PROVE  p \in Int
<1>1. Typed(Given(bl, i, p, n))
  BY DEF Owned, Ready
<1>2. Given(bl, i, p, n)[i] = Payload(p, n)
  BY DEF Given, Typed
<1>3. Payload(p, n).lo \in Int
  BY <1>1, <1>2 DEF Typed
<1> QED BY <1>3 DEF Payload

\* The ways a request to realloc goes, when the call leaves G and returns p.
ReallocWays(i, n, G, p) ==
  \/ G.fault /\ Killed
  \/ ~G.fault /\ p = NULL /\ n # 0 /\ Failed(G, "mm_realloc failed")
  \/ ~G.fault /\ p # NULL /\ n = 0
  \/ /\ ~G.fault /\ (p = NULL <=> n = 0)
     /\ status' = IF ~check_index(heap, i, blocks[i])
                        \/ ~check_index(G, i, Payload(p, Smaller(n, blocks[i].size)))
                  THEN "garbled"
                  ELSE IF n = 0 THEN "valid"
                  ELSE add_range(G, p, n, Live \ {i})
     /\ heap' = IF n = 0 THEN G ELSE Fill(G, p, n, Data(i))
     /\ blocks' = IF n = 0 THEN Without(blocks, i) ELSE Given(blocks, i, p, n)
     /\ Account(n, blocks[i].size)

\* They are what the driver says.
LEMMA ReallocParts ==
  ASSUME MmLinked, impl = "mm", NEW i, NEW n, Realloc(i, n), NEW G, NEW p,
         G = realloc(heap, blocks[i].lo, n).h, p = realloc(heap, blocks[i].lo, n).p
  PROVE  ReallocWays(i, n, G, p)
<1>1. PkgRealloc(impl, heap, blocks[i].lo, n) = realloc(heap, blocks[i].lo, n)
  BY DEF MmLinked
<1> DEFINE r == realloc(heap, blocks[i].lo, n)
<1>2. PkgRealloc(impl, heap, blocks[i].lo, n) = r /\ r.h = G /\ r.p = p
  BY <1>1
<1> HIDE DEF r
<1> QED BY <1>2 DEF ReallocWays, Realloc, randomize_block, Given, Without, Payload

\* The block moves, or a number that is not in use is given one.
LEMMA ResizedStep ==
  ASSUME MmLinked, impl = "mm", InOrder(heap, blocks, total, hwm), NEW i \in Ids, NEW n \in Sizes,
         Realloc(i, n), NEW G, NEW p,
         G = realloc(heap, blocks[i].lo, n).h, p = realloc(heap, blocks[i].lo, n).p,
         p # NULL, G.fault = FALSE, heap.brk <= G.brk, Owned(G, Without(blocks, i), i, p, n),
         check_index(G, i, Payload(p, Smaller(n, blocks[i].size)))
  PROVE  InOrder(heap', blocks', total', hwm') /\ Outcome(blocks, blocks') /\ status' = "valid"
<1>1. n \in Nat /\ 0 < n /\ n # 0
  BY SizeIs
<1>2. check_index(heap, i, blocks[i])
  BY IndexHeld DEF InOrder
<1>w. ReallocWays(i, n, G, p)
  BY ReallocParts
<1>3. /\ status' = add_range(G, p, n, Live \ {i})
      /\ heap' = Fill(G, p, n, Data(i))
      /\ blocks' = Given(blocks, i, p, n)
      /\ Account(n, blocks[i].size)
  BY <1>1, <1>2, <1>w DEF ReallocWays
<1> DEFINE others == Live \ {i}
<1>4. others \subseteq Live \ {i}
  OBVIOUS
<1>5. status' = add_range(G, p, n, others)
  BY <1>3
<1> HIDE DEF others
<1>6. InOrder(heap', blocks', total', hwm') /\ add_range(G, p, n, others) = "valid"
  BY <1>1, <1>3, <1>4, GivenStep
<1>7. Outcome(blocks, blocks')
  BY <1>3 DEF Outcome
<1> QED BY <1>5, <1>6, <1>7

\* The request is refused.
LEMMA RefusedSize ==
  ASSUME MmLinked, impl = "mm", InOrder(heap, blocks, total, hwm), NEW i \in Ids, NEW n \in Sizes,
         Realloc(i, n), NEW G, NEW p,
         G = realloc(heap, blocks[i].lo, n).h, p = realloc(heap, blocks[i].lo, n).p,
         p = NULL, G = heap
  PROVE  InOrder(heap', blocks', total', hwm') /\ Outcome(blocks, blocks') /\ status' = "mm_realloc failed"
<1>1. n # 0
  BY SizeIs
<1>2. heap.fault = FALSE
  BY DEF InOrder, Ready
<1>w. ReallocWays(i, n, G, p)
  BY ReallocParts
<1>3. Failed(G, "mm_realloc failed")
  BY <1>1, <1>2, <1>w DEF ReallocWays
<1>4. heap' = heap /\ UNCHANGED <<blocks, total, hwm>> /\ status' = "mm_realloc failed"
  BY <1>3 DEF Failed
<1>5. InOrder(heap', blocks', total', hwm')
  BY <1>4, RefusedStep
<1> QED BY <1>4, <1>5 DEF Outcome

\* What a request to realloc for some bytes does.
LEMMA ReallocStep ==
  ASSUME MmLinked, impl = "mm", InOrder(heap, blocks, total, hwm), NEW i \in Ids, NEW n \in Sizes,
         Realloc(i, n)
  PROVE  /\ InOrder(heap', blocks', total', hwm') /\ Outcome(blocks, blocks')
         /\ \/ status' = "valid"
            \/ status' = "mm_realloc failed" /\ Full(heap, n)
<1> DEFINE G == realloc(heap, blocks[i].lo, n).h
           p == realloc(heap, blocks[i].lo, n).p
<1>1. G = realloc(heap, blocks[i].lo, n).h /\ p = realloc(heap, blocks[i].lo, n).p
  OBVIOUS
<1> HIDE DEF G, p
<1>2. n \in Nat /\ 0 < n /\ n # 0
  BY SizeIs
<1>3. Ready(heap, blocks) /\ Typed(blocks) /\ heap.fault = FALSE
  BY DEF InOrder, Ready
<1>4. Regiven(heap, G, blocks, i, p, n) \/ (p = NULL /\ G = heap /\ Full(heap, n))
  <2>1. CASE i \in Occupied(blocks)
    BY <1>1, <1>2, <1>3, <2>1, ReallocReady
  <2>2. CASE i \notin Occupied(blocks)
    <3>1. blocks[i].lo = NULL /\ blocks[i].size = 0 /\ Without(blocks, i) = blocks
      BY <1>3, <2>2, UnusedIs
    <3>2. realloc(heap, blocks[i].lo, n) = malloc(heap, n)
      BY <1>2, <3>1 DEF realloc
    <3>3. G = malloc(heap, n).h /\ p = malloc(heap, n).p
      BY <1>1, <3>2
    <3>4. MallocDone(heap, blocks, i, n, G, p)
      BY <1>2, <1>3, <2>2, <3>3, MallocReady
    <3>5. CASE p # NULL /\ G.fault = FALSE /\ heap.brk <= G.brk /\ Owned(G, blocks, i, p, n)
      <4>1. p \in Int
        BY <1>3, <3>5, OwnedAt
      <4>2. Smaller(n, blocks[i].size) = 0
        BY <1>2, <3>1 DEF Smaller
      <4>3. check_index(G, i, Payload(p, Smaller(n, blocks[i].size)))
        BY <4>1, <4>2, IndexEmpty
      <4> QED BY <3>1, <3>5, <4>3 DEF Regiven
    <3>6. CASE p = NULL /\ G = heap /\ Full(heap, n)
      BY <3>6
    <3> QED BY <3>4, <3>5, <3>6 DEF MallocDone
  <2> QED BY <2>1, <2>2
<1>5. CASE Regiven(heap, G, blocks, i, p, n)
  <2>1. /\ p # NULL /\ G.fault = FALSE /\ heap.brk <= G.brk /\ Owned(G, Without(blocks, i), i, p, n)
        /\ check_index(G, i, Payload(p, Smaller(n, blocks[i].size)))
    BY <1>5 DEF Regiven
  <2> QED BY <1>1, <2>1, ResizedStep
<1>6. CASE p = NULL /\ G = heap /\ Full(heap, n)
  BY <1>1, <1>6, RefusedSize
<1> QED BY <1>4, <1>5, <1>6

\* A number's block is given back: what the driver then has.
LEMMA ReturnedStep ==
  ASSUME InOrder(heap, blocks, total, hwm), NEW i \in Ids,
         NEW G, i \in Occupied(blocks) => G = free(heap, blocks[i].lo),
         i \notin Occupied(blocks) => G = heap
  PROVE  /\ Ready(G, Without(blocks, i))
         /\ heap' = G /\ blocks' = Without(blocks, i) /\ Account(0, blocks[i].size)
              => InOrder(heap', blocks', total', hwm') /\ Outcome(blocks, blocks')
<1>1. Ready(heap, blocks) /\ Typed(blocks)
  BY DEF InOrder, Ready
<1> DEFINE bl2 == Without(blocks, i)
<1>2. Ready(G, bl2) /\ heap.brk <= G.brk
  <2>1. CASE i \in Occupied(blocks)
    BY <1>1, <2>1, FreeReady
  <2>2. CASE i \notin Occupied(blocks)
    <3>1. bl2 = blocks
      BY <1>1, <2>2, UnusedIs
    <3>2. heap.brk \in Nat
      <4>1. PICK B, S, F : Settled(heap, B, S, F)
        BY <1>1 DEF Ready
      <4> QED BY <4>1, UsedAre
    <3> QED BY <1>1, <2>2, <3>1, <3>2
  <2> QED BY <2>1, <2>2
<1>3. bl2[i] = NoBlock /\ \A j \in Ids \ {i} : bl2[j] = blocks[j]
  BY <1>1 DEF Without, Typed
<1>4. bl2[i].size = 0
  BY <1>3 DEF NoBlock
<1> HIDE DEF bl2
<1>5. ASSUME heap' = G, blocks' = bl2, Account(0, blocks[i].size)
      PROVE  InOrder(heap', blocks', total', hwm')
  <2>1. total' = total + bl2[i].size - blocks[i].size /\ hwm' = Larger(hwm, total')
    BY <1>4, <1>5 DEF Account
  <2>2. InOrder(G, bl2, total', hwm')
    BY <1>2, <1>3, <2>1, AccountIs
  <2> QED BY <1>5, <2>2
<1> QED BY <1>2, <1>5 DEF bl2, Outcome

\* What a request to realloc for nothing does.
LEMMA ReallocZeroStep ==
  ASSUME MmLinked, impl = "mm", InOrder(heap, blocks, total, hwm), NEW i \in Ids, Realloc(i, 0)
  PROVE  InOrder(heap', blocks', total', hwm') /\ Outcome(blocks, blocks') /\ status' = "valid"
<1> DEFINE G == realloc(heap, blocks[i].lo, 0).h
           p == realloc(heap, blocks[i].lo, 0).p
<1>1. G = realloc(heap, blocks[i].lo, 0).h /\ p = realloc(heap, blocks[i].lo, 0).p
  OBVIOUS
<1> HIDE DEF G, p
<1>2. G = free(heap, blocks[i].lo) /\ p = NULL
  BY <1>1 DEF realloc, Result
<1>3. Ready(heap, blocks) /\ Typed(blocks)
  BY DEF InOrder, Ready
<1>4. i \notin Occupied(blocks) => G = heap
  <2>1. ASSUME i \notin Occupied(blocks) PROVE G = heap
    <3>1. blocks[i].lo = NULL
      BY <1>3, <2>1, UnusedIs
    <3> QED BY <1>2, <3>1 DEF free
  <2> QED BY <2>1
<1>5. Ready(G, Without(blocks, i))
  BY <1>2, <1>4, ReturnedStep
<1>6. G.fault = FALSE
  BY <1>5 DEF Ready
<1>7. check_index(heap, i, blocks[i])
  BY <1>3, IndexHeld
<1>8. check_index(G, i, Payload(p, Smaller(0, blocks[i].size)))
  <2>1. blocks[i].size \in Nat
    BY <1>3 DEF Typed
  <2>2. Smaller(0, blocks[i].size) = 0
    BY <2>1 DEF Smaller
  <2>3. p \in Int
    BY <1>2 DEF NULL
  <2> QED BY <2>2, <2>3, IndexEmpty
<1>9. status' = "valid" /\ heap' = G /\ blocks' = Without(blocks, i) /\ Account(0, blocks[i].size)
  <2>1. ReallocWays(i, 0, G, p)
    BY <1>1, ReallocParts
  <2> QED BY <1>2, <1>6, <1>7, <1>8, <2>1 DEF ReallocWays
<1> QED BY <1>2, <1>4, <1>9, ReturnedStep

\* What a request to free does.
LEMMA FreeStep ==
  ASSUME MmLinked, impl = "mm", InOrder(heap, blocks, total, hwm), NEW i \in Ids, Free(i)
  PROVE  InOrder(heap', blocks', total', hwm') /\ Outcome(blocks, blocks') /\ status' = "valid"
<1>1. i \in Occupied(blocks)
  BY LiveIs DEF Free
<1>2. check_index(heap, i, blocks[i])
  BY IndexHeld DEF InOrder
<1>3. PkgFree(impl, heap, blocks[i].lo) = free(heap, blocks[i].lo)
  BY DEF MmLinked
<1>4. /\ status' = "valid" /\ heap' = free(heap, blocks[i].lo)
      /\ blocks' = Without(blocks, i) /\ Account(0, blocks[i].size)
  BY <1>2, <1>3 DEF Free, Without
<1> QED BY <1>1, <1>4, ReturnedStep

\* What a request to free nothing does.
LEMMA FreeNullStep ==
  ASSUME MmLinked, impl = "mm", InOrder(heap, blocks, total, hwm), FreeNull
  PROVE  InOrder(heap', blocks', total', hwm') /\ Outcome(blocks, blocks') /\ status' = "valid"
<1>1. PkgFree(impl, heap, NULL) = heap
  BY DEF MmLinked, free
<1>2. heap.fault = FALSE
  BY DEF InOrder, Ready
<1>3. heap' = heap /\ UNCHANGED <<blocks, total, hwm, status>> /\ status = "valid"
  BY <1>1, <1>2 DEF FreeNull, Request
<1>4. InOrder(heap', blocks', total', hwm')
  BY <1>3, RefusedStep
<1> QED BY <1>3, <1>4 DEF Outcome

\* What an evaluation starts with.
LEMMA FreshOrder ==
  ASSUME MmLinked, "mm" \in Packages, NEW G \in FreshHeaps["mm"]
  PROVE  InOrder(G, Empty, 0, 0)
<1>1. PICK M \in Memories : G = PkgInit("mm", mem_reset_brk(M))
  BY DEF FreshHeaps
<1>2. G = mm_init(mem_reset_brk(M)).h
  BY <1>1 DEF MmLinked
<1>3. Ready(G, Empty)
  BY <1>2, InitReady
<1>4. Total(Empty) = 0
  <2>1. \A i \in Ids : Size(Empty)[i] = 0
    BY DEF Size, Empty, NoBlock
  <2> QED BY <2>1, IdsFinite, TotalZero DEF Total
<1>5. 0 <= G.brk
  BY <1>3, <1>4, TotalFits
<1> QED BY <1>3, <1>4, <1>5 DEF InOrder

-----------------------------------------------------------------------------
(* The theorems.                                                           *)

\* The inductive invariant of the driver, with whatever package.
IInv == impl \in Packages /\ DriverInv

\* Before the first request.
LEMMA InitInv == ASSUME MmLinked PROVE Init => IInv
<1> SUFFICES ASSUME Init, impl = "mm" PROVE IInv
  BY DEF Init, IInv, DriverInv
<1>1. impl \in Packages /\ heap \in FreshHeaps["mm"] /\ blocks = Empty /\ total = 0 /\ hwm = 0 /\ status = "valid"
  BY DEF Init, Empty
<1>2. InOrder(heap, Empty, 0, 0)
  BY <1>1, FreshOrder
<1> QED BY <1>1, <1>2 DEF IInv, DriverInv, Verdicts

\* A request is answered; a refusal and a crash are what they may be.
LEMMA StepIs ==
  ASSUME MmLinked, impl = "mm", IInv, Next
  PROVE  /\ impl' = impl /\ InOrder(heap', blocks', total', hwm') /\ Outcome(blocks, blocks')
         /\ status' \in Verdicts
<1>1. impl \in Packages /\ InOrder(heap, blocks, total, hwm) /\ status \in Verdicts
  BY DEF IInv, DriverInv
<1>2. CASE \E i \in Ids, n \in Sizes : Alloc(i, n)
  <2>1. PICK i \in Ids, n \in Sizes : Alloc(i, n)
    BY <1>2
  <2>2. impl' = impl
    BY <2>1 DEF Alloc, Request
  <2>3. /\ InOrder(heap', blocks', total', hwm') /\ Outcome(blocks, blocks')
        /\ (status' = "valid" \/ (status' = "mm_malloc failed" /\ Full(heap, n)))
    BY <1>1, <2>1, AllocStep
  <2> QED BY <2>2, <2>3 DEF Verdicts
<1>3. CASE \E i \in Ids, n \in Sizes : Calloc(i, n \div WSIZE)
  <2>1. PICK i \in Ids, n \in Sizes : Calloc(i, n \div WSIZE)
    BY <1>3
  <2>2. impl' = impl
    BY <2>1 DEF Calloc, Request
  <2>3. /\ InOrder(heap', blocks', total', hwm') /\ Outcome(blocks, blocks')
        /\ (status' = "valid" \/ status' = "killed")
    BY <1>1, <2>1, CallocStep
  <2> QED BY <2>2, <2>3 DEF Verdicts
<1>4. CASE \E i \in Ids, n \in Sizes \cup {0} : Realloc(i, n)
  <2>1. PICK i \in Ids, n \in Sizes \cup {0} : Realloc(i, n)
    BY <1>4
  <2>2. impl' = impl
    BY <2>1 DEF Realloc, Request
  <2>3. CASE n \in Sizes
    <3>1. /\ InOrder(heap', blocks', total', hwm') /\ Outcome(blocks, blocks')
          /\ (status' = "valid" \/ (status' = "mm_realloc failed" /\ Full(heap, n)))
      BY <1>1, <2>1, <2>3, ReallocStep
    <3> QED BY <2>2, <3>1 DEF Verdicts
  <2>4. CASE n \notin Sizes
    <3>1. Realloc(i, 0)
      BY <2>1, <2>4
    <3>2. InOrder(heap', blocks', total', hwm') /\ Outcome(blocks, blocks') /\ status' = "valid"
      BY <1>1, <3>1, ReallocZeroStep
    <3> QED BY <2>2, <3>2 DEF Verdicts
  <2> QED BY <2>3, <2>4
<1>5. CASE \E i \in Ids : Free(i)
  <2>1. PICK i \in Ids : Free(i)
    BY <1>5
  <2>2. impl' = impl
    BY <2>1 DEF Free, Request
  <2>3. InOrder(heap', blocks', total', hwm') /\ Outcome(blocks, blocks') /\ status' = "valid"
    BY <1>1, <2>1, FreeStep
  <2> QED BY <2>2, <2>3 DEF Verdicts
<1>6. CASE FreeNull
  <2>1. impl' = impl
    BY <1>6 DEF FreeNull, Request
  <2>2. InOrder(heap', blocks', total', hwm') /\ Outcome(blocks, blocks') /\ status' = "valid"
    BY <1>1, <1>6, FreeNullStep
  <2> QED BY <2>1, <2>2 DEF Verdicts
<1>7. CASE NextEval
  <2>1. /\ impl' = impl /\ heap' \in FreshHeaps["mm"] /\ blocks' = Empty /\ total' = 0 /\ hwm' = 0
        /\ status' = "valid"
    BY <1>7 DEF NextEval, Empty
  <2>2. InOrder(heap', Empty, 0, 0)
    BY <1>1, <2>1, FreshOrder
  <2> QED BY <2>1, <2>2 DEF Verdicts, Outcome
<1> QED BY <1>2, <1>3, <1>4, <1>5, <1>6, <1>7 DEF Next

\* No request changes the allocator.
LEMMA SameImpl == Next => impl' = impl
BY DEF Next, Alloc, Calloc, Realloc, Free, FreeNull, NextEval, Request

\* The invariant is kept.
LEMMA NextInv == ASSUME MmLinked PROVE IInv /\ [Next]_vars => IInv'
<1> SUFFICES ASSUME IInv, [Next]_vars PROVE IInv'
  OBVIOUS
<1>1. CASE UNCHANGED vars
  <2>1. /\ impl' = impl /\ heap' = heap /\ blocks' = blocks /\ total' = total /\ hwm' = hwm
        /\ status' = status
    BY <1>1 DEF vars
  <2> QED BY <2>1 DEF IInv, DriverInv
<1>2. CASE Next
  <2>1. impl' = impl
    BY <1>2, SameImpl
  <2>2. CASE impl = "mm"
    <3>1. InOrder(heap', blocks', total', hwm') /\ status' \in Verdicts
      BY <1>2, <2>2, StepIs
    <3> QED BY <2>1, <3>1 DEF IInv, DriverInv
  <2>3. CASE impl # "mm"
    BY <2>1, <2>3 DEF IInv, DriverInv
  <2> QED BY <2>2, <2>3
<1> QED BY <1>1, <1>2

\* A heap in order is what mm_checkheap looks for.
LEMMA ReadyHeap ==
  ASSUME NEW H, NEW bl, Ready(H, bl)
  PROVE  Tiled(H) /\ Tagged(H) /\ Merged(H) /\ OnLists(H)
<1>1. PICK B, S, F : Settled(H, B, S, F)
  BY DEF Ready
<1>2. NoTwins(S, F)
  BY <1>1 DEF Settled
<1>3. PICK r \in Ranks : Shape(H, B, S, F, r)
  BY <1>1 DEF Settled
<1> QED BY <1>2, <1>3, ShapeTiled, ShapeTagged, ShapeMerged, ShapeOnLists

\* mm.c's blocks tile its heap and their tags agree (mm.c 397, 590).
THEOREM HeapSound == ASSUME MmLinked PROVE Spec => []Sound
<1>1. IInv => Sound
  BY ReadyHeap DEF IInv, DriverInv, InOrder, Sound
<1>2. Init => IInv
  BY InitInv
<1>3. IInv /\ [Next]_vars => IInv'
  BY NextInv
<1> QED BY <1>1, <1>2, <1>3, PTL DEF Spec

\* mm.c's free blocks have no free neighbours (mm.c 223).
THEOREM HeapCoalesced == ASSUME MmLinked PROVE Spec => []Coalesced
<1>1. IInv => Coalesced
  BY ReadyHeap DEF IInv, DriverInv, InOrder, Coalesced
<1>2. Init => IInv
  BY InitInv
<1>3. IInv /\ [Next]_vars => IInv'
  BY NextInv
<1> QED BY <1>1, <1>2, <1>3, PTL DEF Spec

\* mm.c's lists hold its free blocks, each once (mm.c 295).
THEOREM HeapListed == ASSUME MmLinked PROVE Spec => []Listed
<1>1. IInv => Listed
  BY ReadyHeap DEF IInv, DriverInv, InOrder, Listed
<1>2. Init => IInv
  BY InitInv
<1>3. IInv /\ [Next]_vars => IInv'
  BY NextInv
<1> QED BY <1>1, <1>2, <1>3, PTL DEF Spec

\* mm.c refuses only what it has no room for (mm.c 341, 536).
THEOREM RefusedOnlyFull == ASSUME MmLinked PROVE Spec => FailsOnlyFull
<1> DEFINE A == \A i \in Ids, n \in Sizes :
                  impl = "mm" /\ (\/ status' = "mm_malloc failed" /\ Alloc(i, n)
                                  \/ status' = "mm_realloc failed" /\ Realloc(i, n)) =>
                       /\ \A bp \in FreeBlocks(heap) : GET_SIZE(heap, HDRP(bp)) < BlockFor(n)
                       /\ ~CanGrow(heap, Larger(BlockFor(n), CHUNKSIZE))
<1>1. IInv /\ [Next]_vars => [A]_vars
  <2> SUFFICES ASSUME IInv, NEW i \in Ids, NEW n \in Sizes, impl = "mm",
                      \/ status' = "mm_malloc failed" /\ Alloc(i, n)
                      \/ status' = "mm_realloc failed" /\ Realloc(i, n)
               PROVE  Full(heap, n)
    BY DEF Full
  <2>1. InOrder(heap, blocks, total, hwm)
    BY DEF IInv, DriverInv
  <2>2. CASE status' = "mm_malloc failed" /\ Alloc(i, n)
    <3>1. status' = "valid" \/ (status' = "mm_malloc failed" /\ Full(heap, n))
      BY <2>1, <2>2, AllocStep
    <3> QED BY <2>2, <3>1
  <2>3. CASE status' = "mm_realloc failed" /\ Realloc(i, n)
    <3>1. status' = "valid" \/ (status' = "mm_realloc failed" /\ Full(heap, n))
      BY <2>1, <2>3, ReallocStep
    <3> QED BY <2>3, <3>1
  <2> QED BY <2>2, <2>3
<1>2. Init => IInv
  BY InitInv
<1>3. IInv /\ [Next]_vars => IInv'
  BY NextInv
<1>4. Spec => [][A]_vars
  <2> HIDE DEF A
  <2> QED BY <1>1, <1>2, <1>3, PTL DEF Spec
<1> QED BY <1>4 DEF FailsOnlyFull

\* The evaluation of mm.c.
IsMm == impl = "mm"

\* The allocator stays the same.
LEMMA StaysMm == IsMm /\ [Next]_vars => IsMm'
BY SameImpl DEF IsMm, vars

\* The driver accepts mm.c's payloads, and its ratio is at most one (mdriver.c 560, 682, 1066).
THEOREM MmAccepted == ASSUME MmLinked PROVE Spec /\ IsMm => []Accepted
<1>1. IInv /\ IsMm => Accepted
  BY DEF IInv, IsMm, DriverInv, InOrder, Accepted, Verdicts
<1>2. Init => IInv
  BY InitInv
<1>3. IInv /\ [Next]_vars => IInv'
  BY NextInv
<1> QED BY <1>1, <1>2, <1>3, StaysMm, PTL DEF Spec

\* mm.c touches address 0 only in a calloc (mm.c 427, 460).
THEOREM MmNoFault == ASSUME MmLinked PROVE Spec /\ IsMm => NoFault
<1> DEFINE A == status' = "killed" => \/ impl \in {"my", "segregated", "segregated2"}
                                      \/ \E i \in Ids, n \in Sizes : Calloc(i, n \div WSIZE)
<1>1. IInv /\ IsMm /\ [Next]_vars => [A]_vars
  <2> SUFFICES ASSUME IInv, IsMm, Next, status' = "killed"
               PROVE  \E i \in Ids, n \in Sizes : Calloc(i, n \div WSIZE)
    OBVIOUS
  <2>1. InOrder(heap, blocks, total, hwm) /\ impl = "mm"
    BY DEF IInv, DriverInv, IsMm
  <2>2. ASSUME NEW i \in Ids, NEW n \in Sizes, Alloc(i, n) PROVE status' # "killed"
    <3>1. status' = "valid" \/ status' = "mm_malloc failed"
      BY <2>1, <2>2, AllocStep
    <3> QED BY <3>1
  <2>3. ASSUME NEW i \in Ids, NEW n \in Sizes, Realloc(i, n) PROVE status' # "killed"
    <3>1. status' = "valid" \/ status' = "mm_realloc failed"
      BY <2>1, <2>3, ReallocStep
    <3> QED BY <3>1
  <2>4. ASSUME NEW i \in Ids, Realloc(i, 0) PROVE status' # "killed"
    <3>1. status' = "valid"
      BY <2>1, <2>4, ReallocZeroStep
    <3> QED BY <3>1
  <2>5. ASSUME NEW i \in Ids, Free(i) PROVE status' # "killed"
    <3>1. status' = "valid"
      BY <2>1, <2>5, FreeStep
    <3> QED BY <3>1
  <2>6. ASSUME FreeNull PROVE status' # "killed"
    <3>1. status' = "valid"
      BY <2>1, <2>6, FreeNullStep
    <3> QED BY <3>1
  <2>7. ASSUME NextEval PROVE status' # "killed"
    BY <2>7 DEF NextEval
  <2> QED BY <2>2, <2>3, <2>4, <2>5, <2>6, <2>7 DEF Next
<1>2. Init => IInv
  BY InitInv
<1>3. IInv /\ [Next]_vars => IInv'
  BY NextInv
<1>4. Spec /\ IsMm => [][A]_vars
  <2> HIDE DEF A
  <2> QED BY <1>1, <1>2, <1>3, StaysMm, PTL DEF Spec
<1> QED BY <1>4 DEF NoFault

-----------------------------------------------------------------------------
(* The driver with mm.c implements Allocator.                              *)

\* The words of a heap are read at their addresses.
LEMMA MemIs == ASSUME NEW H, NEW bl, Ready(H, bl) PROVE DOMAIN H.mem = Word /\ \A a \in Word : Rd(H, a) = H.mem[a]
<1>1. PICK B, S, F : Settled(H, B, S, F)
  BY DEF Ready
<1>2. IsHeap(H)
  BY <1>1, UsedAre
<1>3. DOMAIN H.mem = Word
  BY <1>2 DEF IsHeap
<1> QED BY <1>3 DEF Rd

\* A block that a request leaves alone keeps its words.
LEMMA WordsKept ==
  ASSUME NEW H, NEW bl, Ready(H, bl), NEW K, NEW bl2, Ready(K, bl2), NEW j \in Ids, bl2[j] = bl[j],
         NEW a \in WordsOf(bl[j])
  PROVE  K.mem[a] = H.mem[a]
<1>1. a \in Word
  BY DEF WordsOf
<1>2. check_index(H, j, bl[j]) /\ check_index(K, j, bl[j])
  BY IndexHeld
<1>3. Rd(H, a) = Rd(K, a)
  BY <1>2 DEF check_index
<1> QED BY <1>1, <1>3, MemIs

\* Blocks apart have no words in common, and a block's are what its owner wrote.
LEMMA WordsApart ==
  ASSUME NEW K, NEW bl, Ready(K, bl), NEW i \in Occupied(bl), NEW j \in Occupied(bl), i # j
  PROVE  WordsOf(bl[i]) \cap WordsOf(bl[j]) = {}
<1> DEFINE p == bl[i].lo
           m == bl[i].size
           q == bl[j].lo
           n == bl[j].size
<1>1. Within(p, m, K.brk) /\ Within(q, n, K.brk) /\ Apart(p, m, q, n)
  BY PayloadsAre
<1> HIDE DEF p, q, m, n
<1>2. p \in Int /\ q \in Int /\ m \in Nat /\ n \in Nat /\ (p + m <= q \/ q + n <= p)
  BY <1>1 DEF Within, Apart
<1>3. ASSUME NEW a \in p..(p + m - 1), a \in q..(q + n - 1) PROVE FALSE
  BY <1>2, <1>3
<1>4. WordsOf(bl[i]) \subseteq p..(p + m - 1) /\ WordsOf(bl[j]) \subseteq q..(q + n - 1)
  BY DEF WordsOf, p, q, m, n
<1> QED BY <1>3, <1>4

\* The first byte of a block of some words is a word's.
LEMMA FirstWord ==
  ASSUME NEW K, NEW bl, Ready(K, bl), NEW i \in Occupied(bl), bl[i].size % 4 = 0
  PROVE  bl[i].lo \in Word
<1> DEFINE p == bl[i].lo
           n == bl[i].size
<1>1. Within(p, n, K.brk) /\ n > 0 /\ n % 4 = 0
  BY PayloadsAre DEF Occupied
<1>2. K.brk \in Nat /\ K.brk <= MaxHeap
  <2>1. PICK B, S, F : Settled(K, B, S, F)
    BY DEF Ready
  <2> QED BY <2>1, UsedAre
<1> HIDE DEF p, n
<1>3. p \in Int /\ n \in Nat /\ p % 8 = 0 /\ 16 <= p /\ p + n <= K.brk
  BY <1>1 DEF Within
<1>4. 4 <= n
  BY <1>1, <1>3
<1>5. p % 4 = 0 /\ 0 <= p /\ p + 4 <= MaxHeap
  BY <1>2, <1>3, <1>4, HeapAssumption
<1>6. p \in Word
  BY <1>3, <1>5, WordAt
<1> QED BY <1>6 DEF p

\* The abstract allocator's names for the same things.
LEMMA PromiseNames ==
  ASSUME Ready(heap, blocks)
  PROVE  /\ Promise!Live = Occupied(blocks)
         /\ \A j : Promise!WordsOf(blocks[j]) = WordsOf(blocks[j])
<1>1. \A i \in Ids : blocks[i].size \in Nat
  BY DEF Ready, Typed
<1>2. \A i \in Ids : blocks[i].size # 0 <=> blocks[i].size > 0
  BY <1>1
<1>3. Promise!Live = Occupied(blocks)
  BY <1>2 DEF Promise!Live, Occupied
<1>4. \A j : Promise!WordsOf(blocks[j]) = WordsOf(blocks[j])
  BY DEF Promise!WordsOf, WordsOf
<1> QED BY <1>3, <1>4

\* The payloads of the blocks that stay are as they were.
LEMMA PromiseKept ==
  ASSUME Ready(heap, blocks), Ready(heap', blocks'), NEW others, others \subseteq Ids,
         \A j \in others : blocks'[j] = blocks[j]
  PROVE  Promise!Kept(others)
<1>1. ASSUME NEW j \in others, NEW a \in Promise!WordsOf(blocks[j]) PROVE heap'.mem[a] = heap.mem[a]
  <2>1. a \in WordsOf(blocks[j]) /\ j \in Ids /\ blocks'[j] = blocks[j]
    BY PromiseNames
  <2> QED BY <2>1, WordsKept
<1> QED BY <1>1 DEF Promise!Kept

\* A block is given, as Allocator has it.
LEMMA PromiseGive ==
  ASSUME Ready(heap, blocks), Ready(heap', blocks'), NEW i \in Ids, NEW n \in Sizes, NEW p,
         blocks' = Given(blocks, i, p, n)
  PROVE  p \in Word /\ Promise!Give(i, p, n)
<1>1. n \in Nat /\ 0 < n /\ n % 4 = 0
  BY SizeIs
<1>2. Typed(blocks) /\ Typed(blocks')
  BY DEF Ready
<1>3. blocks'[i] = Payload(p, n) /\ \A j \in Ids \ {i} : blocks'[j] = blocks[j]
  BY <1>2 DEF Given, Typed
<1>4. blocks'[i].lo = p /\ blocks'[i].size = n
  BY <1>3 DEF Payload
<1> DEFINE bl2 == blocks'
           K == heap'
<1>5. i \in Occupied(bl2) /\ \A j \in Ids \ {i} : j \in Occupied(blocks) => j \in Occupied(bl2)
  BY <1>1, <1>3, <1>4 DEF Occupied
<1>6. Ready(K, bl2)
  OBVIOUS
<1>7. bl2[i].lo = p /\ bl2[i].size = n /\ \A j \in Ids \ {i} : bl2[j] = blocks[j]
  BY <1>3, <1>4
<1> HIDE DEF bl2, K
<1>8. p \in Word
  <2>1. bl2[i].lo \in Word
    BY <1>1, <1>5, <1>6, <1>7, FirstWord
  <2> QED BY <1>7, <2>1
<1> DEFINE new == {a \in Word : a \in p..(p + n - 1)}
<1>9. WordsOf(bl2[i]) = new
  BY <1>7 DEF WordsOf
<1>10. ASSUME NEW j \in Promise!Live \ {i} PROVE Promise!WordsOf(blocks[j]) \cap new = {}
  <2>1. j \in Occupied(blocks) /\ j \in Ids /\ j # i /\ Promise!WordsOf(blocks[j]) = WordsOf(blocks[j])
    BY PromiseNames DEF Occupied
  <2>2. j \in Occupied(bl2) /\ bl2[j] = blocks[j]
    BY <1>5, <1>7, <2>1
  <2>3. WordsOf(bl2[i]) \cap WordsOf(bl2[j]) = {}
    BY <1>5, <1>6, <2>1, <2>2, WordsApart
  <2> QED BY <1>9, <2>1, <2>2, <2>3
<1>11. \A a \in new : K.mem[a] = Data(i)
  <2>1. check_index(K, i, bl2[i])
    BY <1>6, IndexHeld
  <2>2. ASSUME NEW a \in new PROVE K.mem[a] = Data(i)
    <3>1. a \in Word /\ a \in WordsOf(bl2[i])
      BY <1>9
    <3>2. Rd(K, a) = Data(i)
      BY <2>1, <3>1 DEF check_index
    <3> QED BY <1>6, <3>1, <3>2, MemIs
  <2> QED BY <2>2
<1>12. Promise!Kept(Promise!Live \ {i})
  <2>1. Promise!Live \ {i} \subseteq Ids
    BY DEF Promise!Live
  <2>2. \A j \in Promise!Live \ {i} : blocks'[j] = blocks[j]
    BY <1>3, <2>1
  <2> HIDE DEF new
  <2> QED BY <2>1, <2>2, PromiseKept
<1>13. new \subseteq Word /\ n # 0
  BY <1>1
<1>14. blocks' = [blocks EXCEPT ![i] = [lo |-> p, size |-> n]]
  BY DEF Given, Payload
<1>15. \A a \in new : heap'.mem[a] = Data(i)
  BY <1>11 DEF K
<1>16. Promise!Give(i, p, n)
  BY <1>10, <1>12, <1>13, <1>14, <1>15 DEF Promise!Give
<1> QED BY <1>8, <1>16

\* Every step of the driver with mm.c is one that Allocator allows.
LEMMA PromiseStep ==
  ASSUME Ready(heap, blocks), Ready(heap', blocks'), Outcome(blocks, blocks')
  PROVE  Promise!Next
<1>1. DOMAIN heap'.mem = Word
  BY MemIs
<1>2. Typed(blocks)
  BY DEF Ready
<1>3. CASE \E i \in Ids, n \in Sizes : \E p : blocks' = Given(blocks, i, p, n)
  <2>1. PICK i \in Ids, n \in Sizes : \E p : blocks' = Given(blocks, i, p, n)
    BY <1>3
  <2>2. PICK p : blocks' = Given(blocks, i, p, n)
    BY <2>1
  <2>3. p \in Word /\ Promise!Give(i, p, n)
    BY <2>2, PromiseGive
  <2> QED BY <1>1, <2>3 DEF Promise!Next
<1>4. CASE \E i \in Ids : blocks' = Without(blocks, i)
  <2>1. PICK i \in Ids : blocks' = Without(blocks, i)
    BY <1>4
  <2>2. \A j \in Ids \ {i} : blocks'[j] = blocks[j]
    BY <1>2, <2>1 DEF Without, Typed
  <2>3. Promise!Live \ {i} \subseteq Ids
    BY DEF Promise!Live
  <2>4. \A j \in Promise!Live \ {i} : blocks'[j] = blocks[j]
    BY <2>2, <2>3
  <2>5. Promise!Kept(Promise!Live \ {i})
    BY <2>3, <2>4, PromiseKept
  <2>6. blocks' = [blocks EXCEPT ![i] = [lo |-> 0, size |-> 0]]
    BY <2>1 DEF Without, NoBlock, NULL
  <2>7. Promise!Free(i)
    BY <2>5, <2>6 DEF Promise!Free
  <2> QED BY <1>1, <2>7 DEF Promise!Next
<1>5. CASE blocks' = blocks
  <2>1. Promise!Live \subseteq Ids
    BY DEF Promise!Live
  <2>2. Promise!Kept(Promise!Live)
    BY <1>5, <2>1, PromiseKept
  <2>3. Promise!Refuse
    BY <1>5, <2>2 DEF Promise!Refuse
  <2> QED BY <1>1, <2>3 DEF Promise!Next
<1>6. CASE blocks' = Empty
  <2>1. Promise!Reset
    BY <1>6 DEF Promise!Reset, Empty, NoBlock, NULL
  <2> QED BY <1>1, <2>1 DEF Promise!Next
<1> QED BY <1>3, <1>4, <1>5, <1>6 DEF Outcome

\* The driver with mm.c does what Allocator promises: the payloads are apart and keep their data.
THEOREM MmPromised == ASSUME MmLinked PROVE Spec /\ IsMm => Promised
<1>1. Init /\ IsMm => Promise!Init
  <2> SUFFICES ASSUME Init, IsMm PROVE Promise!Init
    OBVIOUS
  <2>1. Ready(heap, blocks) /\ blocks = Empty
    BY InitInv DEF IInv, DriverInv, InOrder, IsMm, Init, Empty
  <2>2. DOMAIN heap.mem = Word
    BY <2>1, MemIs
  <2>3. blocks \in [Ids -> [lo : {0}, size : {0}]]
    BY <2>1 DEF Empty, NoBlock, NULL
  <2> QED BY <2>2, <2>3 DEF Promise!Init
<1>2. IInv /\ IsMm /\ IInv' /\ IsMm' /\ [Next]_vars => [Promise!Next]_(Promise!vars)
  <2> SUFFICES ASSUME IInv, IsMm, [Next]_vars PROVE [Promise!Next]_(Promise!vars)
    OBVIOUS
  <2>1. impl = "mm" /\ Ready(heap, blocks)
    BY DEF IsMm, IInv, DriverInv, InOrder
  <2>2. CASE Next
    <3>1. InOrder(heap', blocks', total', hwm') /\ Outcome(blocks, blocks')
      BY <2>1, <2>2, StepIs
    <3>2. Ready(heap', blocks')
      BY <3>1 DEF InOrder
    <3> QED BY <2>1, <3>1, <3>2, PromiseStep
  <2>3. CASE UNCHANGED vars
    BY <2>3 DEF vars, Promise!vars
  <2> QED BY <2>2, <2>3
<1>3. Init => IInv
  BY InitInv
<1>4. IInv /\ [Next]_vars => IInv'
  BY NextInv
<1>5. Spec /\ IsMm => Promise!Spec
  BY <1>1, <1>2, <1>3, <1>4, StaysMm, PTL DEF Spec, Promise!Spec
<1> QED BY <1>5 DEF Promised

-----------------------------------------------------------------------------
(* Nothing is leaked.                                                      *)

\* A block of mm.c's heap is free, and so on a list, or it is one of the trace's, and not both.
NothingLost ==
  impl = "mm" =>
    LET b == Blocks(heap)
        used == {blocks[i].lo : i \in Live}
    IN  /\ {b[k] : k \in DOMAIN b} = FreeBlocks(heap) \cup used
        /\ FreeBlocks(heap) \cap used = {}

\* The blocks in use are the trace's.
LEMMA ReadyUsed ==
  ASSUME Ready(heap, blocks), impl = "mm"
  PROVE  NothingLost
<1>1. PICK B, S, F : Settled(heap, B, S, F) /\ HeldBy(heap, B, S, F, blocks)
  BY DEF Ready
<1>2. PICK r \in Ranks : Shape(heap, B, S, F, r)
  BY <1>1 DEF Settled
<1> DEFINE b == Blocks(heap)
           used == {blocks[i].lo : i \in Live}
           all == {b[k] : k \in DOMAIN b}
<1>3. IsBlocks(B, S, heap.brk, b)
  BY <1>2, BlocksAre
<1> HIDE DEF b
<1>4. DOMAIN b = 1..Len(b) /\ (\A k \in 1..Len(b) : b[k] \in B) /\ \A c \in B : \E k \in 1..Len(b) : b[k] = c
  BY <1>3 DEF IsBlocks
<1>5. all = B
  BY <1>4
<1>6. FreeBlocks(heap) = F
  BY <1>2, ShapeFree
<1>7. used = B \ F
  <2>1. Live = Occupied(blocks)
    BY LiveIs
  <2>2. Held(heap, B \ F, S, blocks)
    BY <1>1 DEF HeldBy
  <2>3. \A i \in Live : blocks[i].lo \in B \ F
    BY <2>1, <2>2 DEF Held
  <2>4. \A a \in B \ F : \E i \in Live : blocks[i].lo = a
    BY <2>1, <2>2 DEF Held
  <2> QED BY <2>3, <2>4
<1>8. F \subseteq B
  BY <1>2 DEF Shape, Plan
<1>9. all = FreeBlocks(heap) \cup used /\ FreeBlocks(heap) \cap used = {}
  BY <1>5, <1>6, <1>7, <1>8
<1> QED BY <1>9 DEF NothingLost, b

\* Nothing of mm.c's heap is leaked, and nothing in use is on a list (mm.c 223, 366).
THEOREM HeapKeepsAll == ASSUME MmLinked PROVE Spec => []NothingLost
<1>1. IInv => NothingLost
  <2>1. CASE impl = "mm"
    BY <2>1, ReadyUsed DEF IInv, DriverInv, InOrder
  <2>2. CASE impl # "mm"
    BY <2>2 DEF NothingLost
  <2> QED BY <2>1, <2>2
<1>2. Init => IInv
  BY InitInv
<1>3. IInv /\ [Next]_vars => IInv'
  BY NextInv
<1> QED BY <1>1, <1>2, <1>3, PTL DEF Spec
==============================================================================
