----------------------------- MODULE Csim_proofs -----------------------------
(***************************************************************************)
(* The simulator of csim.c is a least-recently-used cache for every        *)
(* geometry, as long as the mask of the tag loses no bit of an address,    *)
(* and transpose_submit transposes matrices of any number of columns.      *)
(***************************************************************************)
EXTENDS Trans, DataLemmas

Block == [valid : BOOLEAN, tag : Int, LRUCounter : Nat]

\* s names the valid blocks of a set st from the oldest to the newest, all older than c.
Ages(st, s, c) ==
  /\ s \in Seq(Ways)
  /\ \A w \in Ways : st[w].valid <=> \E n \in 1..Len(s) : s[n] = w
  /\ \A m, n \in 1..Len(s) : m < n => st[s[m]].LRUCounter < st[s[n]].LRUCounter
  /\ \A n \in 1..Len(s) : st[s[n]].LRUCounter < c

\* A set fills from its first block on, no two of its blocks have one tag, and the
\* stamps order them.
SetOK(st, c) ==
  /\ \A v, w \in Ways : v < w /\ st[w].valid => st[v].valid
  /\ \A v, w \in Ways : st[v].valid /\ st[w].valid /\ st[v].tag = st[w].tag => v = w
  /\ \E s : Ages(st, s, c)

Sets == 0..(2^options.sets - 1)

CacheType ==
  /\ options \in OptionSets
  /\ cache \in [sets : [Sets -> [Ways -> Block]], counts : Nat,
                globalHits : Nat, globalMiss : Nat, globalEvictions : Nat]

CacheOK == CacheType /\ \A a \in Sets : SetOK(cache.sets[a], cache.counts)

\* The simulator that reads a trace; the transposes use one of fixed size.
Reading == shape = NoMatrix => CacheOK

\* No bit of an address is lost by the mask of its tag (csim.c 198).
TagsWhole ==
  \A opt \in OptionSets, addr \in Addresses :
    addr \div 2^(opt.sets + opt.blocks) < 2^(opt.sets + opt.blocks)

-----------------------------------------------------------------------------
(* The order of the blocks.                                                *)

\* The number in memory of the block of set a with tag t.
Number(t, a) == t * 2^options.sets + a

\* The blocks of set a that s names, as LruSim sees them.
Blocks(st, a, s) == [n \in 1..Len(s) |-> Number(st[s[n]].tag, a)]

\* The stamps name the blocks apart.
LEMMA AgesOnce ==
  ASSUME options \in OptionSets, NEW st \in [Ways -> Block], NEW s, NEW c \in Nat, Ages(st, s, c)
  PROVE  /\ Len(s) \in Nat /\ s \in [1..Len(s) -> Ways]
         /\ \A p, q \in 1..Len(s) : s[p] = s[q] => p = q
         /\ \A p, q \in 1..Len(s) : p < q <=> st[s[p]].LRUCounter < st[s[q]].LRUCounter
<1>1. Len(s) \in Nat /\ s \in [1..Len(s) -> Ways]
  BY DEF Ages
<1>2. \A p \in 1..Len(s) : st[s[p]].LRUCounter \in Nat
  BY <1>1 DEF Block
<1>3. \A p, q \in 1..Len(s) : p < q \/ p = q \/ q < p
  BY <1>1
<1>4. \A p, q \in 1..Len(s) : p < q => st[s[p]].LRUCounter < st[s[q]].LRUCounter
  BY DEF Ages
<1>5. \A p, q \in 1..Len(s) : s[p] = s[q] => p = q
  BY <1>2, <1>3, <1>4
<1>6. \A p, q \in 1..Len(s) : st[s[p]].LRUCounter < st[s[q]].LRUCounter => p < q
  BY <1>2, <1>3, <1>4
<1> QED BY <1>1, <1>4, <1>5, <1>6

\* As many valid blocks are older than the n-th as come before it.
LEMMA RankIs ==
  ASSUME options \in OptionSets, NEW st \in [Ways -> Block], NEW s, NEW c \in Nat, Ages(st, s, c)
  PROVE  LET valid == {w \in Ways : st[w].valid}
         IN  /\ Cardinality(valid) = Len(s)
             /\ \A n \in 1..Len(s) :
                  Cardinality({v \in valid : st[v].LRUCounter < st[s[n]].LRUCounter}) = n - 1
<1> DEFINE valid == {w \in Ways : st[w].valid}
<1>1. /\ Len(s) \in Nat /\ s \in [1..Len(s) -> Ways]
      /\ \A p, q \in 1..Len(s) : s[p] = s[q] => p = q
      /\ \A p, q \in 1..Len(s) : p < q <=> st[s[p]].LRUCounter < st[s[q]].LRUCounter
  BY AgesOnce
<1>2. \A w : w \in valid <=> \E p \in 1..Len(s) : s[p] = w
  BY <1>1 DEF Ages
<1> HIDE DEF valid
<1>3. Cardinality(valid) = Len(s)
  BY <1>1, <1>2, CountSeq
<1>4. ASSUME NEW n \in 1..Len(s)
      PROVE  Cardinality({v \in valid : st[v].LRUCounter < st[s[n]].LRUCounter}) = n - 1
  <2> DEFINE older == {v \in valid : st[v].LRUCounter < st[s[n]].LRUCounter}
  <2>1. n - 1 \in Nat /\ \A p \in 1..(n - 1) : p \in 1..Len(s) /\ p < n
    BY <1>1
  <2>2. \A p \in 1..Len(s) : p < n => p \in 1..(n - 1)
    BY <1>1
  <2>3. \A w : w \in older <=> \E p \in 1..(n - 1) : s[p] = w
    BY <1>1, <1>2, <2>1, <2>2
  <2>4. \A p, q \in 1..(n - 1) : s[p] = s[q] => p = q
    BY <1>1, <2>1
  <2> DEFINE m == n - 1
  <2>5. m \in Nat /\ (\A w : w \in older <=> \E p \in 1..m : s[p] = w)
        /\ \A p, q \in 1..m : s[p] = s[q] => p = q
    BY <2>1, <2>3, <2>4
  <2> HIDE DEF older, m
  <2>6. Cardinality(older) = m
    BY <2>5, CountSeq
  <2> QED BY <2>6 DEF older, m
<1> QED BY <1>3, <1>4 DEF valid

\* ByAge reads that order off the stamps.
LEMMA ByAgeIs ==
  options \in OptionSets =>
    \A a : cache.sets[a] \in [Ways -> Block] =>
      \A c \in Nat : \A s : Ages(cache.sets[a], s, c) => ByAge(a) = Blocks(cache.sets[a], a, s)
<1> SUFFICES ASSUME options \in OptionSets, NEW a, cache.sets[a] \in [Ways -> Block],
                    NEW c \in Nat, NEW s, Ages(cache.sets[a], s, c)
             PROVE  ByAge(a) = Blocks(cache.sets[a], a, s)
  OBVIOUS
<1> DEFINE st == cache.sets[a]
           valid == {w \in Ways : st[w].valid}
           Older(v) == Cardinality({w \in valid : st[w].LRUCounter < st[v].LRUCounter})
<1>1. /\ Len(s) \in Nat /\ s \in [1..Len(s) -> Ways]
      /\ \A w \in valid : \E p \in 1..Len(s) : s[p] = w
      /\ \A p \in 1..Len(s) : s[p] \in valid
  BY AgesOnce DEF Ages
<1>2. Cardinality(valid) = Len(s) /\ \A n \in 1..Len(s) : Older(s[n]) = n - 1
  BY RankIs
<1>3. ByAge(a) = [n \in 1..Cardinality(valid) |->
                    st[CHOOSE v \in valid : Older(v) = n - 1].tag * 2^options.sets + a]
  BY DEF ByAge
<1> HIDE DEF Older, valid, st
<1>4. ASSUME NEW n \in 1..Len(s) PROVE (CHOOSE v \in valid : Older(v) = n - 1) = s[n]
  <2>1. s[n] \in valid /\ Older(s[n]) = n - 1
    BY <1>1, <1>2
  <2>2. ASSUME NEW v \in valid, Older(v) = n - 1 PROVE v = s[n]
    <3>1. PICK p \in 1..Len(s) : s[p] = v
      BY <1>1
    <3>2. p - 1 = n - 1
      BY <1>2, <2>2, <3>1
    <3> QED BY <1>1, <3>1, <3>2
  <2> QED BY <2>1, <2>2
<1> QED BY <1>2, <1>3, <1>4 DEF Blocks, Number, st
-----------------------------------------------------------------------------
(* What an access does to that order.                                      *)

\* s without its k-th element.
Cut(s, p) == [n \in 1..(Len(s) - 1) |-> IF n < p THEN s[n] ELSE s[n + 1]]

\* The block v of st after an access to tag t at time c.
Stamped(st, v, t, c) == [st EXCEPT ![v] = [valid |-> TRUE, tag |-> t, LRUCounter |-> c]]

\* An empty block that is filled becomes the youngest.
LEMMA Fill ==
  ASSUME options \in OptionSets, NEW st \in [Ways -> Block], NEW s, NEW c \in Nat, Ages(st, s, c),
         NEW v \in Ways, ~st[v].valid, NEW t \in Int
  PROVE  Ages(Stamped(st, v, t, c), Append(s, v), c + 1)
<1> DEFINE Z == Len(s)
           r == Append(s, v)
           st2 == Stamped(st, v, t, c)
<1>1. /\ Z \in Nat /\ s \in [1..Z -> Ways] /\ s \in Seq(Ways)
      /\ \A p, q \in 1..Z : p < q <=> st[s[p]].LRUCounter < st[s[q]].LRUCounter
      /\ \A w \in Ways : st[w].valid <=> \E n \in 1..Z : s[n] = w
      /\ \A p \in 1..Z : st[s[p]].LRUCounter < c /\ s[p] # v
  BY AgesOnce DEF Ages
<1>2. r \in Seq(Ways) /\ Len(r) = Z + 1 /\ r[Z + 1] = v /\ \A p \in 1..Z : r[p] = s[p]
  BY <1>1
<1>3. /\ st2[v].valid = TRUE /\ st2[v].LRUCounter = c
      /\ \A w \in Ways \ {v} : st2[w] = st[w]
  BY DEF Stamped
<1>4. \A p \in 1..Z : st2[s[p]] = st[s[p]]
  BY <1>1, <1>3
<1>5. \A p \in 1..(Z + 1) : p \in 1..Z \/ p = Z + 1
  BY <1>1
<1> HIDE DEF r, st2, Z
<1>6. ASSUME NEW w \in Ways PROVE st2[w].valid <=> \E n \in 1..(Z + 1) : r[n] = w
  <2>1. CASE w = v
    BY <1>1, <1>2, <1>3, <2>1
  <2>2. CASE w # v
    <3>1. st2[w].valid <=> \E n \in 1..Z : s[n] = w
      BY <1>1, <1>3, <2>2
    <3>2. \A n \in 1..Z : n \in 1..(Z + 1) /\ r[n] = s[n]
      BY <1>1, <1>2
    <3>3. ASSUME NEW n \in 1..(Z + 1), r[n] = w PROVE n \in 1..Z
      BY <1>2, <1>5, <2>2, <3>3
    <3> QED BY <3>1, <3>2, <3>3
  <2> QED BY <2>1, <2>2
<1>7. ASSUME NEW m \in 1..(Z + 1), NEW n \in 1..(Z + 1), m < n
      PROVE  st2[r[m]].LRUCounter < st2[r[n]].LRUCounter
  <2>1. m \in 1..Z
    BY <1>1, <1>7
  <2>2. CASE n \in 1..Z
    BY <1>1, <1>2, <1>4, <1>7, <2>1, <2>2
  <2>3. CASE n = Z + 1
    BY <1>1, <1>2, <1>3, <1>4, <2>1, <2>3
  <2> QED BY <1>5, <2>2, <2>3
<1>8. ASSUME NEW n \in 1..(Z + 1) PROVE st2[r[n]].LRUCounter < c + 1
  <2>1. CASE n \in 1..Z
    <3>1. st[s[n]].LRUCounter \in Nat
      BY <1>1, <2>1 DEF Block
    <3> QED BY <1>1, <1>2, <1>4, <2>1, <3>1
  <2>2. CASE n = Z + 1
    BY <1>2, <1>3, <2>2
  <2> QED BY <1>5, <2>1, <2>2
<1>9. Ages(st2, r, c + 1)
  BY <1>2, <1>6, <1>7, <1>8 DEF Ages
<1> QED BY <1>9 DEF r, st2

\* A block that hits, or is evicted for another, becomes the youngest.
LEMMA Renew ==
  ASSUME options \in OptionSets, NEW st \in [Ways -> Block], NEW s, NEW c \in Nat, Ages(st, s, c),
         NEW p \in 1..Len(s), NEW t \in Int
  PROVE  Ages(Stamped(st, s[p], t, c), Append(Cut(s, p), s[p]), c + 1)
<1> DEFINE Z == Len(s)
           v == s[p]
           q == Cut(s, p)
           r == Append(q, v)
           st2 == Stamped(st, v, t, c)
           From(n) == IF n < p THEN n ELSE IF n = Z THEN p ELSE n + 1
<1>1. /\ Z \in Nat /\ s \in [1..Z -> Ways] /\ v \in Ways /\ p \in 1..Z
      /\ \A m, n \in 1..Z : s[m] = s[n] => m = n
      /\ \A m, n \in 1..Z : m < n <=> st[s[m]].LRUCounter < st[s[n]].LRUCounter
      /\ \A w \in Ways : st[w].valid <=> \E n \in 1..Z : s[n] = w
      /\ \A n \in 1..Z : st[s[n]].LRUCounter < c
  BY AgesOnce DEF Ages
<1>2. q \in Seq(Ways) /\ Len(q) = Z - 1 /\ \A n \in 1..(Z - 1) : q[n] = IF n < p THEN s[n] ELSE s[n + 1]
  <2>1. q \in [1..(Z - 1) -> Ways]
    BY <1>1 DEF Cut
  <2> QED BY <1>1, <2>1 DEF Cut
<1>3. /\ st2[v].valid = TRUE /\ st2[v].LRUCounter = c
      /\ \A w \in Ways \ {v} : st2[w] = st[w]
  BY <1>1 DEF Stamped
<1> HIDE DEF q, st2
<1>4. r \in Seq(Ways) /\ Len(r) = Z /\ r[Z] = v /\ \A n \in 1..(Z - 1) : r[n] = q[n]
  <2> HIDE DEF Z, v
  <2>1. q \in Seq(Ways) /\ v \in Ways /\ Len(q) \in Nat /\ Len(q) = Z - 1 /\ Len(q) + 1 = Z
    BY <1>1, <1>2
  <2>2. /\ r \in Seq(Ways) /\ Len(r) = Len(q) + 1 /\ r[Len(q) + 1] = v
        /\ \A n \in 1..Len(q) : r[n] = q[n]
    BY ONLY <2>1
  <2> QED BY <2>1, <2>2
<1> HIDE DEF r, Z, v
<1>5. /\ \A n \in 1..Z : From(n) \in 1..Z
      /\ \A n \in 1..Z : \E m \in 1..Z : From(m) = n
      /\ \A m, n \in 1..Z : m < n /\ n # Z => From(m) < From(n)
      /\ \A n \in 1..Z : n # Z => From(n) # p
      /\ From(Z) = p
  <2>1. \A n \in 1..Z : From(n) \in 1..Z /\ (n # Z => From(n) # p)
    BY <1>1
  <2>2. ASSUME NEW n \in 1..Z PROVE \E m \in 1..Z : From(m) = n
    <3>1. CASE n < p
      BY <1>1, <3>1
    <3>2. CASE n = p
      <4>1. From(Z) = n /\ Z \in 1..Z
        BY <1>1, <3>2
      <4> QED BY <4>1
    <3>3. CASE n > p
      <4>1. n - 1 \in 1..Z /\ From(n - 1) = n
        BY <1>1, <3>3
      <4> QED BY <4>1
    <3> QED BY <1>1, <3>1, <3>2, <3>3
  <2> QED BY <1>1, <2>1, <2>2
<1>6. \A n \in 1..Z : r[n] = s[From(n)]
  <2> SUFFICES ASSUME NEW n \in 1..Z PROVE r[n] = s[From(n)]
    OBVIOUS
  <2>1. CASE n = Z
    BY <1>1, <1>4, <2>1 DEF v
  <2>2. CASE n # Z
    BY <1>1, <1>2, <1>4, <2>2
  <2> QED BY <2>1, <2>2
<1> HIDE DEF From
<1>7. \A n \in 1..Z : n # Z => r[n] # v
  BY <1>1, <1>5, <1>6 DEF v
<1>8. ASSUME NEW w \in Ways PROVE st2[w].valid <=> \E n \in 1..Z : r[n] = w
  <2>1. CASE w = v
    <3>1. Z \in 1..Z
      BY <1>1
    <3> QED BY <1>3, <1>4, <2>1, <3>1
  <2>2. CASE w # v
    <3>1. st2[w].valid <=> \E n \in 1..Z : s[n] = w
      BY <1>1, <1>3, <2>2
    <3>2. ASSUME NEW n \in 1..Z, s[n] = w PROVE \E m \in 1..Z : r[m] = w
      <4>1. PICK m \in 1..Z : From(m) = n
        BY <1>5
      <4>2. r[m] = w
        BY <1>6, <3>2, <4>1
      <4> QED BY <4>2
    <3>3. ASSUME NEW n \in 1..Z, r[n] = w PROVE \E m \in 1..Z : s[m] = w
      <4>1. From(n) \in 1..Z /\ s[From(n)] = w
        BY <1>5, <1>6, <3>3
      <4> QED BY <4>1
    <3> QED BY <3>1, <3>2, <3>3
  <2> QED BY <2>1, <2>2
<1>9. ASSUME NEW m \in 1..Z, NEW n \in 1..Z, m < n
      PROVE  st2[r[m]].LRUCounter < st2[r[n]].LRUCounter
  <2>1. m # Z /\ r[m] # v /\ r[m] \in Ways
    <3>1. m # Z
      BY <1>1, <1>9
    <3>2. r[m] = s[From(m)] /\ From(m) \in 1..Z /\ r[m] # v
      BY <1>5, <1>6, <1>7, <3>1
    <3>3. s[From(m)] \in Ways
      BY <1>1, <3>2
    <3> QED BY <3>1, <3>2, <3>3
  <2>2. st2[r[m]] = st[s[From(m)]]
    BY <1>3, <1>6, <2>1
  <2>3. CASE n # Z
    <3>1. st2[r[n]] = st[s[From(n)]]
      BY <1>1, <1>3, <1>5, <1>6, <1>7, <2>3
    <3>2. From(m) < From(n)
      BY <1>5, <1>9, <2>3
    <3>3. From(m) \in 1..Z /\ From(n) \in 1..Z
      BY <1>5
    <3>4. st[s[From(m)]].LRUCounter < st[s[From(n)]].LRUCounter
      BY <1>1, <3>2, <3>3
    <3> QED BY <2>2, <3>1, <3>4
  <2>4. CASE n = Z
    BY <1>1, <1>3, <1>4, <1>5, <2>2, <2>4
  <2> QED BY <2>3, <2>4
<1>10. ASSUME NEW n \in 1..Z PROVE st2[r[n]].LRUCounter < c + 1
  <2>1. CASE n # Z
    <3>1. st2[r[n]] = st[s[From(n)]] /\ From(n) \in 1..Z
      BY <1>1, <1>3, <1>5, <1>6, <1>7, <2>1
    <3>2. st[s[From(n)]].LRUCounter \in Nat /\ st[s[From(n)]].LRUCounter < c
      BY <1>1, <3>1 DEF Block
    <3> QED BY <3>1, <3>2
  <2>2. CASE n = Z
    BY <1>3, <1>4, <2>2
  <2> QED BY <2>1, <2>2
<1>11. Ages(st2, r, c + 1)
  BY <1>4, <1>8, <1>9, <1>10 DEF Ages
<1> QED BY <1>11 DEF r, st2, q, v

-----------------------------------------------------------------------------
(* The loop over the blocks of a set.                                      *)

\* The first of some blocks: the one at which the loop stops.
LEMMA FirstOf ==
  ASSUME options \in OptionSets, NEW js, js \subseteq Ways, js # {}
  PROVE  LET w == CHOOSE v \in js : \A u \in js : v <= u
         IN  w \in js /\ \A u \in js : w <= u
<1>1. js \subseteq Nat
  BY OptionAssumption DEF Ways
<1>2. \E v \in js : \A u \in js : v <= u
  BY <1>1, LeastNat
<1> QED BY <1>2

\* What is changed when block v of set a is given to tag t.
Given(op, a, v, t, hit, evicts) ==
  [cache EXCEPT !.sets[a][v] = [valid |-> TRUE, tag |-> t, LRUCounter |-> cache.counts],
                !.counts = @ + 1,
                !.globalHits = @ + (IF hit THEN 1 ELSE 0) + Again(op),
                !.globalMiss = @ + (IF hit THEN 0 ELSE 1),
                !.globalEvictions = @ + (IF evicts THEN 1 ELSE 0)]

\* The three ways of an access, for the order s of the blocks.
Hits(st, s, t, v) == \E p \in 1..Len(s) : v = s[p] /\ st[v].tag = t
Misses(st, t) == \A w \in Ways : st[w].valid => st[w].tag # t
Fills(st, t, v) == Misses(st, t) /\ ~st[v].valid /\ \A u \in Ways : u < v => st[u].valid
Evicts(st, s, t, v) ==
  Misses(st, t) /\ (\A w \in Ways : st[w].valid) /\ 1 \in 1..Len(s) /\ v = s[1]

\* The loop ends at a hit, at an empty block when there is no hit behind it, or evicts
\* the block that the order has first.
LEMMA AccessIs ==
  ASSUME CacheType, NEW op, NEW addr, SetIndex(addr) \in Sets,
         NEW s, SetOK(cache.sets[SetIndex(addr)], cache.counts),
         Ages(cache.sets[SetIndex(addr)], s, cache.counts)
  PROVE  LET a  == SetIndex(addr)
             st == cache.sets[a]
             t  == TagOf(addr)
         IN  \E v \in Ways :
               \/ Hits(st, s, t, v) /\ Access(cache, op, addr) = Given(op, a, v, t, TRUE, FALSE)
               \/ Fills(st, t, v) /\ Access(cache, op, addr) = Given(op, a, v, t, FALSE, FALSE)
               \/ Evicts(st, s, t, v) /\ Access(cache, op, addr) = Given(op, a, v, t, FALSE, TRUE)
<1> DEFINE a  == SetIndex(addr)
           st == cache.sets[a]
           t  == TagOf(addr)
           stops == {w \in Ways : ~st[w].valid \/ st[w].tag = t}
           least == {w \in Ways : \A u \in Ways : st[w].LRUCounter <= st[u].LRUCounter}
           Stop(js) == CHOOSE v \in js : \A u \in js : v <= u
           v == Stop(IF stops # {} THEN stops ELSE least)
           hit == stops # {} /\ st[v].valid
           evicts == stops = {}
<1> SUFFICES \E w \in Ways :
               \/ Hits(st, s, t, w) /\ Access(cache, op, addr) = Given(op, a, w, t, TRUE, FALSE)
               \/ Fills(st, t, w) /\ Access(cache, op, addr) = Given(op, a, w, t, FALSE, FALSE)
               \/ Evicts(st, s, t, w) /\ Access(cache, op, addr) = Given(op, a, w, t, FALSE, TRUE)
  OBVIOUS
<1>1. Access(cache, op, addr) = Given(op, a, v, t, hit, evicts)
  BY DEF Access, Given
<1>2. st \in [Ways -> Block] /\ options \in OptionSets /\ cache.counts \in Nat
  BY DEF CacheType
<1>3. /\ Len(s) \in Nat /\ s \in [1..Len(s) -> Ways]
      /\ \A p, q \in 1..Len(s) : p < q <=> st[s[p]].LRUCounter < st[s[q]].LRUCounter
  BY <1>2, AgesOnce
<1>4. /\ \A w \in Ways : st[w].valid <=> \E n \in 1..Len(s) : s[n] = w
      /\ \A w, u \in Ways : u < w /\ st[w].valid => st[u].valid
  BY DEF Ages, SetOK
<1>5. Ways \subseteq Nat /\ 0 \in Ways /\ \A w \in Ways : st[w].LRUCounter \in Nat /\ st[w].valid \in BOOLEAN
  BY <1>2, OptionAssumption DEF Ways, Block
<1> HIDE DEF a, st, t
<1>6. CASE stops # {}
  <2>1. v \in stops /\ \A u \in stops : v <= u
    <3>1. stops \subseteq Ways
      OBVIOUS
    <3> HIDE DEF stops
    <3> QED BY <1>2, <1>6, <3>1, FirstOf
  <2> HIDE DEF v
  <2>2. v \in Ways /\ (~st[v].valid \/ st[v].tag = t) /\ \A u \in Ways : ~st[u].valid \/ st[u].tag = t => v <= u
    BY <2>1
  <2>3. CASE st[v].valid
    <3>1. Hits(st, s, t, v)
      BY <1>4, <2>2, <2>3 DEF Hits
    <3>2. hit = TRUE /\ evicts = FALSE
      BY <1>6, <2>3
    <3> HIDE DEF hit, evicts
    <3> QED BY <1>1, <2>2, <3>1, <3>2
  <2>4. CASE ~st[v].valid
    <3>1. ASSUME NEW u \in Ways, u < v PROVE st[u].valid
      BY <1>5, <2>2, <3>1
    <3>2. ASSUME NEW w \in Ways, st[w].valid, st[w].tag = t PROVE FALSE
      <4>1. v <= w /\ v # w
        BY <2>2, <2>4, <3>2
      <4>2. v < w
        BY <1>5, <2>2, <4>1
      <4> QED BY <1>4, <2>2, <2>4, <3>2, <4>2
    <3>3. Fills(st, t, v)
      BY <2>4, <3>1, <3>2 DEF Fills, Misses
    <3>4. hit = FALSE /\ evicts = FALSE
      BY <1>6, <2>4
    <3> HIDE DEF hit, evicts
    <3> QED BY <1>1, <2>2, <3>3, <3>4
  <2> QED BY <2>3, <2>4
<1>7. CASE stops = {}
  <2>1. \A w \in Ways : st[w].valid /\ st[w].tag # t
    BY <1>7
  <2>2. 1 \in 1..Len(s) /\ s[1] \in Ways
    <3>1. PICK n \in 1..Len(s) : s[n] = 0
      BY <1>4, <1>5, <2>1
    <3>2. 1 \in 1..Len(s)
      BY <1>3, <3>1
    <3> QED BY <1>3, <3>2
  <2>3. \A n \in 1..Len(s) : n = 1 \/ 1 < n
    BY <1>3
  <2>4. ASSUME NEW u \in Ways PROVE u = s[1] \/ st[s[1]].LRUCounter < st[u].LRUCounter
    <3>1. PICK n \in 1..Len(s) : s[n] = u
      BY <1>4, <2>1
    <3>2. n = 1 \/ 1 < n
      BY <2>3
    <3> QED BY <1>3, <2>2, <3>1, <3>2
  <2>5. least = {s[1]}
    <3> DEFINE e == s[1]
               Age(u) == st[u].LRUCounter
    <3>1. e \in Ways /\ (\A u \in Ways : Age(u) \in Nat) /\ \A u \in Ways : u = e \/ Age(e) < Age(u)
      BY <1>5, <2>2, <2>4
    <3>2. least = {w \in Ways : \A u \in Ways : Age(w) <= Age(u)}
      OBVIOUS
    <3> HIDE DEF e, Age, least
    <3>3. e \in least
      BY <3>1, <3>2
    <3>4. ASSUME NEW w \in least PROVE w = e
      <4>1. w \in Ways /\ Age(w) <= Age(e)
        BY <3>1, <3>2
      <4> QED BY <3>1, <4>1
    <3>5. least = {e}
      BY <3>3, <3>4
    <3> QED BY <3>5 DEF e
  <2>6. v = Stop(least)
    BY <1>7
  <2>7. v = s[1]
    <3>1. least \subseteq Ways /\ least # {}
      BY <2>2, <2>5
    <3> HIDE DEF least
    <3>2. Stop(least) \in least
      BY <1>2, <3>1, FirstOf
    <3> HIDE DEF Stop, v
    <3> QED BY <2>5, <2>6, <3>2
  <2>8. hit = FALSE /\ evicts = TRUE
    BY <1>7
  <2> HIDE DEF v, hit, evicts
  <2>9. Evicts(st, s, t, v)
    BY <2>1, <2>2, <2>7 DEF Evicts, Misses
  <2> QED BY <1>1, <2>2, <2>7, <2>8, <2>9
<1> QED BY <1>6, <1>7 DEF a, st, t

-----------------------------------------------------------------------------
(* The simulator's invariant.                                              *)

\* A set that is not touched stays in order while time goes on.
LEMMA LaterOK ==
  ASSUME options \in OptionSets, NEW st \in [Ways -> Block], NEW c \in Nat, SetOK(st, c)
  PROVE  SetOK(st, c + 1)
<1>1. PICK s : Ages(st, s, c)
  BY DEF SetOK
<1>2. s \in [1..Len(s) -> Ways]
  BY <1>1, AgesOnce
<1>3. ASSUME NEW n \in 1..Len(s) PROVE st[s[n]].LRUCounter < c + 1
  <2>1. st[s[n]].LRUCounter \in Nat /\ st[s[n]].LRUCounter < c
    BY <1>1, <1>2 DEF Ages, Block
  <2> QED BY <2>1
<1>4. Ages(st, s, c + 1)
  BY <1>1, <1>3 DEF Ages
<1> QED BY <1>4 DEF SetOK

\* The set that is accessed stays in order.
LEMMA StampedOK ==
  ASSUME options \in OptionSets, NEW st \in [Ways -> Block], NEW c \in Nat, SetOK(st, c),
         NEW s, Ages(st, s, c), NEW t \in Int, NEW v \in Ways,
         Hits(st, s, t, v) \/ Fills(st, t, v) \/ Evicts(st, s, t, v)
  PROVE  Stamped(st, v, t, c) \in [Ways -> Block] /\ SetOK(Stamped(st, v, t, c), c + 1)
<1> DEFINE st2 == Stamped(st, v, t, c)
<1>1. /\ st2 \in [Ways -> Block]
      /\ st2[v].valid = TRUE /\ st2[v].tag = t
      /\ \A w \in Ways \ {v} : st2[w] = st[w]
  BY DEF Stamped, Block
<1>2. \A u, w \in Ways : u < w /\ st[w].valid => st[u].valid
  BY DEF SetOK
<1>3. \A u, w \in Ways : st[u].valid /\ st[w].valid /\ st[u].tag = st[w].tag => u = w
  BY DEF SetOK
<1>4. \E r : Ages(st2, r, c + 1)
  <2>1. ASSUME NEW p \in 1..Len(s), v = s[p] PROVE Ages(st2, Append(Cut(s, p), v), c + 1)
    BY <2>1, Renew
  <2>2. ASSUME ~st[v].valid PROVE Ages(st2, Append(s, v), c + 1)
    BY <2>2, Fill
  <2> QED BY <2>1, <2>2 DEF Hits, Fills, Evicts
<1>5. /\ st[v].valid \/ \A u \in Ways : u < v => st[u].valid
      /\ \A w \in Ways \ {v} : st[w].valid => st[w].tag # t
  <2>1. CASE Hits(st, s, t, v)
    <3>1. st[v].valid /\ st[v].tag = t
      BY <2>1 DEF Hits, Ages
    <3> QED BY <1>3, <3>1
  <2>2. CASE Fills(st, t, v)
    BY <2>2 DEF Fills, Misses
  <2>3. CASE Evicts(st, s, t, v)
    BY <2>3 DEF Evicts, Misses
  <2> QED BY <2>1, <2>2, <2>3
<1> HIDE DEF st2
<1>6. ASSUME NEW u \in Ways, NEW w \in Ways, u < w, st2[w].valid PROVE st2[u].valid
  <2>1. CASE u = v
    BY <1>1, <2>1
  <2>2. CASE u # v
    <3>1. st[u].valid
      BY <1>1, <1>2, <1>5, <1>6
    <3> QED BY <1>1, <2>2, <3>1
  <2> QED BY <2>1, <2>2
<1>7. ASSUME NEW u \in Ways, NEW w \in Ways, st2[u].valid, st2[w].valid, st2[u].tag = st2[w].tag
      PROVE  u = w
  <2>1. CASE u = v
    BY <1>1, <1>5, <1>7, <2>1
  <2>2. CASE w = v
    BY <1>1, <1>5, <1>7, <2>2
  <2>3. CASE u # v /\ w # v
    BY <1>1, <1>3, <1>7, <2>3
  <2> QED BY <2>1, <2>2, <2>3
<1>8. SetOK(st2, c + 1)
  BY <1>4, <1>6, <1>7 DEF SetOK
<1> QED BY <1>1, <1>8 DEF st2

\* The masks keep an address within the cache.
LEMMA IndexIs ==
  ASSUME options \in OptionSets, NEW addr \in Addresses
  PROVE  SetIndex(addr) \in Sets /\ TagOf(addr) \in Nat
<1> DEFINE b == 2^options.blocks
           e == 2^options.sets
           be == 2^(options.sets + options.blocks)
<1>1. b \in Nat \ {0} /\ e \in Nat \ {0} /\ be = e * b
  BY OptionAssumption
<1>2. addr \in Nat
  BY AddressAssumption
<1>3. SetIndex(addr) = (addr \div b) % e /\ TagOf(addr) = (addr \div be) % be /\ Sets = 0..(e - 1)
  BY DEF SetIndex, TagOf, Sets
<1> HIDE DEF b, e, be
<1>4. be \in Nat \ {0}
  BY <1>1
<1>5. addr \div b \in Nat /\ addr \div be \in Nat
  BY <1>1, <1>2, <1>4
<1>6. (addr \div b) % e \in 0..(e - 1)
  BY <1>1, <1>5
<1>7. (addr \div be) % be \in Nat
  BY <1>4, <1>5
<1> QED BY <1>3, <1>6, <1>7

\* What an access changes of the simulator's state.
LEMMA GivenFields ==
  ASSUME CacheType, NEW op, NEW a \in Sets, NEW v \in Ways, NEW t, NEW hit, NEW evicts
  PROVE  LET C == Given(op, a, v, t, hit, evicts)
         IN  /\ C.sets = [cache.sets EXCEPT ![a] = Stamped(cache.sets[a], v, t, cache.counts)]
             /\ C.counts = cache.counts + 1
             /\ C.globalHits = cache.globalHits + (IF hit THEN 1 ELSE 0) + Again(op)
             /\ C.globalMiss = cache.globalMiss + (IF hit THEN 0 ELSE 1)
             /\ C.globalEvictions = cache.globalEvictions + (IF evicts THEN 1 ELSE 0)
             /\ \A S : C.sets \in S => C \in [sets : S, counts : Nat, globalHits : Nat,
                                             globalMiss : Nat, globalEvictions : Nat]
<1> DEFINE b == [valid |-> TRUE, tag |-> t, LRUCounter |-> cache.counts]
           T == [Sets -> [Ways -> Block]]
           e == [cache.sets EXCEPT ![a][v] = b]
           n == cache.counts + 1
           h == cache.globalHits + (IF hit THEN 1 ELSE 0) + Again(op)
           m == cache.globalMiss + (IF hit THEN 0 ELSE 1)
           l == cache.globalEvictions + (IF evicts THEN 1 ELSE 0)
           C == Given(op, a, v, t, hit, evicts)
<1>1. cache \in [sets : T, counts : Nat, globalHits : Nat, globalMiss : Nat, globalEvictions : Nat]
  BY DEF CacheType
<1>2. C = [cache EXCEPT !.sets = e, !.counts = n, !.globalHits = h, !.globalMiss = m, !.globalEvictions = l]
  BY DEF Given
<1>3. e = [cache.sets EXCEPT ![a] = Stamped(cache.sets[a], v, t, cache.counts)]
  BY DEF Stamped
<1>4. n \in Nat /\ h \in Nat /\ m \in Nat /\ l \in Nat
  BY <1>1 DEF Again
<1> HIDE DEF T, e, n, h, m, l, C
<1>5. C = [sets |-> e, counts |-> n, globalHits |-> h, globalMiss |-> m, globalEvictions |-> l]
  BY ONLY <1>1, <1>2
<1> QED BY <1>3, <1>4, <1>5 DEF C, n, h, m, l

\* What a line of data does to the simulator, in terms of one block of one set.
Accesses(op, addr, s, v) ==
  LET a  == SetIndex(addr)
      st == cache.sets[a]
      t  == TagOf(addr)
  IN  /\ Ages(st, s, cache.counts) /\ v \in Ways
      /\ cache'.sets = [cache.sets EXCEPT ![a] = Stamped(st, v, t, cache.counts)]
      /\ cache'.counts = cache.counts + 1
      /\ \/ /\ Hits(st, s, t, v)
            /\ cache'.globalHits = cache.globalHits + 1 + Again(op)
            /\ cache'.globalMiss = cache.globalMiss + 0
            /\ cache'.globalEvictions = cache.globalEvictions + 0
         \/ /\ Fills(st, t, v)
            /\ cache'.globalHits = cache.globalHits + 0 + Again(op)
            /\ cache'.globalMiss = cache.globalMiss + 1
            /\ cache'.globalEvictions = cache.globalEvictions + 0
         \/ /\ Evicts(st, s, t, v)
            /\ cache'.globalHits = cache.globalHits + 0 + Again(op)
            /\ cache'.globalMiss = cache.globalMiss + 1
            /\ cache'.globalEvictions = cache.globalEvictions + 1

\* A line of data keeps the invariant, and gives one block of its set to its tag.
LEMMA LineIs ==
  ASSUME CacheOK, NEW op, NEW addr \in Addresses, Line(op, addr)
  PROVE  CacheOK' /\ \E s, v : Accesses(op, addr, s, v)
<1> DEFINE a  == SetIndex(addr)
           st == cache.sets[a]
           t  == TagOf(addr)
           c  == cache.counts
<1>1. /\ CacheType /\ options \in OptionSets /\ a \in Sets /\ t \in Nat
      /\ st \in [Ways -> Block] /\ c \in Nat /\ SetOK(st, c)
  BY IndexIs DEF CacheOK, CacheType
<1>2. PICK s : Ages(st, s, c)
  BY <1>1 DEF SetOK
<1>3. cache' = Access(cache, op, addr) /\ options' = options
  BY DEF Line
<1>4. PICK v \in Ways :
        \/ Hits(st, s, t, v) /\ Access(cache, op, addr) = Given(op, a, v, t, TRUE, FALSE)
        \/ Fills(st, t, v) /\ Access(cache, op, addr) = Given(op, a, v, t, FALSE, FALSE)
        \/ Evicts(st, s, t, v) /\ Access(cache, op, addr) = Given(op, a, v, t, FALSE, TRUE)
  BY <1>1, <1>2, AccessIs
<1> HIDE DEF a, st, t, c
<1>5. PICK hit \in BOOLEAN, evicts \in BOOLEAN :
        /\ cache' = Given(op, a, v, t, hit, evicts)
        /\ \/ Hits(st, s, t, v) /\ hit = TRUE /\ evicts = FALSE
           \/ Fills(st, t, v) /\ hit = FALSE /\ evicts = FALSE
           \/ Evicts(st, s, t, v) /\ hit = FALSE /\ evicts = TRUE
  BY <1>3, <1>4
<1>6. /\ cache'.sets = [cache.sets EXCEPT ![a] = Stamped(st, v, t, c)]
      /\ cache'.counts = c + 1
      /\ cache'.globalHits = cache.globalHits + (IF hit THEN 1 ELSE 0) + Again(op)
      /\ cache'.globalMiss = cache.globalMiss + (IF hit THEN 0 ELSE 1)
      /\ cache'.globalEvictions = cache.globalEvictions + (IF evicts THEN 1 ELSE 0)
      /\ \A S : cache'.sets \in S => cache' \in [sets : S, counts : Nat, globalHits : Nat,
                                                 globalMiss : Nat, globalEvictions : Nat]
  <2> DEFINE C == Given(op, a, v, t, hit, evicts)
  <2>1. /\ C.sets = [cache.sets EXCEPT ![a] = Stamped(cache.sets[a], v, t, cache.counts)]
        /\ C.counts = cache.counts + 1
        /\ C.globalHits = cache.globalHits + (IF hit THEN 1 ELSE 0) + Again(op)
        /\ C.globalMiss = cache.globalMiss + (IF hit THEN 0 ELSE 1)
        /\ C.globalEvictions = cache.globalEvictions + (IF evicts THEN 1 ELSE 0)
        /\ \A S : C.sets \in S => C \in [sets : S, counts : Nat, globalHits : Nat,
                                        globalMiss : Nat, globalEvictions : Nat]
    BY <1>1, GivenFields
  <2>2. cache' = C
    BY <1>5
  <2> HIDE DEF C
  <2> QED BY <2>1, <2>2 DEF st, c
<1>7. Stamped(st, v, t, c) \in [Ways -> Block] /\ SetOK(Stamped(st, v, t, c), c + 1)
  BY <1>1, <1>2, <1>5, StampedOK
<1>8. cache.sets \in [Sets -> [Ways -> Block]]
  BY <1>1 DEF CacheType
<1>9. cache'.sets \in [Sets -> [Ways -> Block]]
  BY <1>6, <1>7, <1>8
<1>10. ASSUME NEW i0 \in Sets PROVE SetOK(cache'.sets[i0], c + 1)
  <2>1. CASE i0 = a
    BY <1>6, <1>7, <1>8, <2>1
  <2>2. CASE i0 # a
    <3>1. cache'.sets[i0] = cache.sets[i0] /\ cache.sets[i0] \in [Ways -> Block]
      BY <1>6, <1>8, <2>2
    <3>2. SetOK(cache.sets[i0], c)
      BY DEF CacheOK, c
    <3> QED BY <1>1, <3>1, <3>2, LaterOK
  <2> QED BY <2>1, <2>2
<1>11. Sets' = Sets /\ Ways' = Ways /\ Block' = Block
  BY <1>3 DEF Sets, Ways, Block
<1>12. CacheType'
  BY <1>1, <1>3, <1>6, <1>9, <1>11 DEF CacheType
<1>13. CacheOK'
  BY <1>6, <1>10, <1>11, <1>12 DEF CacheOK, SetOK, Ages
<1>14. Accesses(op, addr, s, v)
  <2>1. CASE Hits(st, s, t, v) /\ hit = TRUE /\ evicts = FALSE
    BY <1>2, <1>6, <2>1 DEF Accesses, a, st, t, c
  <2>2. CASE Fills(st, t, v) /\ hit = FALSE /\ evicts = FALSE
    BY <1>2, <1>6, <2>2 DEF Accesses, a, st, t, c
  <2>3. CASE Evicts(st, s, t, v) /\ hit = FALSE /\ evicts = TRUE
    BY <1>2, <1>6, <2>3 DEF Accesses, a, st, t, c
  <2> QED BY <1>5, <2>1, <2>2, <2>3
<1> QED BY <1>13, <1>14

\* An empty cache is in order.
LEMMA EmptyOK ==
  ASSUME NEW opt \in OptionSets, Start(opt)
  PROVE  CacheOK
<1>1. options = opt /\ cache = EmptyCache(opt)
  BY DEF Start
<1>2. cache.sets = [a \in Sets |-> [w \in Ways |-> [valid |-> FALSE, tag |-> -1, LRUCounter |-> 0]]]
  BY <1>1 DEF EmptyCache, Sets, Ways
<1>3. [valid |-> FALSE, tag |-> -1, LRUCounter |-> 0] \in Block
  BY DEF Block
<1>4. cache.sets \in [Sets -> [Ways -> Block]]
  BY <1>2, <1>3
<1>5. CacheType
  BY <1>1, <1>4 DEF CacheType, EmptyCache
<1>6. ASSUME NEW a \in Sets PROVE SetOK(cache.sets[a], cache.counts)
  <2>1. \A w \in Ways : ~cache.sets[a][w].valid
    BY <1>2
  <2>2. Ages(cache.sets[a], <<>>, cache.counts)
    BY <2>1 DEF Ages
  <2> QED BY <2>1, <2>2 DEF SetOK
<1> QED BY <1>5, <1>6 DEF CacheOK

\* What does not read data leaves the cache as it is.
LEMMA SameOK ==
  ASSUME CacheOK, UNCHANGED <<options, cache>>
  PROVE  CacheOK'
BY DEF CacheOK, CacheType, SetOK, Ages, Sets, Ways, Block

\* Reading a trace keeps the simulator's invariant.
LEMMA ReadingStep ==
  ASSUME Reading, [Next]_<<vars, transVars>>
  PROVE  Reading'
<1> SUFFICES ASSUME shape' = NoMatrix PROVE CacheOK'
  BY DEF Reading, NoMatrix
<1>1. shape = NoMatrix
  BY DEF Next, NextRow, Returned, transVars
<1>2. CacheOK
  BY <1>1 DEF Reading
<1>3. CASE \E op \in Operations, addr \in Addresses : Line(op, addr)
  BY <1>2, <1>3, LineIs
<1>4. CASE UNCHANGED <<options, cache>>
  BY <1>2, <1>4, SameOK
<1> QED BY <1>1, <1>3, <1>4
        DEF Next, NextRow, Returned, ReadFile, Instruction, EndOfFile, LastLine, vars

-----------------------------------------------------------------------------
(* What LruSim makes of it.                                                *)

\* The blocks of a set, one for each of its valid blocks.
LEMMA BlocksSeq ==
  ASSUME options \in OptionSets, NEW st \in [Ways -> Block], NEW s \in Seq(Ways), NEW a \in Nat
  PROVE  /\ Blocks(st, a, s) \in Seq(Int) /\ Len(Blocks(st, a, s)) = Len(s) /\ Len(s) \in Nat
         /\ DOMAIN Blocks(st, a, s) = 1..Len(s)
         /\ \A n \in 1..Len(s) : Blocks(st, a, s)[n] = Number(st[s[n]].tag, a)
<1>1. Len(s) \in Nat /\ \A n \in 1..Len(s) : s[n] \in Ways
  OBVIOUS
<1>2. \A n \in 1..Len(s) : Number(st[s[n]].tag, a) \in Int
  <2>1. 2^options.sets \in Int
    BY OptionAssumption
  <2>2. \A n \in 1..Len(s) : st[s[n]].tag \in Int
    BY <1>1 DEF Block
  <2> QED BY <2>1, <2>2 DEF Number
<1>3. Blocks(st, a, s) \in [1..Len(s) -> Int]
  BY <1>2 DEF Blocks
<1> QED BY <1>1, <1>3 DEF Blocks

\* A block that is filled is added as the newest.
LEMMA BlocksFill ==
  ASSUME options \in OptionSets, NEW st \in [Ways -> Block], NEW s \in Seq(Ways), NEW a \in Nat,
         NEW v \in Ways, \A n \in 1..Len(s) : s[n] # v, NEW t \in Int, NEW c \in Nat
  PROVE  Blocks(Stamped(st, v, t, c), a, Append(s, v))
           = Append(Blocks(st, a, s), Number(t, a))
<1> DEFINE st2 == Stamped(st, v, t, c)
           Z == Len(s)
           r == Append(s, v)
           e == Number(t, a)
           q == Append(Blocks(st, a, s), e)
<1>1. /\ st2 \in [Ways -> Block] /\ st2[v].tag = t
      /\ \A w \in Ways \ {v} : st2[w] = st[w]
  BY DEF Stamped, Block
<1>2. Z \in Nat /\ r \in Seq(Ways) /\ Len(r) = Z + 1 /\ r[Z + 1] = v /\ \A n \in 1..Z : r[n] = s[n] /\ s[n] \in Ways
  OBVIOUS
<1>3. e \in Int
  BY OptionAssumption DEF Number
<1>4. /\ Blocks(st, a, s) \in Seq(Int) /\ Len(Blocks(st, a, s)) = Z
      /\ \A n \in 1..Z : Blocks(st, a, s)[n] = Number(st[s[n]].tag, a)
  BY BlocksSeq
<1> HIDE DEF st2, r, e, Z
<1>5. q \in Seq(Int) /\ Len(q) = Z + 1 /\ q[Z + 1] = e /\ \A n \in 1..Z : q[n] = Blocks(st, a, s)[n]
  BY <1>2, <1>3, <1>4
<1>6. /\ Blocks(st2, a, r) \in Seq(Int) /\ Len(Blocks(st2, a, r)) = Z + 1
      /\ \A n \in 1..(Z + 1) : Blocks(st2, a, r)[n] = Number(st2[r[n]].tag, a)
  <2>1. st2 \in [Ways -> Block] /\ r \in Seq(Ways)
    BY <1>1, <1>2
  <2>2. /\ Blocks(st2, a, r) \in Seq(Int) /\ Len(Blocks(st2, a, r)) = Len(r)
        /\ \A n \in 1..Len(r) : Blocks(st2, a, r)[n] = Number(st2[r[n]].tag, a)
    BY <2>1, BlocksSeq
  <2> QED BY <1>2, <2>2
<1> HIDE DEF q
<1>7. ASSUME NEW n \in 1..(Z + 1) PROVE Blocks(st2, a, r)[n] = q[n]
  <2>1. CASE n = Z + 1
    BY <1>1, <1>2, <1>5, <1>6, <2>1 DEF e
  <2>2. CASE n # Z + 1
    <3>1. n \in 1..Z
      BY <1>2, <2>2
    <3>2. st2[r[n]] = st[s[n]]
      BY <1>1, <1>2, <3>1 DEF Z
    <3> QED BY <1>4, <1>5, <1>6, <3>1, <3>2
  <2> QED BY <2>1, <2>2
<1>8. Blocks(st2, a, r) = q
  BY <1>5, <1>6, <1>7, SameSeq
<1> QED BY <1>8 DEF st2, r, q, e

\* A block that is renewed, or given to another tag, goes to the end.
LEMMA BlocksRenew ==
  ASSUME options \in OptionSets, NEW st \in [Ways -> Block], NEW s \in Seq(Ways), NEW a \in Nat,
         NEW p \in 1..Len(s), \A m, n \in 1..Len(s) : s[m] = s[n] => m = n,
         NEW t \in Int, NEW c \in Nat
  PROVE  Blocks(Stamped(st, s[p], t, c), a, Append(Cut(s, p), s[p]))
           = Append(Cut(Blocks(st, a, s), p), Number(t, a))
<1> DEFINE v == s[p]
           s2 == Cut(s, p)
           q == Blocks(st, a, s)
           Z == Len(s)
<1>1. Z \in Nat /\ p \in 1..Z /\ v \in Ways /\ \A n \in 1..Z : s[n] \in Ways
  OBVIOUS
<1>2. s2 \in [1..(Z - 1) -> Ways]
  BY <1>1 DEF Cut
<1>3. s2 \in Seq(Ways) /\ Len(s2) = Z - 1 /\ \A n \in 1..(Z - 1) : s2[n] = IF n < p THEN s[n] ELSE s[n + 1]
  BY <1>1, <1>2 DEF Cut
<1>4. \A n \in 1..Len(s2) : s2[n] # v
  BY <1>1, <1>3
<1> HIDE DEF s2
<1>5. Blocks(Stamped(st, v, t, c), a, Append(s2, v)) = Append(Blocks(st, a, s2), Number(t, a))
  <2>1. s2 \in Seq(Ways) /\ v \in Ways
    BY <1>1, <1>3
  <2> HIDE DEF v
  <2> QED BY <1>4, <2>1, BlocksFill
<1>6. Blocks(st, a, s2) = Cut(q, p)
  <2>1. /\ q \in Seq(Int) /\ Len(q) = Z
        /\ \A n \in 1..Z : q[n] = Number(st[s[n]].tag, a)
    BY BlocksSeq
  <2>2. /\ Blocks(st, a, s2) \in Seq(Int) /\ Len(Blocks(st, a, s2)) = Z - 1
        /\ \A n \in 1..(Z - 1) : Blocks(st, a, s2)[n] = Number(st[s2[n]].tag, a)
    <3>1. /\ Blocks(st, a, s2) \in Seq(Int) /\ Len(Blocks(st, a, s2)) = Len(s2)
          /\ \A n \in 1..Len(s2) : Blocks(st, a, s2)[n] = Number(st[s2[n]].tag, a)
      BY <1>3, BlocksSeq
    <3> QED BY <1>3, <3>1
  <2> HIDE DEF q, Z
  <2>3. Cut(q, p) \in Seq(Int) /\ Len(Cut(q, p)) = Z - 1
        /\ \A n \in 1..(Z - 1) : Cut(q, p)[n] = IF n < p THEN q[n] ELSE q[n + 1]
    <3>1. Cut(q, p) \in [1..(Z - 1) -> Int]
      BY <1>1, <2>1 DEF Cut
    <3> QED BY <1>1, <2>1, <3>1 DEF Cut
  <2>4. \A n \in 1..(Z - 1) : n \in 1..Z /\ n + 1 \in 1..Z
    BY <1>1
  <2>5. ASSUME NEW n \in 1..(Z - 1) PROVE Blocks(st, a, s2)[n] = Cut(q, p)[n]
    <3> DEFINE m == IF n < p THEN n ELSE n + 1
    <3>1. m \in 1..Z /\ s2[n] = s[m] /\ Cut(q, p)[n] = q[m]
      BY <1>3, <2>3, <2>4
    <3> HIDE DEF m
    <3>2. q[m] = Number(st[s[m]].tag, a)
      BY <2>1, <3>1
    <3>3. Blocks(st, a, s2)[n] = Number(st[s2[n]].tag, a)
      BY <2>2
    <3> QED BY <3>1, <3>2, <3>3
  <2> QED BY <2>2, <2>3, <2>5, SameSeq
<1> QED BY <1>5, <1>6 DEF s2

\* With a whole tag, the blocks of a set are numbered as they are in memory.
LEMMA BlockIs ==
  ASSUME TagsWhole, options \in OptionSets, NEW addr \in Addresses
  PROVE  /\ Lru!BlockOf(addr) = Number(TagOf(addr), SetIndex(addr))
         /\ Lru!SetOf(addr) = SetIndex(addr)
<1> DEFINE b == 2^options.blocks
           e == 2^options.sets
           be == 2^(options.sets + options.blocks)
           y == addr \div b
<1>1. b \in Nat \ {0} /\ e \in Nat \ {0} /\ be = b * e
  BY OptionAssumption
<1>2. addr \in Nat /\ addr \div be < be
  BY AddressAssumption DEF TagsWhole
<1>3. SetIndex(addr) = y % e /\ TagOf(addr) = (addr \div be) % be
  BY DEF SetIndex, TagOf
<1>4. Lru!BlockOf(addr) = y /\ Lru!SetOf(addr) = y % e
  BY DEF Lru!BlockOf, Lru!SetOf
<1> HIDE DEF b, e, be
<1>5. be \in Nat \ {0}
  BY <1>1
<1>6. addr \div be \in Nat
  BY <1>2, <1>5
<1>7. (addr \div be) % be = addr \div be
  BY <1>2, <1>5, <1>6
<1>8. addr \div be = y \div e
  BY <1>1, <1>2
<1>9. y \in Nat
  BY <1>1, <1>2
<1> HIDE DEF y
<1>10. y = (y \div e) * e + (y % e)
  BY <1>1, <1>9
<1> QED BY <1>3, <1>4, <1>7, <1>8, <1>10 DEF Number, e

\* Two blocks of a set have one number only if they have one tag.
LEMMA NumbersApart ==
  ASSUME options \in OptionSets, NEW t \in Int, NEW u \in Int, NEW a \in Nat,
         Number(t, a) = Number(u, a)
  PROVE  t = u
<1> DEFINE e == 2^options.sets
<1>1. e \in Nat \ {0} /\ t * e + a = u * e + a
  BY OptionAssumption DEF Number
<1> HIDE DEF e
<1>2. (t - u) * e = 0
  BY <1>1
<1>3. t - u \in Int /\ (t - u = 0 \/ t - u >= 1 \/ t - u <= -1)
  OBVIOUS
<1> QED BY <1>1, <1>2, <1>3

\* A set is full when all its blocks are valid.
LEMMA FullIs ==
  ASSUME options \in OptionSets, NEW st \in [Ways -> Block], NEW s, NEW c \in Nat, Ages(st, s, c)
  PROVE  Len(s) = options.associativity <=> \A w \in Ways : st[w].valid
<1> DEFINE valid == {w \in Ways : st[w].valid}
<1>1. options.associativity \in Nat \ {0}
  BY OptionAssumption
<1>2. IsFiniteSet(Ways) /\ Cardinality(Ways) = options.associativity
  <2> DEFINE m == options.associativity - 1
  <2>1. 0 \in Int /\ m \in Int /\ ~(0 > m) /\ m - 0 + 1 = options.associativity
    BY <1>1
  <2>2. Ways = 0..m
    BY DEF Ways
  <2> HIDE DEF m
  <2> QED BY <2>1, <2>2, FS_Interval
<1>3. Cardinality(valid) = Len(s)
  BY RankIs
<1>4. valid \in SUBSET Ways
  OBVIOUS
<1>5. valid = Ways <=> \A w \in Ways : st[w].valid
  OBVIOUS
<1> HIDE DEF valid
<1>6. Cardinality(Ways) = Cardinality(valid) <=> valid = Ways
  BY <1>2, <1>4, FS_Subset
<1> QED BY <1>2, <1>3, <1>5, <1>6

\* What LruSim sees in a set.
LEMMA HeldIs ==
  CacheOK => /\ DOMAIN cache.sets = Sets
             /\ \A a \in Sets : \A s : Ages(cache.sets[a], s, cache.counts) =>
                  ByAge(a) = Blocks(cache.sets[a], a, s)
BY ByAgeIs DEF CacheOK, CacheType

\* And after a step.
LEMMA HeldNext ==
  (CacheOK => /\ DOMAIN cache.sets = Sets
              /\ \A a \in Sets : \A s : Ages(cache.sets[a], s, cache.counts) =>
                   ByAge(a) = Blocks(cache.sets[a], a, s))'
BY HeldIs, PTL

\* The end of a sequence without its first element.
LEMMA TailIs ==
  ASSUME NEW E, NEW q \in Seq(E), 1 \in 1..Len(q)
  PROVE  Tail(q) = Cut(q, 1)
<1>1. Len(q) \in Nat /\ q # <<>> /\ \A n \in 1..Len(q) : q[n] \in E
  OBVIOUS
<1>2. Tail(q) \in Seq(E) /\ Len(Tail(q)) = Len(q) - 1 /\ \A n \in 1..(Len(q) - 1) : Tail(q)[n] = q[n + 1]
  BY <1>1
<1>3. Cut(q, 1) \in [1..(Len(q) - 1) -> E] /\ \A n \in 1..(Len(q) - 1) : Cut(q, 1)[n] = q[n + 1]
  BY <1>1 DEF Cut
<1>4. Cut(q, 1) \in Seq(E) /\ Len(Cut(q, 1)) = Len(q) - 1
  BY <1>1, <1>3
<1> QED BY <1>1, <1>2, <1>3, <1>4, SameSeq

\* The number x that a set's sequence q has in one place only, taken out.
LEMMA WithoutIs ==
  ASSUME NEW E, NEW q \in Seq(E), NEW p \in 1..Len(q), \A n \in 1..Len(q) : q[n] = q[p] => n = p
  PROVE  Lru!Without(q, q[p]) = Cut(q, p)
<1>1. (CHOOSE n \in DOMAIN q : q[n] = q[p]) = p
  OBVIOUS
<1>2. Lru!Without(q, q[p]) = Lru!RemoveAt(q, p)
  BY <1>1 DEF Lru!Without
<1> QED BY <1>2, TakeOut DEF Lru!RemoveAt, Cut

\* A line of data is an access to LruSim's cache.
LEMMA LineAccess ==
  ASSUME TagsWhole, CacheOK, NEW op, NEW addr \in Addresses, Line(op, addr)
  PROVE  Lru!Access(addr, op = "M")
<1> DEFINE a  == SetIndex(addr)
           st == cache.sets[a]
           t  == TagOf(addr)
           c  == cache.counts
           H  == [i0 \in DOMAIN cache.sets |-> ByAge(i0)]
           e  == Number(t, a)
<1>1. /\ CacheType /\ options \in OptionSets /\ a \in Sets /\ a \in Nat /\ t \in Int
      /\ st \in [Ways -> Block] /\ c \in Nat /\ SetOK(st, c)
  <2>1. CacheType /\ options \in OptionSets /\ a \in Sets /\ t \in Nat
    BY IndexIs DEF CacheOK, CacheType
  <2>2. a \in Nat
    BY <2>1, OptionAssumption DEF Sets
  <2> QED BY <2>1, <2>2 DEF CacheOK, CacheType
<1>2. CacheOK' /\ options' = options
  BY LineIs DEF Line
<1>3. PICK s, v : Accesses(op, addr, s, v)
  BY LineIs
<1>4. /\ Ages(st, s, c) /\ v \in Ways
      /\ cache'.sets = [cache.sets EXCEPT ![a] = Stamped(st, v, t, c)]
      /\ cache'.counts = c + 1
  BY <1>3 DEF Accesses
<1>5. Lru!BlockOf(addr) = e /\ Lru!SetOf(addr) = a
  BY <1>1, BlockIs
<1> DEFINE st2 == Stamped(st, v, t, c)
           q == Blocks(st, a, s)
<1>6. cache.sets \in [Sets -> [Ways -> Block]] /\ cache'.sets[a] = st2
  BY <1>1, <1>4 DEF CacheType
<1>7. DOMAIN cache.sets = Sets /\ DOMAIN H = Sets /\ H[a] = q
  BY <1>1, <1>4, HeldIs
<1>8. /\ DOMAIN cache'.sets = Sets'
      /\ \A i0 \in Sets' : \A r : Ages(cache.sets[i0], r, cache.counts)' =>
           ByAge(i0)' = Blocks(cache.sets[i0], i0, r)'
  BY <1>2, HeldNext
<1>9. Sets' = Sets /\ Ways' = Ways
  BY <1>2 DEF Sets, Ways
<1>10. ASSUME NEW i0 \in Sets, NEW r, Ages(cache'.sets[i0], r, c + 1)
       PROVE  H'[i0] = Blocks(cache'.sets[i0], i0, r)
  <2>1. Ages(cache.sets[i0], r, cache.counts)'
    BY <1>4, <1>9, <1>10 DEF Ages
  <2>2. ByAge(i0)' = Blocks(cache.sets[i0], i0, r)'
    BY <1>8, <1>9, <2>1
  <2>3. Blocks(cache.sets[i0], i0, r)' = Blocks(cache'.sets[i0], i0, r)
    BY <1>2 DEF Blocks, Number
  <2> QED BY <1>8, <1>9, <2>2, <2>3
<1>11. \A r : Ages(st2, r, c + 1) => H'[a] = Blocks(st2, a, r)
  BY <1>1, <1>6, <1>10
<1>12. ASSUME NEW i0 \in Sets, i0 # a PROVE H'[i0] = H[i0]
  <2>1. cache'.sets[i0] = cache.sets[i0] /\ cache.sets[i0] \in [Ways -> Block]
    BY <1>4, <1>6, <1>12
  <2>2. PICK r : Ages(cache.sets[i0], r, c)
    BY DEF CacheOK, SetOK
  <2>3. H[i0] = Blocks(cache.sets[i0], i0, r)
    BY <1>7, <2>2, HeldIs
  <2>4. Ages(cache.sets[i0], r, c + 1)
    <3>1. r \in [1..Len(r) -> Ways]
      BY <1>1, <2>1, <2>2, AgesOnce
    <3>2. ASSUME NEW n \in 1..Len(r) PROVE cache.sets[i0][r[n]].LRUCounter < c + 1
      <4>1. cache.sets[i0][r[n]].LRUCounter \in Nat /\ cache.sets[i0][r[n]].LRUCounter < c
        BY <2>1, <2>2, <3>1 DEF Ages, Block
      <4> QED BY <1>1, <4>1
    <3> QED BY <2>2, <3>2 DEF Ages
  <2> QED BY <1>10, <2>1, <2>3, <2>4
<1>13. DOMAIN H' = Sets
  BY <1>8, <1>9
<1>14. /\ s \in Seq(Ways) /\ Len(s) \in Nat /\ s \in [1..Len(s) -> Ways]
       /\ \A m, n \in 1..Len(s) : s[m] = s[n] => m = n
       /\ \A n \in 1..Len(s) : st[s[n]].valid
       /\ \A w \in Ways : st[w].valid => \E n \in 1..Len(s) : s[n] = w
  <2>1. /\ Len(s) \in Nat /\ s \in [1..Len(s) -> Ways]
        /\ \A m, n \in 1..Len(s) : s[m] = s[n] => m = n
    BY <1>1, <1>4, AgesOnce
  <2>2. s \in Seq(Ways) /\ \A w \in Ways : st[w].valid <=> \E n \in 1..Len(s) : s[n] = w
    BY <1>4 DEF Ages
  <2> QED BY <2>1, <2>2
<1>15. /\ q \in Seq(Int) /\ Len(q) = Len(s) /\ DOMAIN q = 1..Len(s)
       /\ \A n \in 1..Len(s) : q[n] = Number(st[s[n]].tag, a)
  BY <1>1, <1>14, BlocksSeq
<1>16. ASSUME NEW n \in 1..Len(s) PROVE q[n] = e <=> st[s[n]].tag = t
  <2>1. st[s[n]].tag \in Int
    BY <1>1, <1>14 DEF Block
  <2> QED BY <1>1, <1>15, <2>1, NumbersApart
<1>17. Len(s) = options.associativity <=> \A w \in Ways : st[w].valid
  BY <1>1, <1>4, FullIs
<1> DEFINE hit == \E n \in DOMAIN q : q[n] = e
           full == Len(q) = options.associativity
           next == IF hit THEN Append(Lru!Without(q, e), e)
                   ELSE IF full THEN Append(Tail(q), e) ELSE Append(q, e)
<1>18. /\ H'[a] = next
       /\ cache'.globalHits = cache.globalHits + (IF hit THEN 1 ELSE 0) + (IF op = "M" THEN 1 ELSE 0)
       /\ cache'.globalMiss = cache.globalMiss + (IF hit THEN 0 ELSE 1)
       /\ cache'.globalEvictions = cache.globalEvictions + (IF full /\ ~hit THEN 1 ELSE 0)
  <2>1. CASE /\ Hits(st, s, t, v)
             /\ cache'.globalHits = cache.globalHits + 1 + Again(op)
             /\ cache'.globalMiss = cache.globalMiss + 0
             /\ cache'.globalEvictions = cache.globalEvictions + 0
    <3>1. PICK p \in 1..Len(s) : v = s[p] /\ st[v].tag = t
      BY <2>1 DEF Hits
    <3>2. Ages(st2, Append(Cut(s, p), v), c + 1)
      BY <1>1, <1>4, <3>1, Renew
    <3>3. H'[a] = Append(Cut(q, p), e)
      <4>1. Blocks(st2, a, Append(Cut(s, p), v)) = Append(Cut(q, p), e)
        <5> HIDE DEF a, st, t, c
        <5>1. /\ options \in OptionSets /\ st \in [Ways -> Block] /\ s \in Seq(Ways) /\ a \in Nat
              /\ p \in 1..Len(s) /\ (\A m, n \in 1..Len(s) : s[m] = s[n] => m = n)
              /\ t \in Int /\ c \in Nat
          BY <1>1, <1>14, <3>1
        <5>2. Blocks(Stamped(st, s[p], t, c), a, Append(Cut(s, p), s[p]))
                = Append(Cut(Blocks(st, a, s), p), Number(t, a))
          BY ONLY <5>1, BlocksRenew
        <5> QED BY <3>1, <5>2
      <4> QED BY <1>11, <3>2, <4>1
    <3>4. q[p] = e /\ \A n \in 1..Len(q) : q[n] = q[p] => n = p
      <4>1. ASSUME NEW n \in 1..Len(s), q[n] = e PROVE n = p
        <5>1. s[n] \in Ways /\ st[s[n]].valid /\ st[s[n]].tag = t
          BY <1>14, <1>16, <4>1
        <5>2. s[p] \in Ways /\ st[s[p]].valid
          BY <1>14
        <5>3. s[n] = s[p]
          BY <1>1, <3>1, <5>1, <5>2 DEF SetOK
        <5> QED BY <1>14, <5>3
      <4>2. q[p] = e
        BY <1>16, <3>1
      <4> QED BY <1>15, <4>1, <4>2
    <3>5. Lru!Without(q, e) = Cut(q, p)
      <4>1. p \in 1..Len(q)
        BY <1>15
      <4> HIDE DEF q, e
      <4> QED BY <1>15, <3>4, <4>1, WithoutIs
    <3>6. hit = TRUE
      BY <1>15, <3>4
    <3> HIDE DEF hit, full, q, e, H
    <3> QED BY <2>1, <3>3, <3>5, <3>6 DEF Again, next
  <2>2. CASE /\ Fills(st, t, v)
             /\ cache'.globalHits = cache.globalHits + 0 + Again(op)
             /\ cache'.globalMiss = cache.globalMiss + 1
             /\ cache'.globalEvictions = cache.globalEvictions + 0
    <3>1. ~st[v].valid /\ \A n \in 1..Len(s) : s[n] # v
      BY <1>14, <2>2 DEF Fills
    <3>2. H'[a] = Append(q, e)
      <4>1. Ages(st2, Append(s, v), c + 1)
        BY <1>1, <1>4, <3>1, Fill
      <4>2. Blocks(st2, a, Append(s, v)) = Append(q, e)
        <5> HIDE DEF a, st, t, c
        <5>1. /\ options \in OptionSets /\ st \in [Ways -> Block] /\ s \in Seq(Ways) /\ a \in Nat
              /\ v \in Ways /\ (\A n \in 1..Len(s) : s[n] # v) /\ t \in Int /\ c \in Nat
          BY <1>1, <1>4, <1>14, <3>1
        <5> QED BY ONLY <5>1, BlocksFill
      <4> QED BY <1>11, <4>1, <4>2
    <3>3. hit = FALSE
      BY <1>14, <1>15, <1>16, <2>2 DEF Fills, Misses
    <3>4. full = FALSE
      BY <1>4, <1>15, <1>17, <3>1
    <3> HIDE DEF hit, full, q, e, H
    <3> QED BY <2>2, <3>2, <3>3, <3>4 DEF Again, next
  <2>3. CASE /\ Evicts(st, s, t, v)
             /\ cache'.globalHits = cache.globalHits + 0 + Again(op)
             /\ cache'.globalMiss = cache.globalMiss + 1
             /\ cache'.globalEvictions = cache.globalEvictions + 1
    <3>1. 1 \in 1..Len(s) /\ v = s[1] /\ \A w \in Ways : st[w].valid
      BY <2>3 DEF Evicts
    <3>2. Ages(st2, Append(Cut(s, 1), v), c + 1)
      BY <1>1, <1>4, <3>1, Renew
    <3>3. H'[a] = Append(Cut(q, 1), e)
      <4>1. Blocks(st2, a, Append(Cut(s, 1), v)) = Append(Cut(q, 1), e)
        <5> HIDE DEF a, st, t, c
        <5>1. /\ options \in OptionSets /\ st \in [Ways -> Block] /\ s \in Seq(Ways) /\ a \in Nat
              /\ 1 \in 1..Len(s) /\ (\A m, n \in 1..Len(s) : s[m] = s[n] => m = n)
              /\ t \in Int /\ c \in Nat
          BY <1>1, <1>14, <3>1
        <5>2. Blocks(Stamped(st, s[1], t, c), a, Append(Cut(s, 1), s[1]))
                = Append(Cut(Blocks(st, a, s), 1), Number(t, a))
          BY ONLY <5>1, BlocksRenew
        <5> QED BY <3>1, <5>2
      <4> QED BY <1>11, <3>2, <4>1
    <3>4. Tail(q) = Cut(q, 1)
      <4>1. 1 \in 1..Len(q)
        BY <1>15, <3>1
      <4> HIDE DEF q
      <4> QED BY <1>15, <4>1, TailIs
    <3>5. hit = FALSE
      BY <1>14, <1>15, <1>16, <2>3 DEF Evicts, Misses
    <3>6. full = TRUE
      BY <1>15, <1>17, <3>1
    <3> HIDE DEF hit, full, q, e, H
    <3> QED BY <2>3, <3>3, <3>4, <3>5, <3>6 DEF Again, next
  <2> QED BY <1>3, <2>1, <2>2, <2>3 DEF Accesses
<1>19. H' = [H EXCEPT ![a] = next]
  BY <1>1, <1>7, <1>12, <1>13, <1>18
<1> QED BY <1>2, <1>5, <1>7, <1>18, <1>19 DEF Lru!Access

\* An empty cache holds nothing, for LruSim too.
LEMMA EmptyHeld ==
  ASSUME NEW opt, Start(opt)
  PROVE  Lru!Init
<1>1. options = opt /\ cache = EmptyCache(opt)
  BY DEF Start
<1>2. cache.sets = [a \in Sets |-> [w \in Ways |-> [valid |-> FALSE, tag |-> -1, LRUCounter |-> 0]]]
  BY <1>1 DEF EmptyCache, Sets, Ways
<1>3. ASSUME NEW a \in Sets PROVE ByAge(a) = <<>>
  <2> DEFINE st == cache.sets[a]
             valid == {w \in Ways : st[w].valid}
             Older(v) == Cardinality({w \in valid : st[w].LRUCounter < st[v].LRUCounter})
             At(n) == st[CHOOSE v \in valid : Older(v) = n - 1].tag * 2^options.sets + a
  <2>1. valid = {}
    BY <1>2
  <2>2. ByAge(a) = [n \in 1..Cardinality(valid) |-> At(n)]
    BY DEF ByAge
  <2> HIDE DEF valid, At
  <2>3. Cardinality(valid) = 0
    BY <2>1, FS_EmptySet
  <2> QED BY <2>2, <2>3
<1>4. [a \in DOMAIN cache.sets |-> ByAge(a)] = [a \in 0..(2^options.sets - 1) |-> <<>>]
  BY <1>2, <1>3 DEF Sets
<1>5. cache.globalHits = 0 /\ cache.globalMiss = 0 /\ cache.globalEvictions = 0
  BY <1>1 DEF EmptyCache
<1> QED BY <1>4, <1>5 DEF Lru!Init

\* What leaves the simulator's cache alone leaves what LruSim sees of it alone.
LEMMA SameHeld ==
  ASSUME UNCHANGED <<options, cache>>
  PROVE  UNCHANGED Lru!vars
<1>1. ASSUME NEW a PROVE ByAge(a)' = ByAge(a)
  BY DEF ByAge, Ways
<1> QED BY <1>1 DEF Lru!vars

\* A step of the simulator is one of LruSim, and a line of data the access it names.
LEMMA ReadingLru ==
  ASSUME TagsWhole, Reading, [Next]_<<vars, transVars>>, shape = NoMatrix
  PROVE  /\ Lru!Next \/ UNCHANGED Lru!vars
         /\ \A op \in Operations, addr \in Addresses : Line(op, addr) => Lru!Access(addr, op = "M")
<1>1. CacheOK
  BY DEF Reading
<1>2. \A op \in Operations, addr \in Addresses : Line(op, addr) => Lru!Access(addr, op = "M")
  BY <1>1, LineAccess
<1>3. CASE \E op \in Operations, addr \in Addresses : Line(op, addr)
  <2>1. PICK op \in Operations, addr \in Addresses : Lru!Access(addr, op = "M")
    BY <1>2, <1>3
  <2>2. (op = "M") \in BOOLEAN
    OBVIOUS
  <2>3. Lru!Next
    BY <2>1, <2>2 DEF Lru!Next
  <2> QED BY <1>2, <2>3
<1>4. CASE UNCHANGED <<options, cache>>
  BY <1>2, <1>4, SameHeld
<1> QED BY <1>3, <1>4
        DEF Next, NextRow, Returned, ReadFile, Instruction, EndOfFile, LastLine, vars

\* csim.c is a cache with least-recently-used replacement, of any number of sets, blocks
\* and bytes, on every trace whose addresses the mask of the tag keeps whole (csim.c 219,
\* 241, 259).
THEOREM SimulatesLru == ASSUME TagsWhole PROVE Spec => ImplementsLru
<1> DEFINE Act == shape = NoMatrix =>
                    /\ Lru!Next \/ UNCHANGED Lru!vars
                    /\ \A op \in Operations, addr \in Addresses :
                         Line(op, addr) => Lru!Access(addr, op = "M")
<1>1. Init => Reading /\ Lru!Init
  <2> SUFFICES ASSUME Init PROVE Reading /\ Lru!Init
    OBVIOUS
  <2>1. PICK opt : Start(opt) /\ (shape = NoMatrix => opt \in OptionSets)
    BY ShapeAssumption DEF Init
  <2> QED BY <2>1, EmptyOK, EmptyHeld DEF Reading
<1>2. Reading /\ [Next]_<<vars, transVars>> => Reading'
  BY ReadingStep
<1>3. Reading /\ [Next]_<<vars, transVars>> => [Act]_vars
  BY ReadingLru
<1>4. Spec => Lru!Init /\ [][Act]_vars
  <2> HIDE DEF Act
  <2> QED BY <1>1, <1>2, <1>3, PTL DEF Spec
<1> QED BY <1>4 DEF ImplementsLru

-----------------------------------------------------------------------------
(* What a sequence of accesses does, one access at a time.                 *)

\* The accesses of transpose_submit.
Moves == [op : {"L", "S"}, at : Int, reg : Int]

\* What the accesses of s make of S.
Run(S, s) == FoldLeft(Make, S, s)

\* The greatest element of a set of numbers, which the fold takes first.
Latest(u) == CHOOSE n \in u : \A m \in u : n >= m

\* What the accesses of s make of S, those at the places u only.
RunOn(S, s, h, u) == IF u = {} THEN S ELSE Make(h[u \ {Latest(u)}], s[Latest(u)])

IsRun(S, s, n, h) == h = [u \in SUBSET (1..n) |-> RunOn(S, s, h, u)]

\* The library's fold, unfolded to the function that it chooses.
LEMMA RunIsFold == ASSUME NEW S, NEW s PROVE Run(S, s) = (CHOOSE h : h = [u \in SUBSET DOMAIN s |-> RunOn(S, s, h, u)])[DOMAIN s]
BY DEF Run, FoldLeft, MapThenFoldSet, RunOn, Latest, Max

\* The last of finitely many places.
LEMMA LastIs ==
  ASSUME NEW n \in Nat, NEW u \in SUBSET (1..(n + 1)), n + 1 \in u
  PROVE  Latest(u) = n + 1
<1>1. n + 1 \in u /\ \A m \in u : n + 1 >= m
  OBVIOUS
<1>2. Latest(u) \in u /\ \A m \in u : Latest(u) >= m
  BY <1>1 DEF Latest
<1>3. Latest(u) \in 1..(n + 1) /\ Latest(u) >= n + 1
  BY <1>1, <1>2
<1> QED BY <1>3

\* There is such a function.
LEMMA RunExists == ASSUME NEW S, NEW s, NEW Z \in Nat PROVE \E h : IsRun(S, s, Z, h)
<1> DEFINE T == {n \in Nat : \E h : IsRun(S, s, n, h)}
<1>1. 0 \in T
  <2> DEFINE h == [u \in SUBSET (1..0) |-> S]
  <2>1. \A u \in SUBSET (1..0) : u = {}
    OBVIOUS
  <2>2. h = [u \in SUBSET (1..0) |-> RunOn(S, s, h, u)]
    BY <2>1 DEF RunOn
  <2> QED BY <2>2 DEF IsRun
<1>2. ASSUME NEW n \in Nat, n \in T PROVE n + 1 \in T
  <2>1. PICK h : IsRun(S, s, n, h)
    BY <1>2
  <2> DEFINE g == [u \in SUBSET (1..(n + 1)) |-> IF n + 1 \in u THEN Make(h[u \ {n + 1}], s[n + 1]) ELSE h[u]]
  <2>2. ASSUME NEW u \in SUBSET (1..(n + 1)) PROVE g[u] = RunOn(S, s, g, u)
    <3>1. CASE n + 1 \in u
      <4>1. Latest(u) = n + 1 /\ u # {}
        BY <3>1, LastIs
      <4>2. u \ {n + 1} \in SUBSET (1..(n + 1)) /\ n + 1 \notin u \ {n + 1}
        OBVIOUS
      <4>3. g[u \ {n + 1}] = h[u \ {n + 1}]
        BY <4>2
      <4>4. g[u] = Make(h[u \ {n + 1}], s[n + 1])
        BY <3>1
      <4> QED BY <4>1, <4>3, <4>4 DEF RunOn
    <3>2. CASE n + 1 \notin u
      <4>1. u \in SUBSET (1..n)
        BY <3>2
      <4>2. g[u] = h[u] /\ h[u] = RunOn(S, s, h, u)
        BY <2>1, <3>2, <4>1 DEF IsRun
      <4>3. u # {} => g[u \ {Latest(u)}] = h[u \ {Latest(u)}]
        BY <3>2
      <4> QED BY <4>2, <4>3 DEF RunOn
    <3> QED BY <3>1, <3>2
  <2>3. g = [u \in SUBSET (1..(n + 1)) |-> RunOn(S, s, g, u)]
    <3> DEFINE f == [u \in SUBSET (1..(n + 1)) |-> RunOn(S, s, g, u)]
    <3>1. \A u \in SUBSET (1..(n + 1)) : g[u] = f[u]
      BY <2>2
    <3> QED BY <3>1
  <2>4. IsRun(S, s, n + 1, g)
    BY <2>3 DEF IsRun
  <2> QED BY <2>4
<1> HIDE DEF T
<1>3. Z \in T
  BY <1>1, <1>2, NatInSet
<1> QED BY <1>3 DEF T

\* It goes along the sequence.
LEMMA RunSteps ==
  ASSUME NEW S, NEW s, NEW Z \in Nat, NEW h, IsRun(S, s, Z, h)
  PROVE  /\ h[1..0] = S
         /\ \A n \in 0..(Z - 1) : h[1..(n + 1)] = Make(h[1..n], s[n + 1])
<1>1. h[1..0] = S
  <2>1. 1..0 \in SUBSET (1..Z) /\ 1..0 = {}
    OBVIOUS
  <2> QED BY <2>1 DEF IsRun, RunOn
<1>2. ASSUME NEW n \in 0..(Z - 1) PROVE h[1..(n + 1)] = Make(h[1..n], s[n + 1])
  <2>1. 1..(n + 1) \in SUBSET (1..Z) /\ 1..(n + 1) # {} /\ (1..(n + 1)) \ {n + 1} = 1..n
    OBVIOUS
  <2>2. Latest(1..(n + 1)) = n + 1
    BY LastIs
  <2>3. h[1..(n + 1)] = RunOn(S, s, h, 1..(n + 1))
    BY <2>1 DEF IsRun
  <2> QED BY <2>1, <2>2, <2>3 DEF RunOn
<1> QED BY <1>1, <1>2

\* The run of s, from one access to the next.
LEMMA RunIs ==
  ASSUME NEW S, NEW s \in Seq(Moves)
  PROVE  \E t : /\ t[0] = S
                /\ \A n \in 0..(Len(s) - 1) : t[n + 1] = Make(t[n], s[n + 1])
                /\ Run(S, s) = t[Len(s)]
<1>1. Len(s) \in Nat /\ DOMAIN s = 1..Len(s)
  OBVIOUS
<1> DEFINE h == CHOOSE h : IsRun(S, s, Len(s), h)
<1>2. IsRun(S, s, Len(s), h)
  BY <1>1, RunExists
<1>3. Run(S, s) = h[1..Len(s)]
  BY <1>1, RunIsFold DEF IsRun
<1> HIDE DEF h
<1> DEFINE t == [n \in 0..Len(s) |-> h[1..n]]
<1>4. t[0] = S /\ \A n \in 0..(Len(s) - 1) : t[n + 1] = Make(t[n], s[n + 1])
  BY <1>1, <1>2, RunSteps
<1>5. Run(S, s) = t[Len(s)]
  BY <1>1, <1>3
<1> QED BY <1>4, <1>5

\* No access changes nothing.
LEMMA RunNone == ASSUME NEW S PROVE Run(S, <<>>) = S
<1> DEFINE s == <<>>
<1>1. s \in Seq(Moves) /\ Len(s) = 0
  OBVIOUS
<1> HIDE DEF s
<1>2. PICK t : /\ t[0] = S
               /\ \A n \in 0..(Len(s) - 1) : t[n + 1] = Make(t[n], s[n + 1])
               /\ Run(S, s) = t[Len(s)]
  <2>1. s \in Seq(Moves)
    BY <1>1
  <2> QED BY ONLY <2>1, RunIs
<1>3. Run(S, s) = S
  BY <1>1, <1>2
<1> QED BY <1>3 DEF s

\* One access more.
LEMMA RunMore ==
  ASSUME NEW S, NEW s \in Seq(Moves), NEW a \in Moves
  PROVE  Run(S, Append(s, a)) = Make(Run(S, s), a)
<1> DEFINE r == Append(s, a)
           Z == Len(s)
<1>1. Z \in Nat /\ r \in Seq(Moves) /\ Len(r) = Z + 1 /\ r[Z + 1] = a /\ \A n \in 1..Z : r[n] = s[n]
  OBVIOUS
<1>2. PICK t : t[0] = S /\ (\A n \in 0..(Len(s) - 1) : t[n + 1] = Make(t[n], s[n + 1])) /\ Run(S, s) = t[Len(s)]
  BY RunIs
<1> HIDE DEF r
<1>3. PICK q : /\ q[0] = S
               /\ \A n \in 0..(Len(r) - 1) : q[n + 1] = Make(q[n], r[n + 1])
               /\ Run(S, r) = q[Len(r)]
  <2>1. r \in Seq(Moves)
    BY <1>1
  <2> QED BY ONLY <2>1, RunIs
<1> HIDE DEF Z
<1>4. \A n \in 0..Z : t[n] = q[n]
  <2> DEFINE T == {n \in Nat : n <= Z => t[n] = q[n]}
  <2>1. 0 \in T
    BY <1>2, <1>3
  <2>2. ASSUME NEW n \in Nat, n \in T PROVE n + 1 \in T
    <3> SUFFICES ASSUME n + 1 <= Z PROVE t[n + 1] = q[n + 1]
      OBVIOUS
    <3>1. t[n] = q[n] /\ r[n + 1] = s[n + 1]
      BY <1>1, <2>2
    <3>2. t[n + 1] = Make(t[n], s[n + 1])
      <4>1. n \in 0..(Z - 1)
        BY <1>1
      <4> QED BY <1>2, <4>1 DEF Z
    <3>3. q[n + 1] = Make(q[n], r[n + 1])
      <4>1. n \in 0..(Len(r) - 1)
        BY <1>1
      <4> QED BY <1>3, <4>1
    <3> QED BY <3>1, <3>2, <3>3
  <2> HIDE DEF T
  <2>3. Nat \subseteq T
    BY <2>1, <2>2, NatInSet
  <2> QED BY <1>1, <2>3 DEF T
<1>5. q[Z + 1] = Make(q[Z], r[Z + 1])
  <2>1. Z \in 0..(Len(r) - 1)
    BY <1>1
  <2> QED BY <1>3, <2>1
<1>6. Run(S, s) = t[Z] /\ Run(S, r) = q[Z + 1]
  BY <1>1, <1>2, <1>3 DEF Z
<1>7. t[Z] = q[Z]
  BY <1>1, <1>4
<1> QED BY <1>1, <1>5, <1>6, <1>7 DEF r


IsFlat(P, n, f) == f = [m \in 1..n |-> IF m = 1 THEN P[m] ELSE f[m - 1] \o P[m]]

\* There is such a function.
LEMMA FlatExists == ASSUME NEW P, NEW Z \in Nat PROVE \E f : IsFlat(P, Z, f)
<1> DEFINE T == {n \in Nat : \E f : IsFlat(P, n, f)}
<1>1. 0 \in T
  <2> DEFINE f == [m \in 1..0 |-> {}]
  <2>1. f = [m \in 1..0 |-> IF m = 1 THEN P[m] ELSE f[m - 1] \o P[m]]
    OBVIOUS
  <2> QED BY <2>1 DEF IsFlat
<1>2. ASSUME NEW n \in Nat, n \in T PROVE n + 1 \in T
  <2>1. PICK f : IsFlat(P, n, f)
    BY <1>2
  <2> DEFINE g == [m \in 1..(n + 1) |-> IF m <= n THEN f[m] ELSE IF m = 1 THEN P[m] ELSE f[n] \o P[m]]
             e == [m \in 1..(n + 1) |-> IF m = 1 THEN P[m] ELSE g[m - 1] \o P[m]]
  <2>2. ASSUME NEW m \in 1..(n + 1) PROVE g[m] = e[m]
    <3>1. CASE m <= n
      <4>1. f[m] = IF m = 1 THEN P[m] ELSE f[m - 1] \o P[m]
        <5>1. m \in 1..n
          BY <3>1
        <5>2. \A l \in 1..n : f[l] = IF l = 1 THEN P[l] ELSE f[l - 1] \o P[l]
          BY <2>1 DEF IsFlat
        <5> QED BY <5>1, <5>2
      <4>2. m # 1 => g[m - 1] = f[m - 1]
        BY <3>1
      <4> QED BY <3>1, <4>1, <4>2
    <3>2. CASE m = n + 1 /\ m # 1
      <4>1. ~(m <= n) /\ m - 1 = n /\ n \in 1..(n + 1) /\ n <= n
        BY <3>2
      <4>2. g[m] = f[n] \o P[m]
        BY <3>2, <4>1
      <4>3. g[n] = f[n]
        BY <4>1
      <4>4. e[m] = g[m - 1] \o P[m]
        BY <3>2
      <4> QED BY <4>1, <4>2, <4>3, <4>4
    <3>3. CASE m = n + 1 /\ m = 1
      BY <3>3
    <3> QED BY <3>1, <3>2, <3>3
  <2>3. g = e
    BY <2>2
  <2>4. IsFlat(P, n + 1, g)
    BY <2>3 DEF IsFlat
  <2> QED BY <2>4
<1> HIDE DEF T
<1>3. Z \in T
  BY <1>1, <1>2, NatInSet
<1> QED BY <1>3 DEF T

\* A function on 1..n is a sequence.
LEMMA IsSeq == ASSUME NEW V, NEW n \in Nat, NEW p \in [1..n -> V] PROVE p \in Seq(V) /\ Len(p) = n
OBVIOUS

\* What FlattenSeq makes of some sequences, from one to the next.
LEMMA FlatIs ==
  ASSUME NEW Z \in Nat \ {0}, NEW P \in [1..Z -> Seq(Moves)]
  PROVE  \E f : /\ f[0] = <<>> /\ \A n \in 0..Z : f[n] \in Seq(Moves)
                /\ \A n \in 0..(Z - 1) : f[n + 1] = f[n] \o P[n + 1]
                /\ FlattenSeq(P) = f[Z]
<1> DEFINE g == CHOOSE f : IsFlat(P, Z, f)
<1>0. Len(P) = Z
  BY IsSeq
<1>1. Z \in Nat \ {0} /\ \A n \in 1..Z : P[n] \in Seq(Moves)
  OBVIOUS
<1>2. IsFlat(P, Z, g)
  BY <1>1, FlatExists
<1>3. FlattenSeq(P) = g[Z]
  BY <1>0, <1>1 DEF FlattenSeq, IsFlat
<1> HIDE DEF g
<1> DEFINE f == [n \in 0..Z |-> IF n = 0 THEN <<>> ELSE g[n]]
<1>4. \A n \in 1..Z : g[n] = IF n = 1 THEN P[n] ELSE g[n - 1] \o P[n]
  BY <1>2 DEF IsFlat
<1>5. ASSUME NEW n \in 0..(Z - 1) PROVE f[n + 1] = f[n] \o P[n + 1]
  <2>1. n + 1 \in 1..Z /\ f[n + 1] = g[n + 1]
    BY <1>1
  <2>2. CASE n = 0
    <3>1. f[n] = <<>> /\ g[n + 1] = P[n + 1] /\ P[n + 1] \in Seq(Moves)
      BY <1>1, <1>4, <2>1, <2>2
    <3>2. \A p \in Seq(Moves) : <<>> \o p = p
      OBVIOUS
    <3> QED BY <2>1, <3>1, <3>2
  <2>3. CASE n # 0
    <3>1. f[n] = g[n] /\ (n + 1) - 1 = n /\ n + 1 # 1
      BY <1>1, <2>3
    <3>2. g[n + 1] = g[(n + 1) - 1] \o P[n + 1]
      BY <1>4, <2>1, <3>1
    <3> QED BY <2>1, <3>1, <3>2
  <2> QED BY <2>2, <2>3
<1>6. \A n \in 0..Z : f[n] \in Seq(Moves)
  <2> DEFINE T == {n \in Nat : n <= Z => f[n] \in Seq(Moves)}
  <2>1. 0 \in T
    BY <1>1
  <2>2. ASSUME NEW n \in Nat, n \in T PROVE n + 1 \in T
    <3> SUFFICES ASSUME n + 1 <= Z PROVE f[n + 1] \in Seq(Moves)
      OBVIOUS
    <3>1. f[n] \in Seq(Moves) /\ P[n + 1] \in Seq(Moves) /\ n \in 0..(Z - 1)
      BY <1>1, <2>2
    <3>2. f[n + 1] = f[n] \o P[n + 1]
      BY <1>5, <3>1
    <3> HIDE DEF f
    <3> QED BY <3>1, <3>2
  <2> HIDE DEF T
  <2>3. Nat \subseteq T
    BY <2>1, <2>2, NatInSet
  <2> HIDE DEF f
  <2> QED BY <1>1, <2>3 DEF T
<1>7. f[0] = <<>> /\ f[Z] = g[Z]
  BY <1>1
<1> HIDE DEF f
<1> QED BY <1>1, <1>3, <1>5, <1>6, <1>7

-----------------------------------------------------------------------------
(* Loads and stores of elements.                                           *)

\* The matrix is one that transpose_submit handles.
Handles(s) == s.N \in {32, 64, 67} /\ s.M \in Nat /\ (s.N # 67 => s.M % 8 = 0)

\* The registers and B.
Typed(S) == S.x \in [0..Register -> Int] /\ S.B \in [0..(M * N - 1) -> Int]

\* Q is P with the elements D of A stored where they belong.
Wrote(P, Q, D) ==
  \A row \in 0..(N - 1), col \in 0..(M - 1) :
    Q[B_(col, row)] = IF <<row, col>> \in D THEN A_(row, col) ELSE P[B_(col, row)]

\* Different elements of A have different places in B.
LEMMA Places ==
  ASSUME Handles(shape), NEW row \in 0..(N - 1), NEW col \in 0..(M - 1)
  PROVE  /\ B_(col, row) \in 0..(M * N - 1) /\ A_(row, col) \in Int
         /\ \A row2 \in 0..(N - 1), col2 \in 0..(M - 1) :
              B_(col, row) = B_(col2, row2) => row = row2 /\ col = col2
<1>0. M \in Nat /\ N \in {32, 64, 67}
  BY DEF Handles, M, N
<1>1. CASE N = 32
  BY <1>0, <1>1 DEF B_, A_
<1>2. CASE N = 64
  BY <1>0, <1>2 DEF B_, A_
<1>3. CASE N = 67
  BY <1>0, <1>3 DEF B_, A_
<1> QED BY <1>0, <1>1, <1>2, <1>3

\* A load changes a register.
LEMMA LoadIs ==
  ASSUME NEW S, Typed(S), NEW r \in 0..Register, NEW a \in Int
  PROVE  /\ Typed(Make(S, Load(r, a))) /\ Make(S, Load(r, a)).B = S.B
         /\ Make(S, Load(r, a)).x = [S.x EXCEPT ![r] = a]
<1>1. Make(S, Load(r, a)).B = S.B /\ Make(S, Load(r, a)).x = [S.x EXCEPT ![r] = a]
  BY DEF Make, Load
<1>2. [S.x EXCEPT ![r] = a] \in [0..Register -> Int]
  BY DEF Typed
<1> QED BY <1>1, <1>2 DEF Typed

\* The same, register by register.
LEMMA LoadSets ==
  ASSUME NEW S, Typed(S), NEW r, r \in 0..Register, NEW a, a \in Int
  PROVE  /\ Typed(Make(S, Load(r, a))) /\ Make(S, Load(r, a)).B = S.B /\ Make(S, Load(r, a)).x[r] = a
         /\ \A q \in 0..Register : q # r => Make(S, Load(r, a)).x[q] = S.x[q]
<1> DEFINE T == Make(S, Load(r, a))
<1>1. Typed(T) /\ T.B = S.B /\ T.x = [S.x EXCEPT ![r] = a]
  BY LoadIs
<1> HIDE DEF T
<1>2. T.x[r] = a /\ \A q \in 0..Register : q # r => T.x[q] = S.x[q]
  BY <1>1 DEF Typed
<1> QED BY <1>1, <1>2 DEF T

\* A store puts an element of A that a register holds where it belongs.
LEMMA StoreIs ==
  ASSUME Handles(shape), NEW S, Typed(S), NEW r \in 0..Register,
         NEW row \in 0..(N - 1), NEW col \in 0..(M - 1), S.x[r] = A_(row, col)
  PROVE  /\ Typed(Make(S, Store(r, B_(col, row)))) /\ Make(S, Store(r, B_(col, row))).x = S.x
         /\ Wrote(S.B, Make(S, Store(r, B_(col, row))).B, {<<row, col>>})
<1> DEFINE b == B_(col, row)
<1>1. Make(S, Store(r, b)).B = [S.B EXCEPT ![b] = S.x[r]] /\ Make(S, Store(r, b)).x = S.x
  BY DEF Make, Store
<1>2. b \in 0..(M * N - 1) /\ A_(row, col) \in Int
  BY Places
<1>3. ASSUME NEW row2 \in 0..(N - 1), NEW col2 \in 0..(M - 1)
      PROVE  [S.B EXCEPT ![b] = S.x[r]][B_(col2, row2)]
               = IF <<row2, col2>> \in {<<row, col>>} THEN A_(row2, col2) ELSE S.B[B_(col2, row2)]
  <2>1. B_(col2, row2) \in 0..(M * N - 1) /\ (b = B_(col2, row2) => row = row2 /\ col = col2)
    BY Places
  <2> HIDE DEF b
  <2>2. CASE B_(col2, row2) = b
    BY <2>1, <2>2 DEF Typed
  <2>3. CASE B_(col2, row2) # b
    <3>1. <<row2, col2>> # <<row, col>>
      BY <2>3 DEF b
    <3> QED BY <2>1, <2>3, <3>1 DEF Typed
  <2> QED BY <2>2, <2>3
<1> HIDE DEF b
<1>4. [S.B EXCEPT ![b] = S.x[r]] \in [0..(M * N - 1) -> Int]
  BY <1>2 DEF Typed
<1>5. Wrote(S.B, Make(S, Store(r, b)).B, {<<row, col>>})
  BY <1>1, <1>3 DEF Wrote
<1> QED BY <1>1, <1>4, <1>5 DEF Typed, b

\* Stores add up.
LEMMA WroteTwice ==
  ASSUME NEW P, NEW Q, NEW R, NEW D, NEW F, Wrote(P, Q, D), Wrote(Q, R, F)
  PROVE  Wrote(P, R, D \cup F)
BY DEF Wrote

\* Only what is within the matrix counts.
LEMMA WroteSame ==
  ASSUME NEW P, NEW Q, NEW D, NEW F, Wrote(P, Q, D),
         \A row \in 0..(N - 1), col \in 0..(M - 1) : <<row, col>> \in D <=> <<row, col>> \in F
  PROVE  Wrote(P, Q, F)
BY DEF Wrote

\* One access after others.
LEMMA RunOne ==
  ASSUME NEW S, NEW s \in Seq(Moves), NEW a \in Moves
  PROVE  Run(S, s \o <<a>>) = Make(Run(S, s), a)
<1>1. s \o <<a>> = Append(s, a)
  OBVIOUS
<1>2. Run(S, Append(s, a)) = Make(Run(S, s), a)
  BY RunMore
<1> QED BY <1>1, <1>2

\* Two more.
LEMMA RunTwo ==
  ASSUME NEW S, NEW s \in Seq(Moves), NEW a \in Moves, NEW b \in Moves
  PROVE  Run(S, s \o <<a, b>>) = Make(Make(Run(S, s), a), b)
<1>1. s \o <<a, b>> = Append(Append(s, a), b) /\ Append(s, a) \in Seq(Moves)
  OBVIOUS
<1>2. Run(S, Append(s, a)) = Make(Run(S, s), a)
  BY RunMore
<1>3. Run(S, Append(Append(s, a), b)) = Make(Run(S, Append(s, a)), b)
  BY <1>1, RunMore
<1> QED BY <1>1, <1>2, <1>3

\* Four more.
LEMMA RunFour ==
  ASSUME NEW S, NEW s \in Seq(Moves), NEW a \in Moves, NEW b \in Moves, NEW c \in Moves, NEW d \in Moves
  PROVE  Run(S, s \o <<a, b, c, d>>) = Make(Make(Make(Make(Run(S, s), a), b), c), d)
<1> DEFINE s2 == s \o <<a, b>>
<1>1. s2 \in Seq(Moves) /\ s \o <<a, b, c, d>> = s2 \o <<c, d>>
  OBVIOUS
<1>2. Run(S, s2) = Make(Make(Run(S, s), a), b)
  BY RunTwo
<1> HIDE DEF s2
<1>3. Run(S, s2 \o <<c, d>>) = Make(Make(Run(S, s2), c), d)
  BY <1>1, RunTwo
<1> QED BY <1>1, <1>2, <1>3

\* An element loaded and stored.
LEMMA CopyIs ==
  ASSUME Handles(shape), NEW S, Typed(S),
         NEW row \in 0..(N - 1), NEW col \in 0..(M - 1), NEW T,
         T = Make(Make(S, Load(Register, A_(row, col))), Store(Register, B_(col, row)))
  PROVE  /\ Typed(T) /\ \A r \in 0..7 : T.x[r] = S.x[r]
         /\ Wrote(S.B, T.B, {<<row, col>>})
<1> DEFINE U == Make(S, Load(Register, A_(row, col)))
<1>1. A_(row, col) \in Int /\ Register \in 0..Register /\ Register \notin 0..7 /\ 0..7 \subseteq 0..Register
  BY Places DEF Register
<1>2. Typed(U) /\ U.B = S.B /\ U.x = [S.x EXCEPT ![Register] = A_(row, col)]
  BY <1>1, LoadIs
<1>3. U.x[Register] = A_(row, col) /\ \A r \in 0..7 : U.x[r] = S.x[r]
  BY <1>1, <1>2 DEF Typed
<1> HIDE DEF U
<1>4. Typed(T) /\ T.x = U.x /\ Wrote(U.B, T.B, {<<row, col>>})
  <2> DEFINE V == Make(U, Store(Register, B_(col, row)))
  <2>1. T = V
    BY DEF U
  <2>2. Typed(V) /\ V.x = U.x /\ Wrote(U.B, V.B, {<<row, col>>})
    BY <1>1, <1>2, <1>3, StoreIs
  <2> QED BY <2>1, <2>2
<1> QED BY <1>2, <1>3, <1>4

-----------------------------------------------------------------------------
(* The rows of the 61 by 67 and of the 32 by 32 matrix.                    *)

\* The moves of an element.
LEMMA MovesAre ==
  ASSUME Handles(shape), NEW row \in 0..(N - 1), NEW col \in 0..(M - 1), NEW r \in 0..Register
  PROVE  Load(r, A_(row, col)) \in Moves /\ Store(r, B_(col, row)) \in Moves
<1>1. A_(row, col) \in Int /\ B_(col, row) \in Int /\ r \in Int
  BY Places DEF Register
<1> QED BY <1>1 DEF Load, Store, Moves

\* What a row is to do: store the elements from j to j + n.
Across(n) == {k} \X (j..(j + n - 1))

\* A row of the 61 by 67 matrix.
Cut67(c) ==
  IF k < N /\ j + c < M THEN <<Load(Register, A_(k, j + c)), Store(Register, B_(j + c, k))>> ELSE <<>>

\* A row of the 61 by 67 matrix stores what its block has of it.
LEMMA Row67Is ==
  ASSUME Handles(shape), N = 67, j \in Nat, k \in Nat, NEW S, Typed(S)
  PROVE  Typed(Run(S, Row67)) /\ Wrote(S.B, Run(S, Row67).B, Across(20))
<1> DEFINE P == [c \in 1..20 |-> Cut67(c - 1)]
<1>0. N \in Nat /\ M \in Nat
  BY DEF Handles, M, N
<1>1. ASSUME NEW c \in 0..19 PROVE Cut67(c) \in Seq(Moves)
  <2>1. CASE k < N /\ j + c < M
    <3>1. k \in 0..(N - 1) /\ j + c \in 0..(M - 1) /\ Register \in 0..Register
      BY <1>0, <2>1 DEF Register
    <3>2. Load(Register, A_(k, j + c)) \in Moves /\ Store(Register, B_(j + c, k)) \in Moves
      BY <3>1, MovesAre
    <3> QED BY <2>1, <3>2 DEF Cut67
  <2> QED BY <2>1 DEF Cut67
<1>2. P \in [1..20 -> Seq(Moves)]
  <2>1. ASSUME NEW c \in 1..20 PROVE Cut67(c - 1) \in Seq(Moves)
    <3>1. c - 1 \in 0..19
      OBVIOUS
    <3> QED BY <1>1, <3>1
  <2> QED BY <2>1
<1>3. Row67 = FlattenSeq(P)
  BY DEF Row67, Rows, Cut67
<1>4. \A c \in 0..19 : P[c + 1] = Cut67(c)
  OBVIOUS
<1> HIDE DEF P
<1>5. PICK f : /\ f[0] = <<>> /\ \A n \in 0..20 : f[n] \in Seq(Moves)
               /\ \A n \in 0..19 : f[n + 1] = f[n] \o P[n + 1]
               /\ FlattenSeq(P) = f[20]
  <2> DEFINE Z == 20
  <2>1. Z \in Nat \ {0} /\ P \in [1..Z -> Seq(Moves)]
    BY <1>2
  <2> HIDE DEF Z
  <2>2. PICK f : /\ f[0] = <<>> /\ \A n \in 0..Z : f[n] \in Seq(Moves)
                 /\ \A n \in 0..(Z - 1) : f[n + 1] = f[n] \o P[n + 1]
                 /\ FlattenSeq(P) = f[Z]
    BY <2>1, FlatIs
  <2>3. 0..19 = 0..(Z - 1) /\ Z = 20
    BY DEF Z
  <2> QED BY <2>2, <2>3
<1> DEFINE T == {n \in Nat : n <= 20 => Typed(Run(S, f[n])) /\ Wrote(S.B, Run(S, f[n]).B, Across(n))}
<1>6. 0 \in T
  <2>1. Run(S, f[0]) = S
    BY <1>5, RunNone
  <2>2. \A row, col : <<row, col>> \notin Across(0)
    BY DEF Across
  <2> QED BY <2>1, <2>2 DEF Wrote
<1>7. ASSUME NEW n \in Nat, n \in T PROVE n + 1 \in T
  <2> SUFFICES ASSUME n + 1 <= 20
               PROVE  Typed(Run(S, f[n + 1])) /\ Wrote(S.B, Run(S, f[n + 1]).B, Across(n + 1))
    OBVIOUS
  <2>1. n \in 0..19 /\ Typed(Run(S, f[n])) /\ Wrote(S.B, Run(S, f[n]).B, Across(n))
    BY <1>7
  <2>2. f[n] \in Seq(Moves) /\ f[n + 1] = f[n] \o Cut67(n)
    <3>1. n \in 0..20 /\ n \in 0..19
      BY <2>1
    <3>2. f[n + 1] = f[n] \o P[n + 1] /\ P[n + 1] = Cut67(n)
      BY <1>4, <1>5, <3>1
    <3> QED BY <1>5, <3>1, <3>2
  <2>3. CASE k < N /\ j + n < M
    <3>1. k \in 0..(N - 1) /\ j + n \in 0..(M - 1) /\ Register \in 0..Register
      BY <1>0, <2>3 DEF Register
    <3>2. f[n + 1] = f[n] \o <<Load(Register, A_(k, j + n)), Store(Register, B_(j + n, k))>>
      BY <2>2, <2>3 DEF Cut67
    <3>3. Load(Register, A_(k, j + n)) \in Moves /\ Store(Register, B_(j + n, k)) \in Moves
      BY <3>1, MovesAre
    <3>4. Run(S, f[n + 1]) = Make(Make(Run(S, f[n]), Load(Register, A_(k, j + n))), Store(Register, B_(j + n, k)))
      BY <2>2, <3>2, <3>3, RunTwo
    <3>5. Typed(Run(S, f[n + 1])) /\ Wrote(Run(S, f[n]).B, Run(S, f[n + 1]).B, {<<k, j + n>>})
      BY <2>1, <3>1, <3>4, CopyIs
    <3>6. Wrote(S.B, Run(S, f[n + 1]).B, Across(n) \cup {<<k, j + n>>})
      BY <2>1, <3>5, WroteTwice
    <3>7. Across(n) \cup {<<k, j + n>>} = Across(n + 1)
      BY DEF Across
    <3> QED BY <3>5, <3>6, <3>7
  <2>4. CASE ~(k < N /\ j + n < M)
    <3>1. f[n + 1] = f[n]
      <4>1. f[n + 1] = f[n] \o <<>>
        BY <2>2, <2>4 DEF Cut67
      <4> QED BY <2>2, <4>1
    <3>2. \A row \in 0..(N - 1), col \in 0..(M - 1) : <<row, col>> \in Across(n) <=> <<row, col>> \in Across(n + 1)
      BY <1>0, <2>4 DEF Across
    <3> QED BY <2>1, <3>1, <3>2, WroteSame
  <2> QED BY <2>3, <2>4
<1> HIDE DEF T
<1>8. 20 \in T
  BY <1>6, <1>7, NatInSet
<1> QED BY <1>3, <1>5, <1>8 DEF T

\* A row of the 32 by 32 matrix, but for the element on the diagonal.
Cut32(c) ==
  IF k = j + c THEN <<Load(0, A_(k, j + c))>>
               ELSE <<Load(Register, A_(k, j + c)), Store(Register, B_(j + c, k))>>

\* The elements from j to j + n, but for that on the diagonal.
Aside(n) == {k} \X ((j..(j + n - 1)) \ {k})

\* A row of the 32 by 32 matrix stores its eight elements: that on the diagonal, last.
LEMMA Row32Is ==
  ASSUME Handles(shape), N = 32, j \in Nat, i \in Nat, k \in i..(i + 7), k < N, j + 7 < M,
         j % 8 = 0, i % 8 = 0, NEW S, Typed(S)
  PROVE  Typed(Run(S, Row32)) /\ Wrote(S.B, Run(S, Row32).B, Across(8))
<1> DEFINE P == [c \in 1..8 |-> Cut32(c - 1)]
<1>0. N \in Nat /\ M \in Nat /\ k \in 0..(N - 1) /\ k \in Nat /\ Register \in 0..Register /\ 0 \in 0..Register
      /\ \A c \in 0..7 : j + c \in 0..(M - 1)
  BY DEF Handles, M, N, Register
<1>1. ASSUME NEW c \in 0..7 PROVE Cut32(c) \in Seq(Moves)
  <2>1. Load(0, A_(k, j + c)) \in Moves
    BY <1>0, MovesAre
  <2>2. Load(Register, A_(k, j + c)) \in Moves /\ Store(Register, B_(j + c, k)) \in Moves
    BY <1>0, MovesAre
  <2> QED BY <2>1, <2>2 DEF Cut32
<1>2. P \in [1..8 -> Seq(Moves)]
  <2>1. ASSUME NEW c \in 1..8 PROVE Cut32(c - 1) \in Seq(Moves)
    <3>1. c - 1 \in 0..7
      OBVIOUS
    <3> QED BY <1>1, <3>1
  <2> QED BY <2>1
<1>3. Row32 = FlattenSeq(P) \o (IF i = j THEN <<Store(0, B_(k, k))>> ELSE <<>>)
  BY DEF Row32, Rows, Cut32
<1>4. \A c \in 0..7 : P[c + 1] = Cut32(c)
  OBVIOUS
<1> HIDE DEF P
<1>5. PICK f : /\ f[0] = <<>> /\ \A n \in 0..8 : f[n] \in Seq(Moves)
               /\ \A n \in 0..7 : f[n + 1] = f[n] \o P[n + 1]
               /\ FlattenSeq(P) = f[8]
  <2> DEFINE Z == 8
  <2>1. Z \in Nat \ {0} /\ P \in [1..Z -> Seq(Moves)]
    BY <1>2
  <2> HIDE DEF Z
  <2>2. PICK f : /\ f[0] = <<>> /\ \A n \in 0..Z : f[n] \in Seq(Moves)
                 /\ \A n \in 0..(Z - 1) : f[n + 1] = f[n] \o P[n + 1]
                 /\ FlattenSeq(P) = f[Z]
    BY <2>1, FlatIs
  <2>3. 0..7 = 0..(Z - 1) /\ Z = 8
    BY DEF Z
  <2> QED BY <2>2, <2>3
<1> DEFINE T == {n \in Nat : n <= 8 =>
                   /\ Typed(Run(S, f[n])) /\ Wrote(S.B, Run(S, f[n]).B, Aside(n))
                   /\ k \in j..(j + n - 1) => Run(S, f[n]).x[0] = A_(k, k)}
<1>6. 0 \in T
  <2>1. Run(S, f[0]) = S
    BY <1>5, RunNone
  <2>2. \A row, col : <<row, col>> \notin Aside(0)
    BY DEF Aside
  <2>3. k \notin j..(j + 0 - 1)
    BY <1>0
  <2> QED BY <2>1, <2>2, <2>3 DEF Wrote
<1>7. ASSUME NEW n \in Nat, n \in T PROVE n + 1 \in T
  <2> SUFFICES ASSUME n + 1 <= 8
               PROVE  /\ Typed(Run(S, f[n + 1])) /\ Wrote(S.B, Run(S, f[n + 1]).B, Aside(n + 1))
                      /\ k \in j..(j + (n + 1) - 1) => Run(S, f[n + 1]).x[0] = A_(k, k)
    OBVIOUS
  <2>1. /\ n \in 0..7 /\ Typed(Run(S, f[n])) /\ Wrote(S.B, Run(S, f[n]).B, Aside(n))
        /\ k \in j..(j + n - 1) => Run(S, f[n]).x[0] = A_(k, k)
    BY <1>7
  <2>2. f[n] \in Seq(Moves) /\ f[n + 1] = f[n] \o Cut32(n) /\ j + n \in 0..(M - 1)
    <3>1. n \in 0..8 /\ n \in 0..7
      BY <2>1
    <3>2. f[n + 1] = f[n] \o P[n + 1] /\ P[n + 1] = Cut32(n)
      BY <1>4, <1>5, <3>1
    <3>3. f[n] \in Seq(Moves) /\ j + n \in 0..(M - 1)
      BY <1>0, <1>5, <3>1
    <3> QED BY <3>2, <3>3
  <2>3. CASE k = j + n
    <3>1. f[n + 1] = f[n] \o <<Load(0, A_(k, j + n))>> /\ Load(0, A_(k, j + n)) \in Moves
      BY <1>0, <2>2, <2>3, MovesAre DEF Cut32
    <3>2. Run(S, f[n + 1]) = Make(Run(S, f[n]), Load(0, A_(k, j + n)))
      BY <2>2, <3>1, RunOne
    <3>3. A_(k, j + n) \in Int
      BY <1>0, <2>2, Places
    <3>4. /\ Typed(Run(S, f[n + 1])) /\ Run(S, f[n + 1]).B = Run(S, f[n]).B
          /\ Run(S, f[n + 1]).x = [Run(S, f[n]).x EXCEPT ![0] = A_(k, j + n)]
      BY <1>0, <2>1, <3>2, <3>3, LoadIs
    <3>5. Run(S, f[n + 1]).x[0] = A_(k, k)
      BY <1>0, <2>1, <2>3, <3>4 DEF Typed
    <3>6. Aside(n) = Aside(n + 1)
      BY <1>0, <2>3 DEF Aside
    <3> QED BY <2>1, <3>4, <3>5, <3>6
  <2>4. CASE k # j + n
    <3>2. f[n + 1] = f[n] \o <<Load(Register, A_(k, j + n)), Store(Register, B_(j + n, k))>>
      BY <2>2, <2>4 DEF Cut32
    <3>3. Load(Register, A_(k, j + n)) \in Moves /\ Store(Register, B_(j + n, k)) \in Moves
      BY <1>0, <2>2, MovesAre
    <3>4. Run(S, f[n + 1]) = Make(Make(Run(S, f[n]), Load(Register, A_(k, j + n))), Store(Register, B_(j + n, k)))
      BY <2>2, <3>2, <3>3, RunTwo
    <3>5. /\ Typed(Run(S, f[n + 1])) /\ Wrote(Run(S, f[n]).B, Run(S, f[n + 1]).B, {<<k, j + n>>})
          /\ Run(S, f[n + 1]).x[0] = Run(S, f[n]).x[0]
      <4> DEFINE G == Run(S, f[n])
                 K == Run(S, f[n + 1])
      <4>1. Typed(G) /\ k \in 0..(N - 1) /\ j + n \in 0..(M - 1)
        BY <1>0, <2>1, <2>2
      <4>2. K = Make(Make(G, Load(Register, A_(k, j + n))), Store(Register, B_(j + n, k)))
        BY <3>4
      <4> HIDE DEF G, K
      <4>3. Typed(K) /\ (\A r \in 0..7 : K.x[r] = G.x[r]) /\ Wrote(G.B, K.B, {<<k, j + n>>})
        BY <4>1, <4>2, CopyIs
      <4>4. 0 \in 0..7
        OBVIOUS
      <4> QED BY <4>3, <4>4 DEF G, K
    <3>6. Wrote(S.B, Run(S, f[n + 1]).B, Aside(n) \cup {<<k, j + n>>})
      BY <2>1, <3>5, WroteTwice
    <3>7. Aside(n) \cup {<<k, j + n>>} = Aside(n + 1)
      BY <1>0, <2>4 DEF Aside
    <3>8. k \in j..(j + (n + 1) - 1) => k \in j..(j + n - 1)
      BY <1>0, <2>4
    <3> QED BY <2>1, <3>5, <3>6, <3>7, <3>8
  <2> QED BY <2>3, <2>4
<1> HIDE DEF T
<1>8. 8 \in T
  BY <1>6, <1>7, NatInSet
<1> DEFINE U == Run(S, f[8])
<1>9. /\ Typed(U) /\ Wrote(S.B, U.B, Aside(8)) /\ f[8] \in Seq(Moves)
      /\ k \in j..(j + 7) => U.x[0] = A_(k, k)
  BY <1>5, <1>8 DEF T
<1>10. CASE i = j
  <2>1. Row32 = f[8] \o <<Store(0, B_(k, k))>>
    BY <1>3, <1>5, <1>10
  <2>2. k \in j..(j + 7) /\ k \in 0..(M - 1) /\ k \in 0..(N - 1)
    BY <1>0, <1>10
  <2>3. Store(0, B_(k, k)) \in Moves
    BY <1>0, <2>2, MovesAre
  <2>4. Run(S, Row32) = Make(U, Store(0, B_(k, k)))
    BY <1>9, <2>1, <2>3, RunOne
  <2> HIDE DEF U
  <2>5. Typed(Run(S, Row32)) /\ Wrote(U.B, Run(S, Row32).B, {<<k, k>>})
    BY <1>0, <1>9, <2>2, <2>4, StoreIs
  <2>6. Wrote(S.B, Run(S, Row32).B, Aside(8) \cup {<<k, k>>})
    BY <1>9, <2>5, WroteTwice
  <2>7. Aside(8) \cup {<<k, k>>} = Across(8)
    BY <2>2 DEF Aside, Across
  <2> QED BY <2>5, <2>6, <2>7
<1>11. CASE i # j
  <2>1. Row32 = f[8]
    <3>1. Row32 = f[8] \o <<>>
      BY <1>3, <1>5, <1>11
    <3> QED BY <1>9, <3>1
  <2>2. k \notin j..(j + 7)
    BY <1>0, <1>11
  <2>3. Aside(8) = Across(8)
    BY <2>2 DEF Aside, Across
  <2> QED BY <1>9, <2>1, <2>3
<1> QED BY <1>10, <1>11

-----------------------------------------------------------------------------
(* The halves of rows of the 64 by 64 matrix.                              *)

\* One element more.
LEMMA OneMore ==
  ASSUME NEW s, s \in Seq(Moves), NEW e, e \in Moves, NEW g, g = Append(s, e)
  PROVE  Len(g) = Len(s) + 1 /\ g[Len(s) + 1] = e /\ \A n \in 1..Len(s) : g[n] = s[n]
OBVIOUS

\* Four accesses, flattened.
LEMMA FourAre ==
  ASSUME NEW a \in Moves, NEW b \in Moves, NEW c \in Moves, NEW d \in Moves,
         NEW P, P = [n \in 1..4 |-> IF n = 1 THEN <<a>> ELSE IF n = 2 THEN <<b>> ELSE IF n = 3 THEN <<c>> ELSE <<d>>]
  PROVE  FlattenSeq(P) = <<a, b, c, d>>
<1>1. P \in [1..4 -> Seq(Moves)] /\ P[1] = <<a>> /\ P[2] = <<b>> /\ P[3] = <<c>> /\ P[4] = <<d>>
  OBVIOUS
<1> DEFINE Z == 4
<1>2. Z \in Nat \ {0} /\ P \in [1..Z -> Seq(Moves)]
  BY <1>1
<1> HIDE DEF Z
<1>3. PICK f : /\ f[0] = <<>> /\ \A n \in 0..Z : f[n] \in Seq(Moves)
               /\ \A n \in 0..(Z - 1) : f[n + 1] = f[n] \o P[n + 1]
               /\ FlattenSeq(P) = f[Z]
  BY <1>2, FlatIs
<1>4. f[1] = f[0] \o P[1] /\ f[2] = f[1] \o P[2] /\ f[3] = f[2] \o P[3] /\ f[4] = f[3] \o P[4]
  <2>1. 0..(Z - 1) = 0..3
    BY DEF Z
  <2>2. 0 \in 0..3 /\ 1 \in 0..3 /\ 2 \in 0..3 /\ 3 \in 0..3
    OBVIOUS
  <2>3. \A n \in 0..3 : f[n + 1] = f[n] \o P[n + 1]
    BY <1>3, <2>1
  <2>4. f[0 + 1] = f[0] \o P[0 + 1] /\ f[1 + 1] = f[1] \o P[1 + 1]
        /\ f[2 + 1] = f[2] \o P[2 + 1] /\ f[3 + 1] = f[3] \o P[3 + 1]
    BY ONLY <2>2, <2>3, Zenon
  <2>5. 0 + 1 = 1 /\ 1 + 1 = 2 /\ 2 + 1 = 3 /\ 3 + 1 = 4
    OBVIOUS
  <2> QED BY ONLY <2>4, <2>5
<1>5. \A n \in 0..4 : f[n] \in Seq(Moves)
  BY <1>3 DEF Z
<1> DEFINE g1 == f[1]
           g2 == f[2]
           g3 == f[3]
           g4 == f[4]
<1>6. /\ g1 = f[0] \o <<a>> /\ g2 = g1 \o <<b>> /\ g3 = g2 \o <<c>> /\ g4 = g3 \o <<d>>
      /\ f[0] \in Seq(Moves) /\ g1 \in Seq(Moves) /\ g2 \in Seq(Moves) /\ g3 \in Seq(Moves) /\ g4 \in Seq(Moves)
      /\ Len(f[0]) = 0
  BY <1>1, <1>3, <1>4, <1>5
<1> HIDE DEF g1, g2, g3, g4
<1>7. Len(g1) = 1 /\ g1[1] = a
  <2>1. g1 = Append(f[0], a)
    BY <1>6
  <2> QED BY <1>6, <2>1
<1>8. Len(g2) = 2 /\ g2[1] = a /\ g2[2] = b
  <2>1. g2 = Append(g1, b)
    BY <1>6
  <2>2. b \in Moves /\ g1 \in Seq(Moves) /\ Len(g1) = 1 /\ 1 + 1 = 2
    BY <1>6, <1>7
  <2>3. Len(g2) = Len(g1) + 1 /\ g2[Len(g1) + 1] = b /\ \A n \in 1..Len(g1) : g2[n] = g1[n]
    BY ONLY <2>1, <2>2, OneMore
  <2> QED BY <1>7, <2>2, <2>3
<1>9. Len(g3) = 3 /\ g3[1] = a /\ g3[2] = b /\ g3[3] = c
  <2>1. g3 = Append(g2, c)
    BY <1>6
  <2>2. c \in Moves /\ g2 \in Seq(Moves) /\ Len(g2) = 2 /\ 2 + 1 = 3
    BY <1>6, <1>8
  <2>3. Len(g3) = Len(g2) + 1 /\ g3[Len(g2) + 1] = c /\ \A n \in 1..Len(g2) : g3[n] = g2[n]
    BY ONLY <2>1, <2>2, OneMore
  <2> QED BY <1>8, <2>2, <2>3
<1>10. Len(g4) = 4 /\ g4[1] = a /\ g4[2] = b /\ g4[3] = c /\ g4[4] = d
  <2>1. g4 = Append(g3, d)
    BY <1>6
  <2>2. d \in Moves /\ g3 \in Seq(Moves) /\ Len(g3) = 3 /\ 3 + 1 = 4
    BY <1>6, <1>9
  <2>3. Len(g4) = Len(g3) + 1 /\ g4[Len(g3) + 1] = d /\ \A n \in 1..Len(g3) : g4[n] = g3[n]
    BY ONLY <2>1, <2>2, OneMore
  <2> QED BY <1>9, <2>2, <2>3
<1> DEFINE r == <<a, b, c, d>>
<1>11. r \in Seq(Moves) /\ Len(r) = 4 /\ r[1] = a /\ r[2] = b /\ r[3] = c /\ r[4] = d
  OBVIOUS
<1> HIDE DEF r
<1>12. \A n \in 1..Len(g4) : g4[n] = r[n]
  BY <1>10, <1>11
<1>13. g4 = r
  BY <1>6, <1>10, <1>11, <1>12, SameSeq
<1> QED BY <1>3, <1>13 DEF Z, g4, r

\* The accesses of half a row.
LEMMA LoadsAre ==
  ASSUME Handles(shape), NEW from \in {0, 4}, NEW row \in 0..(N - 1), NEW col \in Nat, col + 3 < M
  PROVE  /\ Loads(from, row, col) =
              <<Load(from, A_(row, col)), Load(from + 1, A_(row, col + 1)),
                Load(from + 2, A_(row, col + 2)), Load(from + 3, A_(row, col + 3))>>
         /\ \A c \in 0..3 : Load(from + c, A_(row, col + c)) \in Moves
<1> DEFINE P == [c \in 1..4 |-> <<Load(from + (c - 1), A_(row, col + (c - 1)))>>]
           a(c) == Load(from + c, A_(row, col + c))
<1>0. M \in Nat
  BY DEF Handles, M
<1>1. ASSUME NEW c \in 0..3 PROVE a(c) \in Moves
  <2>1. from + c \in 0..Register /\ col + c \in 0..(M - 1)
    BY <1>0 DEF Register
  <2> QED BY <2>1, MovesAre
<1>2. Loads(from, row, col) = FlattenSeq(P)
  BY DEF Loads, Rows
<1>3. \A c \in 1..4 : P[c] = <<a(c - 1)>>
  OBVIOUS
<1>4. P = [n \in 1..4 |-> IF n = 1 THEN <<a(0)>> ELSE IF n = 2 THEN <<a(1)>> ELSE IF n = 3 THEN <<a(2)>> ELSE <<a(3)>>]
  <2>1. 1 - 1 = 0 /\ 2 - 1 = 1 /\ 3 - 1 = 2 /\ 4 - 1 = 3
    OBVIOUS
  <2> HIDE DEF a
  <2>2. P[1] = <<a(0)>> /\ P[2] = <<a(1)>> /\ P[3] = <<a(2)>> /\ P[4] = <<a(3)>>
    BY <1>3, <2>1
  <2>3. P = [n \in 1..4 |-> P[n]]
    OBVIOUS
  <2> HIDE DEF P
  <2> QED BY <2>2, <2>3
<1>5. a(0) = Load(from, A_(row, col))
  BY SMT
<1> HIDE DEF a, P
<1>6. a(0) \in Moves /\ a(1) \in Moves /\ a(2) \in Moves /\ a(3) \in Moves
  BY <1>1
<1>7. FlattenSeq(P) = <<a(0), a(1), a(2), a(3)>>
  BY <1>4, <1>6, FourAre
<1> QED BY <1>1, <1>2, <1>5, <1>7 DEF a

\* The stores of half a row.
LEMMA StoresAre ==
  ASSUME Handles(shape), N = 64, NEW from \in {0, 4}, NEW row \in 0..(N - 1), NEW col \in Nat, col + 3 < M
  PROVE  /\ Stores(from, col, row) =
              <<Store(from, B_(col, row)), Store(from + 1, B_(col + 1, row)),
                Store(from + 2, B_(col + 2, row)), Store(from + 3, B_(col + 3, row))>>
         /\ \A c \in 0..3 : Store(from + c, B_(col + c, row)) \in Moves
<1> DEFINE P == [c \in 1..4 |-> <<Store(from + (c - 1), B_(col, row + 64 * (c - 1)))>>]
           a(c) == Store(from + c, B_(col + c, row))
<1>0. M \in Nat
  BY DEF Handles, M
<1>1. ASSUME NEW c \in 0..3 PROVE a(c) \in Moves
  <2>1. from + c \in 0..Register /\ col + c \in 0..(M - 1)
    BY <1>0 DEF Register
  <2> QED BY <2>1, MovesAre
<1>2. Stores(from, col, row) = FlattenSeq(P)
  BY DEF Stores, Rows
<1>3. ASSUME NEW c \in 1..4 PROVE P[c] = <<a(c - 1)>>
  <2>1. B_(col, row + 64 * (c - 1)) = B_(col + (c - 1), row)
    BY DEF B_
  <2> QED BY <2>1
<1>4. P = [n \in 1..4 |-> IF n = 1 THEN <<a(0)>> ELSE IF n = 2 THEN <<a(1)>> ELSE IF n = 3 THEN <<a(2)>> ELSE <<a(3)>>]
  <2>1. 1 - 1 = 0 /\ 2 - 1 = 1 /\ 3 - 1 = 2 /\ 4 - 1 = 3
    OBVIOUS
  <2> HIDE DEF a
  <2>2. P[1] = <<a(0)>> /\ P[2] = <<a(1)>> /\ P[3] = <<a(2)>> /\ P[4] = <<a(3)>>
    BY <1>3, <2>1
  <2>3. P = [n \in 1..4 |-> P[n]]
    OBVIOUS
  <2> HIDE DEF P
  <2> QED BY <2>2, <2>3
<1>5. a(0) = Store(from, B_(col, row))
  BY SMT
<1> HIDE DEF a, P
<1>6. a(0) \in Moves /\ a(1) \in Moves /\ a(2) \in Moves /\ a(3) \in Moves
  BY <1>1
<1>7. FlattenSeq(P) = <<a(0), a(1), a(2), a(3)>>
  BY <1>4, <1>6, FourAre
<1> QED BY <1>1, <1>2, <1>5, <1>7 DEF a

\* Four registers hold half a row.
Held(G, from, row, col) == \A c \in 0..3 : G.x[from + c] = A_(row, col + c)

\* T comes of G by a load of half a row, and by a store of four registers.
HalfLoaded(G, T, from, row, col) ==
  /\ Typed(T) /\ T.B = G.B
  /\ Held(T, from, row, col)
  /\ \A q \in 0..7 : (q < from \/ from + 3 < q) => T.x[q] = G.x[q]
HalfStored(G, T, row, col) == Typed(T) /\ T.x = G.x /\ Wrote(G.B, T.B, {row} \X (col..(col + 3)))

\* A half of a row that is within the matrix, after the accesses s.
Within(s, from, row, col) ==
  from \in {0, 4} /\ row \in 0..(N - 1) /\ col \in Nat /\ col + 3 < M /\ s \in Seq(Moves)

\* Half a row is loaded into four registers.
LEMMA LoadsRun ==
  ASSUME Handles(shape), NEW from, NEW row, NEW col, NEW s, Within(s, from, row, col), NEW S, Typed(Run(S, s)),
         NEW L, L = s \o Loads(from, row, col)
  PROVE  L \in Seq(Moves) /\ HalfLoaded(Run(S, s), Run(S, L), from, row, col)
<1> SUFFICES ASSUME from \in {0, 4}, row \in 0..(N - 1), col \in Nat, col + 3 < M, s \in Seq(Moves),
                    NEW G, G = Run(S, s), Typed(G), NEW T, T = Run(S, s \o Loads(from, row, col))
             PROVE  /\ Typed(T) /\ T.B = G.B /\ s \o Loads(from, row, col) \in Seq(Moves)
                    /\ \A c \in 0..3 : T.x[from + c] = A_(row, col + c)
                    /\ \A q \in 0..7 : (q < from \/ from + 3 < q) => T.x[q] = G.x[q]
  BY DEF Within, HalfLoaded, Held
<1> DEFINE a == Load(from, A_(row, col))
           b == Load(from + 1, A_(row, col + 1))
           c == Load(from + 2, A_(row, col + 2))
           d == Load(from + 3, A_(row, col + 3))
<1>0. M \in Nat
  BY DEF Handles, M
<1>1. a \in Moves /\ b \in Moves /\ c \in Moves /\ d \in Moves
  <2>1. \A e \in 0..3 : Load(from + e, A_(row, col + e)) \in Moves
    BY LoadsAre
  <2>2. a = Load(from + 0, A_(row, col + 0))
    OBVIOUS
  <2>3. 0 \in 0..3 /\ 1 \in 0..3 /\ 2 \in 0..3 /\ 3 \in 0..3
    OBVIOUS
  <2> QED BY <2>1, <2>2, <2>3
<1>2. Loads(from, row, col) = <<a, b, c, d>>
  BY LoadsAre
<1>3. A_(row, col) \in Int /\ A_(row, col + 1) \in Int /\ A_(row, col + 2) \in Int /\ A_(row, col + 3) \in Int
  <2>1. col \in 0..(M - 1) /\ col + 1 \in 0..(M - 1) /\ col + 2 \in 0..(M - 1) /\ col + 3 \in 0..(M - 1)
    BY <1>0
  <2> QED BY <2>1, Places
<1>4. T = Make(Make(Make(Make(G, a), b), c), d) /\ s \o Loads(from, row, col) \in Seq(Moves)
  <2> HIDE DEF a, b, c, d
  <2>1. Run(S, s \o <<a, b, c, d>>) = Make(Make(Make(Make(Run(S, s), a), b), c), d)
    BY <1>1, RunFour
  <2>2. s \o <<a, b, c, d>> \in Seq(Moves)
    BY <1>1
  <2> QED BY <1>2, <2>1, <2>2
<1>5. from \in 0..4
  OBVIOUS
<1>6. /\ Typed(T) /\ T.B = G.B /\ T.x[from] = A_(row, col) /\ T.x[from + 1] = A_(row, col + 1)
      /\ T.x[from + 2] = A_(row, col + 2) /\ T.x[from + 3] = A_(row, col + 3)
      /\ \A q \in 0..7 : (q < from \/ from + 3 < q) => T.x[q] = G.x[q]
  <2> DEFINE r1 == from + 1
             r2 == from + 2
             r3 == from + 3
             a0 == A_(row, col)
             a1 == A_(row, col + 1)
             a2 == A_(row, col + 2)
             a3 == A_(row, col + 3)
  <2>1. /\ from \in 0..Register /\ r1 \in 0..Register /\ r2 \in 0..Register /\ r3 \in 0..Register
        /\ from # r1 /\ from # r2 /\ from # r3 /\ r1 # r2 /\ r1 # r3 /\ r2 # r3
    BY DEF Register
  <2>2. \A q \in 0..7 : q \in 0..Register /\ ((q < from \/ from + 3 < q) => q \notin {from, r1, r2, r3})
    BY DEF Register
  <2>3. a0 \in Int /\ a1 \in Int /\ a2 \in Int /\ a3 \in Int
    BY <1>3
  <2>4. T = Make(Make(Make(Make(G, Load(from, a0)), Load(r1, a1)), Load(r2, a2)), Load(r3, a3))
    BY <1>4
  <2> HIDE DEF r1, r2, r3, a0, a1, a2, a3
  <2>5. /\ Typed(T) /\ T.B = G.B /\ T.x[from] = a0 /\ T.x[r1] = a1 /\ T.x[r2] = a2 /\ T.x[r3] = a3
        /\ \A q \in 0..Register : q \notin {from, r1, r2, r3} => T.x[q] = G.x[q]
    <3> DEFINE S1 == Make(G, Load(from, a0))
               S2 == Make(S1, Load(r1, a1))
               S3 == Make(S2, Load(r2, a2))
               S4 == Make(S3, Load(r3, a3))
    <3>0. Typed(G)
      OBVIOUS
    <3>1. Typed(S1) /\ S1.B = G.B /\ S1.x[from] = a0 /\ \A q \in 0..Register : q # from => S1.x[q] = G.x[q]
      BY ONLY <2>1, <2>3, <3>0, LoadSets
    <3>5. T = S4
      BY <2>4
    <3> HIDE DEF S1
    <3>2. Typed(S2) /\ S2.B = S1.B /\ S2.x[r1] = a1 /\ \A q \in 0..Register : q # r1 => S2.x[q] = S1.x[q]
      BY ONLY <2>1, <2>3, <3>1, LoadSets
    <3> HIDE DEF S2
    <3>3. Typed(S3) /\ S3.B = S2.B /\ S3.x[r2] = a2 /\ \A q \in 0..Register : q # r2 => S3.x[q] = S2.x[q]
      BY ONLY <2>1, <2>3, <3>2, LoadSets
    <3> HIDE DEF S3
    <3>4. Typed(S4) /\ S4.B = S3.B /\ S4.x[r3] = a3 /\ \A q \in 0..Register : q # r3 => S4.x[q] = S3.x[q]
      BY ONLY <2>1, <2>3, <3>3, LoadSets
    <3> HIDE DEF S4
    <3> QED BY <2>1, <3>1, <3>2, <3>3, <3>4, <3>5
  <2>6. /\ T.x[from] = a0 /\ T.x[from + 1] = a1 /\ T.x[from + 2] = a2 /\ T.x[from + 3] = a3
    BY <2>5 DEF r1, r2, r3
  <2>7. \A q \in 0..7 : (q < from \/ from + 3 < q) => T.x[q] = G.x[q]
    BY <2>2, <2>5
  <2> QED BY <2>5, <2>6, <2>7 DEF a0, a1, a2, a3
<1>7. ASSUME NEW e \in 0..3 PROVE T.x[from + e] = A_(row, col + e)
  <2>1. e = 0 \/ e = 1 \/ e = 2 \/ e = 3
    OBVIOUS
  <2>2. from + 0 = from /\ col + 0 = col
    OBVIOUS
  <2> QED BY <1>6, <2>1, <2>2
<1> QED BY <1>4, <1>6, <1>7

\* Four registers are stored.
LEMMA StoresRun ==
  ASSUME Handles(shape), N = 64, NEW from, NEW row, NEW col, NEW s, Within(s, from, row, col), NEW S, Typed(Run(S, s)),
         Held(Run(S, s), from, row, col), NEW L, L = s \o Stores(from, col, row)
  PROVE  HalfStored(Run(S, s), Run(S, L), row, col)
<1> SUFFICES ASSUME from \in {0, 4}, row \in 0..(N - 1), col \in Nat, col + 3 < M, s \in Seq(Moves),
                    NEW G, G = Run(S, s), Typed(G), Held(G, from, row, col),
                    NEW T, T = Run(S, s \o Stores(from, col, row))
             PROVE  Typed(T) /\ T.x = G.x /\ Wrote(G.B, T.B, {row} \X (col..(col + 3)))
  BY DEF Within, HalfStored
<1> DEFINE a == Store(from, B_(col, row))
           b == Store(from + 1, B_(col + 1, row))
           c == Store(from + 2, B_(col + 2, row))
           d == Store(from + 3, B_(col + 3, row))
<1>1. a \in Moves /\ b \in Moves /\ c \in Moves /\ d \in Moves
  <2>1. \A e \in 0..3 : Store(from + e, B_(col + e, row)) \in Moves
    BY StoresAre
  <2>2. a = Store(from + 0, B_(col + 0, row))
    OBVIOUS
  <2>3. 0 \in 0..3 /\ 1 \in 0..3 /\ 2 \in 0..3 /\ 3 \in 0..3
    OBVIOUS
  <2> QED BY <2>1, <2>2, <2>3
<1>2. Stores(from, col, row) = <<a, b, c, d>>
  BY StoresAre
<1>4. T = Make(Make(Make(Make(G, a), b), c), d)
  <2> HIDE DEF a, b, c, d
  <2>1. Run(S, s \o <<a, b, c, d>>) = Make(Make(Make(Make(Run(S, s), a), b), c), d)
    BY <1>1, RunFour
  <2> QED BY <1>2, <2>1
<1>5. from \in 0..4
  OBVIOUS
<1>6. /\ G.x[from] = A_(row, col) /\ G.x[from + 1] = A_(row, col + 1)
      /\ G.x[from + 2] = A_(row, col + 2) /\ G.x[from + 3] = A_(row, col + 3)
  <2>1. from + 0 = from /\ col + 0 = col
    OBVIOUS
  <2>3. 0 \in 0..3 /\ 1 \in 0..3 /\ 2 \in 0..3 /\ 3 \in 0..3
    OBVIOUS
  <2> QED BY <2>1, <2>3 DEF Held
<1> DEFINE S1 == Make(G, Store(from, B_(col, row)))
           S2 == Make(S1, Store(from + 1, B_(col + 1, row)))
           S3 == Make(S2, Store(from + 2, B_(col + 2, row)))
           S4 == Make(S3, Store(from + 3, B_(col + 3, row)))
<1>0. M \in Nat
  BY DEF Handles, M
<1>7. /\ from \in 0..Register /\ from + 1 \in 0..Register /\ from + 2 \in 0..Register /\ from + 3 \in 0..Register
      /\ col \in 0..(M - 1) /\ col + 1 \in 0..(M - 1) /\ col + 2 \in 0..(M - 1) /\ col + 3 \in 0..(M - 1)
  BY <1>0 DEF Register
<1>8. T = S4
  BY <1>4
<1> HIDE DEF a, b, c, d
<1>9. Typed(S1) /\ S1.x = G.x /\ Wrote(G.B, S1.B, {<<row, col>>})
  BY <1>6, <1>7, StoreIs
<1> HIDE DEF S1
<1>10. Typed(S2) /\ S2.x = G.x /\ Wrote(S1.B, S2.B, {<<row, col + 1>>})
  <2>1. S1.x[from + 1] = A_(row, col + 1)
    BY <1>6, <1>9
  <2> QED BY <1>7, <1>9, <2>1, StoreIs
<1> HIDE DEF S2
<1>11. Typed(S3) /\ S3.x = G.x /\ Wrote(S2.B, S3.B, {<<row, col + 2>>})
  <2>1. S2.x[from + 2] = A_(row, col + 2)
    BY <1>6, <1>10
  <2> QED BY <1>7, <1>10, <2>1, StoreIs
<1> HIDE DEF S3
<1>12. Typed(S4) /\ S4.x = G.x /\ Wrote(S3.B, S4.B, {<<row, col + 3>>})
  <2>1. S3.x[from + 3] = A_(row, col + 3)
    BY <1>6, <1>11
  <2> QED BY <1>7, <1>11, <2>1, StoreIs
<1> HIDE DEF S4
<1>13. Wrote(G.B, S2.B, {<<row, col>>} \cup {<<row, col + 1>>})
  BY <1>9, <1>10, WroteTwice
<1>14. Wrote(G.B, S3.B, ({<<row, col>>} \cup {<<row, col + 1>>}) \cup {<<row, col + 2>>})
  BY <1>11, <1>13, WroteTwice
<1>15. Wrote(G.B, S4.B, (({<<row, col>>} \cup {<<row, col + 1>>}) \cup {<<row, col + 2>>}) \cup {<<row, col + 3>>})
  BY <1>12, <1>14, WroteTwice
<1>16. ASSUME NEW row2 \in 0..(N - 1), NEW col2 \in 0..(M - 1)
       PROVE  <<row2, col2>> \in (({<<row, col>>} \cup {<<row, col + 1>>}) \cup {<<row, col + 2>>}) \cup {<<row, col + 3>>}
                <=> <<row2, col2>> \in {row} \X (col..(col + 3))
  <2>1. col2 \in Int
    BY <1>0
  <2>2. col2 \in col..(col + 3) <=> col2 = col \/ col2 = col + 1 \/ col2 = col + 2 \/ col2 = col + 3
    BY <2>1
  <2> QED BY ONLY <2>2
<1>17. Wrote(G.B, S4.B, {row} \X (col..(col + 3)))
  <2> DEFINE D == (({<<row, col>>} \cup {<<row, col + 1>>}) \cup {<<row, col + 2>>}) \cup {<<row, col + 3>>}
             F == {row} \X (col..(col + 3))
  <2>1. \A row2 \in 0..(N - 1), col2 \in 0..(M - 1) : <<row2, col2>> \in D <=> <<row2, col2>> \in F
    BY <1>16
  <2>2. Wrote(G.B, S4.B, D)
    BY <1>15
  <2> HIDE DEF D, F
  <2>3. Wrote(G.B, S4.B, F)
    BY <2>1, <2>2, WroteSame
  <2> QED BY <2>3 DEF F
<1> QED BY <1>8, <1>12, <1>17

\* What a row of the 64 by 64 matrix stores.
Half(n) == IF n <= 7 THEN {i + n} \X (j..(j + 3)) ELSE {i + 15 - n} \X ((j + 4)..(j + 7))

\* Nothing before the first access.
LEMMA LoadsSeq ==
  ASSUME Handles(shape), NEW row, row \in 0..(N - 1), NEW col, col \in Nat, col + 3 < M
  PROVE  /\ Loads(0, row, col) \in Seq(Moves) /\ <<>> \o Loads(0, row, col) = Loads(0, row, col)
         /\ N = 64 => <<>> \o Stores(4, col, row) = Stores(4, col, row)
<1> DEFINE a(c) == Load(c, A_(row, col + c))
           b(c) == Store(4 + c, B_(col + c, row))
<1>0. M \in Nat
  BY DEF Handles, M
<1>1. /\ 0 \in 0..3 /\ 1 \in 0..3 /\ 2 \in 0..3 /\ 3 \in 0..3 /\ 0 \in {0, 4} /\ 4 \in {0, 4} /\ col + 0 = col
      /\ 0 + 0 = 0 /\ 0 + 1 = 1 /\ 0 + 2 = 2 /\ 0 + 3 = 3
  OBVIOUS
<1>2. ASSUME NEW c \in 0..3 PROVE a(c) \in Moves /\ b(c) \in Moves
  <2>1. c \in 0..Register /\ 4 + c \in 0..Register /\ col + c \in 0..(M - 1)
    BY <1>0 DEF Register
  <2> QED BY <2>1, MovesAre
<1>3. a(0) \in Moves /\ a(1) \in Moves /\ a(2) \in Moves /\ a(3) \in Moves
      /\ b(0) \in Moves /\ b(1) \in Moves /\ b(2) \in Moves /\ b(3) \in Moves
  <2> HIDE DEF a, b
  <2> QED BY <1>1, <1>2
<1>4. Loads(0, row, col) = <<a(0), a(1), a(2), a(3)>>
  <2>1. Loads(0, row, col) =
          <<Load(0, A_(row, col)), Load(0 + 1, A_(row, col + 1)), Load(0 + 2, A_(row, col + 2)), Load(0 + 3, A_(row, col + 3))>>
    BY <1>1, LoadsAre
  <2> QED BY <1>1, <2>1
<1>5. N = 64 => Stores(4, col, row) = <<b(0), b(1), b(2), b(3)>>
  <2> SUFFICES ASSUME N = 64 PROVE Stores(4, col, row) = <<b(0), b(1), b(2), b(3)>>
    OBVIOUS
  <2>1. Stores(4, col, row) =
          <<Store(4, B_(col, row)), Store(4 + 1, B_(col + 1, row)), Store(4 + 2, B_(col + 2, row)), Store(4 + 3, B_(col + 3, row))>>
    BY <1>1, StoresAre
  <2> QED BY <1>1, <2>1
<1> HIDE DEF a, b
<1>6. <<a(0), a(1), a(2), a(3)>> \in Seq(Moves) /\ <<b(0), b(1), b(2), b(3)>> \in Seq(Moves)
  BY <1>3
<1>7. \A s \in Seq(Moves) : <<>> \o s = s
  OBVIOUS
<1>8. Loads(0, row, col) \in Seq(Moves) /\ (N = 64 => Stores(4, col, row) \in Seq(Moves))
  BY <1>4, <1>5, <1>6
<1> QED BY <1>7, <1>8

\* A half of a row, loaded and stored.
HalfCopied(S, T, row, col) ==
  Typed(T) /\ Wrote(S.B, T.B, {row} \X (col..(col + 3))) /\ \A q \in 4..7 : T.x[q] = S.x[q]

\* It stores that half, and keeps x4 to x7.
LEMMA HalfIs ==
  ASSUME Handles(shape), N = 64, NEW row, row \in 0..(N - 1), NEW col, col \in Nat, col + 3 < M,
         NEW S, Typed(S), NEW L, L = Loads(0, row, col) \o Stores(0, col, row)
  PROVE  HalfCopied(S, Run(S, L), row, col)
<1> DEFINE E == <<>>
           H == Loads(0, row, col)
<1>1. E \in Seq(Moves) /\ Run(S, E) = S /\ H = E \o Loads(0, row, col) /\ H \in Seq(Moves)
  <2>1. Loads(0, row, col) \in Seq(Moves) /\ <<>> \o Loads(0, row, col) = Loads(0, row, col)
    BY LoadsSeq
  <2>2. E \in Seq(Moves) /\ Run(S, E) = S
    BY RunNone
  <2> QED BY <2>1, <2>2
<1>2. Within(E, 0, row, col) /\ Within(H, 0, row, col)
  BY <1>1 DEF Within
<1>3. L = H \o Stores(0, col, row)
  OBVIOUS
<1> HIDE DEF E, H
<1>4. HalfLoaded(Run(S, E), Run(S, H), 0, row, col)
  <2>1. Typed(Run(S, E))
    BY <1>1
  <2> QED BY <1>1, <1>2, <2>1, LoadsRun
<1>5. Typed(Run(S, H)) /\ Run(S, H).B = S.B /\ Held(Run(S, H), 0, row, col)
      /\ \A q \in 4..7 : Run(S, H).x[q] = S.x[q]
  <2>1. \A q \in 4..7 : q \in 0..7 /\ 0 + 3 < q
    OBVIOUS
  <2> QED BY <1>1, <1>4, <2>1 DEF HalfLoaded
<1>6. HalfStored(Run(S, H), Run(S, L), row, col)
  BY <1>2, <1>3, <1>5, StoresRun
<1> QED BY <1>5, <1>6 DEF HalfStored, HalfCopied

\* The right half of the first row of the block is in x4 to x7.
Held4(S) == Held(S, 4, i, j + 4)

\* A row of the 64 by 64 matrix stores one half of a row.
LEMMA Row64Is ==
  ASSUME Handles(shape), N = 64, j \in Nat, i \in Nat, k \in 0..15, i + 7 < N, j + 7 < M,
         NEW S, Typed(S), k > 0 => Held4(S)
  PROVE  Typed(Run(S, Row64)) /\ Held4(Run(S, Row64)) /\ Wrote(S.B, Run(S, Row64).B, Half(k))
<1> DEFINE T == Run(S, Row64)
<1>0. /\ M \in Nat /\ i \in 0..(N - 1) /\ j + 4 \in Nat /\ j + 3 < M /\ (j + 4) + 3 < M
      /\ (j + 4) + 3 = j + 7 /\ 0 \in {0, 4} /\ 4 \in {0, 4}
  BY DEF Handles, M
<1> DEFINE E == <<>>
<1>1. E \in Seq(Moves) /\ Run(S, E) = S
  BY RunNone
<1>2. CASE k = 0
  <2> DEFINE H == Loads(0, i, j)
             G == H \o Loads(4, i, j + 4)
  <2>1. H = E \o Loads(0, i, j) /\ H \in Seq(Moves)
    BY <1>0, LoadsSeq
  <2>2. Row64 = G \o Stores(0, j, i)
    BY <1>2 DEF Row64
  <2>3. G = H \o Loads(4, i, j + 4)
    OBVIOUS
  <2> HIDE DEF E, H, G
  <2>4. Within(E, 0, i, j) /\ Within(H, 4, i, j + 4)
    BY <1>0, <1>1, <2>1 DEF Within
  <2>5. HalfLoaded(Run(S, E), Run(S, H), 0, i, j)
    <3>1. Typed(Run(S, E))
      BY <1>1
    <3> QED BY <2>1, <2>4, <3>1, LoadsRun
  <2>6. Typed(Run(S, H)) /\ Run(S, H).B = S.B /\ Held(Run(S, H), 0, i, j)
    BY <1>1, <2>5 DEF HalfLoaded
  <2>7. G \in Seq(Moves) /\ HalfLoaded(Run(S, H), Run(S, G), 4, i, j + 4)
    BY <2>3, <2>4, <2>6, LoadsRun
  <2>8. Typed(Run(S, G)) /\ Run(S, G).B = S.B /\ Held4(Run(S, G))
    BY <2>6, <2>7 DEF HalfLoaded, Held4
  <2>9. Held(Run(S, G), 0, i, j)
    <3>1. \A c \in 0..3 : 0 + c \in 0..7 /\ 0 + c < 4
      OBVIOUS
    <3>2. \A c \in 0..3 : Run(S, G).x[0 + c] = Run(S, H).x[0 + c]
      BY <2>7, <3>1 DEF HalfLoaded
    <3> QED BY <2>6, <3>2 DEF Held
  <2>10. HalfStored(Run(S, G), T, i, j)
    <3>1. Within(G, 0, i, j)
      BY <1>0, <2>7 DEF Within
    <3> QED BY <2>2, <2>8, <2>9, <3>1, StoresRun
  <2>11. Half(k) = {i} \X (j..(j + 3))
    BY <1>2 DEF Half
  <2> HIDE DEF T
  <2>12. Held4(T)
    BY <2>8, <2>10 DEF HalfStored, Held4, Held
  <2> QED BY <2>8, <2>10, <2>11, <2>12 DEF HalfStored, T
<1>3. ASSUME NEW row, row \in 0..(N - 1), NEW col, col \in Nat, col + 3 < M, k > 0,
             Row64 = Loads(0, row, col) \o Stores(0, col, row), Half(k) = {row} \X (col..(col + 3))
      PROVE  Typed(T) /\ Held4(T) /\ Wrote(S.B, T.B, Half(k))
  <2>1. /\ Typed(T) /\ Wrote(S.B, T.B, {row} \X (col..(col + 3)))
        /\ \A q \in 4..7 : T.x[q] = S.x[q]
    <3> DEFINE L == Row64
    <3>1. L = Loads(0, row, col) \o Stores(0, col, row) /\ Handles(shape) /\ N = 64 /\ Typed(S)
      BY <1>3
    <3> HIDE DEF L
    <3>2. HalfCopied(S, Run(S, L), row, col)
      BY ONLY <1>3, <3>1, HalfIs
    <3> QED BY <3>2 DEF L, HalfCopied
  <2> HIDE DEF T
  <2>2. Held4(T)
    <3>1. \A c \in 0..3 : 4 + c \in 4..7
      OBVIOUS
    <3> QED BY <1>3, <2>1, <3>1 DEF Held4, Held
  <2> QED BY <1>3, <2>1, <2>2
<1>4. CASE k \in 1..7
  <2>1. i + k \in 0..(N - 1) /\ j \in Nat /\ j + 3 < M /\ k > 0
    BY <1>0, <1>4
  <2>2. Row64 = Loads(0, i + k, j) \o Stores(0, j, i + k)
    <3>1. k # 0 /\ k \notin 8..14 /\ k # 15
      BY <1>4
    <3> QED BY <1>4, <3>1 DEF Row64
  <2>3. Half(k) = {i + k} \X (j..(j + 3))
    BY <1>4 DEF Half
  <2> QED BY <1>3, <2>1, <2>2, <2>3
<1>5. CASE k \in 8..14
  <2>1. i + 15 - k \in 0..(N - 1) /\ j + 4 \in Nat /\ (j + 4) + 3 < M /\ k > 0
    BY <1>0, <1>5
  <2>2. Row64 = Loads(0, i + 15 - k, j + 4) \o Stores(0, j + 4, i + 15 - k)
    <3>1. k # 0 /\ k \notin 1..7 /\ k # 15
      BY <1>5
    <3> QED BY <1>5, <3>1 DEF Row64
  <2>3. Half(k) = {i + 15 - k} \X ((j + 4)..((j + 4) + 3))
    BY <1>0, <1>5 DEF Half
  <2> QED BY <1>3, <2>1, <2>2, <2>3
<1>6. CASE k = 15
  <2>1. Row64 = E \o Stores(4, j + 4, i)
    <3>1. Row64 = Stores(4, j + 4, i)
      BY <1>6 DEF Row64
    <3> QED BY <1>0, <3>1, LoadsSeq
  <2> HIDE DEF E
  <2>2. Within(E, 4, i, j + 4)
    BY <1>0, <1>1 DEF Within
  <2>3. Typed(Run(S, E)) /\ Held(Run(S, E), 4, i, j + 4)
    BY <1>1, <1>6 DEF Held4
  <2>4. HalfStored(Run(S, E), T, i, j + 4)
    BY <2>1, <2>2, <2>3, StoresRun
  <2>5. Half(k) = {i} \X ((j + 4)..((j + 4) + 3))
    BY <1>0, <1>6 DEF Half
  <2> HIDE DEF T
  <2>6. Held4(T)
    BY <1>6, <1>1, <2>4 DEF HalfStored, Held4, Held
  <2> QED BY <1>1, <2>4, <2>5, <2>6 DEF HalfStored, T
<1>7. k = 0 \/ k \in 1..7 \/ k \in 8..14 \/ k = 15
  OBVIOUS
<1> QED BY <1>2, <1>4, <1>5, <1>6, <1>7

-----------------------------------------------------------------------------
(* From row to row.                                                        *)

\* What row n of the block at <<ii, jj>> stores.
Does(jj, ii, n) ==
  IF N = 64 THEN (IF n <= 7 THEN {ii + n} \X (jj..(jj + 3)) ELSE {ii + 15 - n} \X ((jj + 4)..(jj + 7)))
            ELSE {n} \X (jj..(jj + Step - 1))

\* The elements that are stored when row kk of the block at <<ii, jj>> is next.
Before(jj, ii, kk, row, col) ==
  \/ col < jj
  \/ col < jj + Step /\ row < ii
  \/ \E n \in FirstRow(ii)..(kk - 1) : <<row, col>> \in Does(jj, ii, n)

\* A row of a block of any size stores its elements, and nothing else.
LEMMA RowIs ==
  ASSUME Handles(shape), j \in Nat, i \in 0..(N - 1), k \in FirstRow(i)..LastRow,
         j % Step = 0, i % Step = 0, j < M, NEW S, Typed(S), N = 64 /\ k > 0 => Held4(S)
  PROVE  /\ Typed(Run(S, Row)) /\ Wrote(S.B, Run(S, Row).B, Does(j, i, k))
         /\ N = 64 => Held4(Run(S, Row))
<1>0. M \in Nat /\ N \in {32, 64, 67} /\ (N # 67 => M % 8 = 0) /\ i \in Nat
  BY DEF Handles, M, N
<1>1. CASE N = 32
  <2>1. Row = Row32 /\ Step = 8
    BY <1>1 DEF Row, Step
  <2>2. k \in i..(i + 7) /\ M % 8 = 0 /\ j % 8 = 0 /\ i % 8 = 0
    BY <1>0, <1>1, <2>1 DEF FirstRow, LastRow
  <2>3. k < N /\ j + 7 < M
    BY <1>0, <1>1, <2>2
  <2>4. Typed(Run(S, Row32)) /\ Wrote(S.B, Run(S, Row32).B, Across(8))
    BY <1>0, <1>1, <2>2, <2>3, Row32Is
  <2>5. Across(8) = Does(j, i, k)
    BY <1>1, <2>1 DEF Across, Does
  <2> QED BY <1>1, <2>1, <2>4, <2>5
<1>2. CASE N = 67
  <2>1. Row = Row67 /\ Step = 20
    BY <1>2 DEF Row, Step
  <2>2. k \in Nat
    BY <1>0, <1>2 DEF FirstRow, LastRow, Step
  <2>4. Typed(Run(S, Row67)) /\ Wrote(S.B, Run(S, Row67).B, Across(20))
    BY <1>2, <2>2, Row67Is
  <2>5. Across(20) = Does(j, i, k)
    BY <1>2, <2>1 DEF Across, Does
  <2> QED BY <1>2, <2>1, <2>4, <2>5
<1>3. CASE N = 64
  <2>1. Row = Row64 /\ Step = 8
    BY <1>3 DEF Row, Step
  <2>2. k \in 0..15 /\ M % 8 = 0 /\ j % 8 = 0 /\ i % 8 = 0
    BY <1>0, <1>3, <2>1 DEF FirstRow, LastRow
  <2>3. i + 7 < N /\ j + 7 < M
    BY <1>0, <1>3, <2>2
  <2>4. Typed(Run(S, Row64)) /\ Held4(Run(S, Row64)) /\ Wrote(S.B, Run(S, Row64).B, Half(k))
    BY <1>0, <1>3, <2>2, <2>3, Row64Is
  <2>5. Half(k) = Does(j, i, k)
    BY <1>3 DEF Half, Does
  <2> QED BY <2>1, <2>4, <2>5
<1> QED BY <1>0, <1>1, <1>2, <1>3

\* The rows of a block store all of it.
LEMMA WholeBlock ==
  ASSUME Handles(shape), NEW jj \in Nat, NEW ii \in Nat, ii % Step = 0,
         NEW row \in ii..(ii + Step - 1), NEW col \in jj..(jj + Step - 1)
  PROVE  \E n \in FirstRow(ii)..(IF N = 64 THEN 15 ELSE ii + Step - 1) : <<row, col>> \in Does(jj, ii, n)
<1>0. N \in {32, 64, 67}
  BY DEF Handles, N
<1>1. CASE N = 64 /\ col - jj <= 3
  <2>1. row - ii \in 0..7 /\ ii + (row - ii) = row /\ col \in jj..(jj + 3)
    BY <1>1 DEF Step
  <2>2. <<row, col>> \in Does(jj, ii, row - ii)
    BY <1>1, <2>1 DEF Does
  <2>3. row - ii \in FirstRow(ii)..15
    BY <1>1, <2>1 DEF FirstRow
  <2> QED BY <1>1, <2>2, <2>3
<1>2. CASE N = 64 /\ ~(col - jj <= 3)
  <2>1. 15 - (row - ii) \in 8..15 /\ ii + 15 - (15 - (row - ii)) = row /\ col \in (jj + 4)..(jj + 7)
    BY <1>2 DEF Step
  <2>2. <<row, col>> \in Does(jj, ii, 15 - (row - ii))
    BY <1>2, <2>1 DEF Does
  <2>3. 15 - (row - ii) \in FirstRow(ii)..15
    BY <1>2, <2>1 DEF FirstRow
  <2> QED BY <1>2, <2>2, <2>3
<1>3. CASE N # 64
  <2>1. <<row, col>> \in Does(jj, ii, row)
    BY <1>3 DEF Does
  <2>2. row \in FirstRow(ii)..(ii + Step - 1)
    BY <1>3 DEF FirstRow
  <2> QED BY <1>3, <2>1, <2>2
<1> QED BY <1>1, <1>2, <1>3

\* The loops of transpose_submit.
Walks(jj, ii, kk, S, st) ==
  /\ Handles(shape) /\ Typed(S) /\ jj \in Nat /\ jj % Step = 0
  /\ ii \in 0..(N - 1) /\ ii % Step = 0
  /\ kk \in FirstRow(ii)..(IF N = 64 THEN 15 ELSE ii + Step - 1)
  /\ \A row \in 0..(N - 1), col \in 0..(M - 1) : Before(jj, ii, kk, row, col) => S.B[B_(col, row)] = A_(row, col)
  /\ N = 64 /\ kk > 0 => Held(S, 4, ii, jj + 4)
  /\ st # "reading" => jj >= M
Now == [cache |-> cache, x |-> x, B |-> B]
TransInv == shape = NoMatrix \/ (shape \in Shapes /\ Walks(j, i, k, Now, status))

\* A row keeps what the loops have done, and goes on.
LEMMA WalksOn ==
  ASSUME Handles(shape), Walks(j, i, k, Now, status), NextRow
  PROVE  Walks(j', i', k', Now', status')
<1> DEFINE S == Run(Now, Row)
<1>0. /\ M \in Nat /\ N \in {32, 64, 67} /\ j \in Nat /\ i \in 0..(N - 1) /\ k \in FirstRow(i)..LastRow
      /\ j % Step = 0 /\ i % Step = 0 /\ j < M /\ Typed(Now) /\ (N = 64 /\ k > 0 => Held4(Now)) /\ status' = status
      /\ LastRow = (IF N = 64 THEN 15 ELSE i + Step - 1) /\ status = "reading"
  BY DEF Walks, Handles, M, N, LastRow, NextRow, Held4
<1>1. x' = S.x /\ B' = S.B
  BY DEF NextRow, Run, Now
<1>2. Typed(S) /\ Wrote(Now.B, S.B, Does(j, i, k)) /\ (N = 64 => Held4(S))
  BY <1>0, RowIs
<1>3. Now'.x = S.x /\ Now'.B = S.B /\ Typed(Now') /\ (N = 64 => Held(Now', 4, i, j + 4))
  <2> HIDE DEF S
  <2>1. Now'.x = S.x /\ Now'.B = S.B
    BY <1>1 DEF Now
  <2> QED BY <1>2, <2>1 DEF Typed, Held4, Held
<1> HIDE DEF S
<1>4. ASSUME NEW row \in 0..(N - 1), NEW col \in 0..(M - 1),
             Before(j, i, k, row, col) \/ <<row, col>> \in Does(j, i, k)
      PROVE  Now'.B[B_(col, row)] = A_(row, col)
  BY <1>2, <1>3, <1>4 DEF Walks, Wrote
<1>5. Step \in {8, 20} /\ Step \in Nat /\ (N = 67 <=> Step = 20)
  BY DEF Step
<1>6. CASE k < LastRow /\ k' = k + 1 /\ UNCHANGED <<i, j>>
  <2>1. k' \in FirstRow(i)..LastRow /\ (k' - 1) = k
    BY <1>0, <1>5, <1>6 DEF FirstRow, LastRow
  <2>2. ASSUME NEW row, NEW col, Before(j, i, k', row, col)
        PROVE  Before(j, i, k, row, col) \/ <<row, col>> \in Does(j, i, k)
    <3>1. \A n \in FirstRow(i)..(k' - 1) : n = k \/ n \in FirstRow(i)..(k - 1)
      <4>1. FirstRow(i) \in Int /\ k \in Int /\ k' = k + 1
        BY <1>0, <1>5, <1>6 DEF FirstRow, LastRow
      <4> QED BY ONLY <4>1
    <3> QED BY <2>2, <3>1 DEF Before
  <2>3. /\ Typed(Now') /\ j' = j /\ i' = i
        /\ \A row \in 0..(N - 1), col \in 0..(M - 1) : Before(j, i, k', row, col) => Now'.B[B_(col, row)] = A_(row, col)
    BY <1>3, <1>4, <1>6, <2>2
  <2> QED BY <1>0, <1>3, <2>1, <2>3 DEF Walks
<1>7. ASSUME k = LastRow, NEW row \in 0..(N - 1), NEW col \in 0..(M - 1), col < j + Step, row < i + Step
      PROVE  Now'.B[B_(col, row)] = A_(row, col)
  <2>1. CASE col < j \/ row < i
    <3>1. Before(j, i, k, row, col)
      BY <1>7, <2>1 DEF Before
    <3> QED BY <1>4, <3>1
  <2>2. CASE ~(col < j \/ row < i)
    <3>1. row \in i..(i + Step - 1) /\ col \in j..(j + Step - 1)
      BY <1>0, <1>5, <1>7, <2>2
    <3>2. PICK n \in FirstRow(i)..LastRow : <<row, col>> \in Does(j, i, n)
      BY <1>0, <3>1, WholeBlock
    <3>3. n = k \/ n \in FirstRow(i)..(k - 1)
      BY <1>0, <1>5, <1>7, <3>2 DEF FirstRow, LastRow
    <3>4. Before(j, i, k, row, col) \/ <<row, col>> \in Does(j, i, k)
      BY <3>2, <3>3 DEF Before
    <3> QED BY <1>4, <3>4
  <2> QED BY <2>1, <2>2
<1>8. CASE k = LastRow /\ i + Step < N /\ i' = i + Step /\ k' = FirstRow(i') /\ UNCHANGED j
  <2> DEFINE f == FirstRow(i + Step)
  <2>1. /\ i + Step \in 0..(N - 1) /\ (i + Step) % Step = 0
        /\ f \in FirstRow(i + Step)..(IF N = 64 THEN 15 ELSE (i + Step) + Step - 1)
        /\ FirstRow(i + Step)..(f - 1) = {} /\ ~(N = 64 /\ f > 0)
    BY <1>0, <1>5, <1>8 DEF FirstRow
  <2>2. k' = f /\ j' = j /\ i' = i + Step
    BY <1>8 DEF FirstRow
  <2>3. ASSUME NEW row \in 0..(N - 1), NEW col \in 0..(M - 1), Before(j, i + Step, f, row, col)
        PROVE  Now'.B[B_(col, row)] = A_(row, col)
    <3>1. col < j \/ (col < j + Step /\ row < i + Step)
      BY <2>1, <2>3 DEF Before
    <3>2. CASE col < j
      <4>1. Before(j, i, k, row, col)
        BY <3>2 DEF Before
      <4> QED BY <1>4, <4>1
    <3>3. CASE col < j + Step /\ row < i + Step
      BY <1>7, <1>8, <3>3
    <3> QED BY <3>1, <3>2, <3>3
  <2> HIDE DEF f
  <2> QED BY <1>0, <1>3, <2>1, <2>2, <2>3 DEF Walks
<1>9. CASE k = LastRow /\ i + Step >= N /\ i' = 0 /\ k' = 0 /\ j' = j + Step
  <2>1. /\ j + Step \in Nat /\ (j + Step) % Step = 0 /\ 0 \in 0..(N - 1) /\ 0 % Step = 0
        /\ 0 \in FirstRow(0)..(IF N = 64 THEN 15 ELSE 0 + Step - 1) /\ FirstRow(0)..(0 - 1) = {}
    BY <1>0, <1>5 DEF FirstRow
  <2>2. ASSUME NEW row \in 0..(N - 1), NEW col \in 0..(M - 1), Before(j + Step, 0, 0, row, col)
        PROVE  Now'.B[B_(col, row)] = A_(row, col)
    <3>1. col < j + Step /\ row < i + Step
      BY <1>0, <1>5, <1>9, <2>1, <2>2 DEF Before
    <3> QED BY <1>7, <1>9, <3>1
  <2> QED BY <1>0, <1>3, <1>9, <2>1, <2>2 DEF Walks
<1> QED BY <1>6, <1>8, <1>9 DEF NextRow

\* The matrix does not change, nor do its places.
LEMMA WalksPrimed ==
  ASSUME shape' = shape, Walks(j', i', k', Now', status')
  PROVE  Walks(j, i, k, Now, status)'
BY DEF Walks, Handles, Typed, Before, Does, FirstRow, Step, Held, A_, B_, M, N

\* The same, when the walk does not go on.
LEMMA WalksStill ==
  ASSUME TransInv, UNCHANGED transVars, shape = NoMatrix \/ status' = status \/ j >= M
  PROVE  TransInv'
<1>1. shape' = shape /\ j' = j /\ i' = i /\ k' = k /\ x' = x /\ B' = B
  BY DEF transVars
<1>2. CASE shape = NoMatrix
  BY <1>1, <1>2 DEF TransInv
<1>3. CASE shape # NoMatrix
  <2>1. shape \in Shapes /\ Walks(j, i, k, Now, status)
    BY <1>3 DEF TransInv
  <2>2. Now'.x = Now.x /\ Now'.B = Now.B
    BY <1>1 DEF Now
  <2>3. status' # "reading" => j >= M
    BY <1>3, <2>1 DEF Walks
  <2>4. Walks(j, i, k, Now', status')
    BY <2>1, <2>2, <2>3 DEF Walks, Typed, Held
  <2> QED BY <1>1, <2>1, <2>4, WalksPrimed DEF TransInv
<1> QED BY <1>2, <1>3

\* The matrices are of numbers of rows for which transpose_submit has code.
Handled == \A s \in Shapes : Handles(s)

\* The first state.
LEMMA TransStart == ASSUME Handled, Init PROVE TransInv
<1> SUFFICES ASSUME shape \in Shapes, Start([sets |-> 5, associativity |-> 1, blocks |-> 5])
             PROVE  Walks(0, 0, 0, Now, "reading") /\ j = 0 /\ i = 0 /\ k = 0 /\ status = "reading"
  BY DEF Init, TransInv
<1>1. j = 0 /\ i = 0 /\ k = 0 /\ x = [r \in 0..Register |-> -1] /\ B = [b \in 0..(M * N - 1) |-> -1] /\ status = "reading"
  BY DEF Init, Start
<1>2. Handles(shape) /\ N \in {32, 64, 67} /\ M \in Nat
  BY DEF Handled, Handles, M, N
<1>3. Typed(Now)
  <2>1. -1 \in Int
    OBVIOUS
  <2>2. Now.x \in [0..Register -> Int]
    BY <1>1, <2>1 DEF Now
  <2>3. Now.B \in [0..(M * N - 1) -> Int]
    BY <1>1, <2>1 DEF Now
  <2> QED BY <2>2, <2>3 DEF Typed
<1>4. Step \in {8, 20} /\ 0 % Step = 0 /\ 0 \in 0..(N - 1) /\ FirstRow(0) = 0
      /\ 0 \in FirstRow(0)..(IF N = 64 THEN 15 ELSE 0 + Step - 1)
  BY <1>2 DEF Step, FirstRow
<1>5. \A row \in 0..(N - 1), col \in 0..(M - 1) : ~Before(0, 0, 0, row, col)
  BY <1>2, <1>4 DEF Before
<1> QED BY <1>1, <1>2, <1>3, <1>4, <1>5 DEF Walks

\* Every step keeps the invariant.
LEMMA TransStep == ASSUME Handled, TransInv, [Next]_<<vars, transVars>> PROVE TransInv'
<1>1. CASE NextRow
  <2>1. shape \in Shapes /\ Walks(j, i, k, Now, status) /\ shape' = shape
    BY <1>1 DEF NextRow, TransInv
  <2>2. Walks(j', i', k', Now', status')
    BY <1>1, <2>1, WalksOn DEF Handled
  <2> QED BY <2>1, <2>2, WalksPrimed DEF TransInv
<1>2. CASE shape = NoMatrix /\ ReadFile /\ UNCHANGED transVars
  BY <1>2, WalksStill
<1>3. CASE Returned
  BY <1>3, WalksStill DEF Returned
<1>4. CASE UNCHANGED <<vars, transVars>>
  <2>1. UNCHANGED transVars /\ status' = status
    BY <1>4 DEF vars
  <2> QED BY <2>1, WalksStill
<1> QED BY <1>1, <1>2, <1>3, <1>4 DEF Next

\* When the walk is over every element is stored.
LEMMA TransDone == ASSUME TransInv PROVE is_transpose
<1> SUFFICES ASSUME Done, NEW row \in 0..(N - 1), NEW col \in 0..(M - 1)
             PROVE  B[B_(col, row)] = A_(row, col)
  BY DEF is_transpose
<1>1. Walks(j, i, k, Now, status) /\ j >= M
  BY DEF Done, TransInv, Walks
<1>2. M \in Nat /\ j \in Nat
  BY <1>1 DEF Walks, Handles, M
<1>3. Before(j, i, k, row, col)
  BY <1>1, <1>2 DEF Before
<1> QED BY <1>1, <1>3 DEF Walks, Now

\* transpose_submit returns with B the transpose of A, whatever the number of columns is
\* (a multiple of eight for 32 and for 64 rows; ENSURES, trans.c 142).
THEOREM Transposed == ASSUME Handled PROVE Spec => []is_transpose
<1>1. Init => TransInv
  BY TransStart
<1>2. TransInv /\ [Next]_<<vars, transVars>> => TransInv'
  BY TransStep
<1>3. TransInv => is_transpose
  BY TransDone
<1> QED BY <1>1, <1>2, <1>3, PTL DEF Spec
=============================================================================
