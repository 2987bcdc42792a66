-------------------------- MODULE ProxyCache_proofs --------------------------
(***************************************************************************)
(* Proofs about the proxy's cache, for any number of threads, nodes and    *)
(* URLs and any cache size.  First what holds with either behaviour of     *)
(* malloc; then what the cache keeps while malloc does not hand out a node *)
(* some thread still uses: readers and bytes are counted exactly, and the  *)
(* cache is a bounded least-recently-used store.                           *)
(***************************************************************************)
EXTENDS ProxyCacheLru, DataLemmas

\* The list L holds exactly the nodes of the sequence s, oldest first.
ListOf(L, s) ==
  /\ \A i, j \in 1..Len(s) : s[i] = s[j] => i = j
  /\ L.head = IF s = <<>> THEN NULL ELSE s[1]
  /\ L.rear = IF s = <<>> THEN NULL ELSE s[Len(s)]
  /\ \A i \in 1..Len(s) : L.next[s[i]] = IF i = Len(s) THEN NULL ELSE s[i + 1]
  /\ \A i \in 1..Len(s) : L.prev[s[i]] = IF i = 1 THEN NULL ELSE s[i - 1]

In(n, s) == \E i \in 1..Len(s) : s[i] = n

\* s without its k-th element.
Cut(s, k) == [i \in 1..(Len(s) - 1) |-> IF i < k THEN s[i] ELSE s[i + 1]]

-----------------------------------------------------------------------------

\* Cut removes one element of an injective sequence and keeps the others.
LEMMA CutSeq ==
  ASSUME NEW s \in Seq(Node), NEW k \in 1..Len(s),
         \A i, j \in 1..Len(s) : s[i] = s[j] => i = j
  PROVE  /\ Cut(s, k) \in Seq(Node)
         /\ Len(Cut(s, k)) = Len(s) - 1
         /\ \A i, j \in 1..Len(Cut(s, k)) : Cut(s, k)[i] = Cut(s, k)[j] => i = j
         /\ \A n : In(n, Cut(s, k)) <=> In(n, s) /\ n # s[k]
<1> DEFINE c == Cut(s, k)
<1>1. Len(s) \in Nat /\ Len(s) - 1 \in Nat /\ \A i \in 1..Len(s) : s[i] \in Node
  OBVIOUS
<1>2. c \in [1..(Len(s) - 1) -> Node]
  BY <1>1 DEF Cut
<1>3. c \in Seq(Node) /\ Len(c) = Len(s) - 1
  BY <1>1, <1>2
<1>4. \A i \in 1..(Len(s) - 1) : c[i] = IF i < k THEN s[i] ELSE s[i + 1]
  BY DEF Cut
<1>5. \A i, j \in 1..Len(c) : c[i] = c[j] => i = j
  BY <1>1, <1>3, <1>4
<1>6. ASSUME NEW n PROVE In(n, c) <=> In(n, s) /\ n # s[k]
  <2>1. ASSUME In(n, c) PROVE In(n, s) /\ n # s[k]
    BY <2>1, <1>1, <1>3, <1>4 DEF In
  <2>2. ASSUME In(n, s), n # s[k] PROVE In(n, c)
    <3>1. PICK i \in 1..Len(s) : s[i] = n
      BY <2>2 DEF In
    <3>2. CASE i < k
      <4>1. i \in 1..Len(c) /\ c[i] = n
        BY <3>1, <3>2, <1>1, <1>3, <1>4
      <4> QED BY <4>1 DEF In
    <3>3. CASE i > k
      <4>1. i - 1 \in 1..Len(c) /\ c[i - 1] = n
        BY <3>1, <3>3, <1>1, <1>3, <1>4
      <4> QED BY <4>1 DEF In
    <3> QED BY <3>1, <3>2, <3>3, <2>2
  <2> QED BY <2>1, <2>2
<1> QED BY <1>3, <1>5, <1>6

\* A sequence without its last element, and that element.
LEMMA CutLast ==
  ASSUME NEW s \in Seq(Node), Len(s) \in 1..Len(s)
  PROVE  Append(Cut(s, Len(s)), s[Len(s)]) = s
<1> DEFINE N == Len(s)
           c == Cut(s, N)
<1>1. N \in Nat /\ N >= 1 /\ \A i \in 1..N : s[i] \in Node
  OBVIOUS
<1>2. c \in [1..(N - 1) -> Node] /\ \A i \in 1..(N - 1) : c[i] = s[i]
  BY <1>1 DEF Cut
<1>3. c \in Seq(Node) /\ Len(c) = N - 1
  BY <1>1, <1>2
<1>4. Append(c, s[N]) \in Seq(Node) /\ Len(Append(c, s[N])) = N
  BY <1>1, <1>3
<1>5. ASSUME NEW i \in 1..N PROVE Append(c, s[N])[i] = s[i]
  BY <1>1, <1>2, <1>3
<1> QED BY <1>4, <1>5

\* delete_node takes exactly its argument out of the list and keeps the order of the rest.
LEMMA DeleteNodeCuts ==
  ASSUME NEW L \in ListState, NEW s \in Seq(Node), ListOf(L, s), NEW k \in 1..Len(s)
  PROVE  /\ DeleteNode(L, s[k]) \in ListState
         /\ ListOf(DeleteNode(L, s[k]), Cut(s, k))
<1> DEFINE c == Cut(s, k)
           D == DeleteNode(L, s[k])
           N == Len(s)
<1>1. N \in Nat /\ \A i \in 1..N : s[i] \in Node /\ s[i] # NULL
  BY NullAssumption
<1>2. \A i, j \in 1..N : s[i] = s[j] => i = j
  BY DEF ListOf
<1>3. /\ c \in Seq(Node) /\ Len(c) = N - 1
      /\ \A i, j \in 1..Len(c) : c[i] = c[j] => i = j
  BY <1>2, CutSeq
<1>4. \A i \in 1..(N - 1) : c[i] = IF i < k THEN s[i] ELSE s[i + 1]
  BY DEF Cut
<1>5. /\ L.next \in [Node -> Pointer \cup {Junk}] /\ L.prev \in [Node -> Pointer \cup {Junk}]
      /\ L.head \in Pointer /\ L.rear \in Pointer
  BY DEF ListState
<1>6. /\ L.next[s[k]] = IF k = N THEN NULL ELSE s[k + 1]
      /\ L.prev[s[k]] = IF k = 1 THEN NULL ELSE s[k - 1]
      /\ L.head = s[1] /\ L.rear = s[N]
  BY <1>1 DEF ListOf
<1>7. L.next[s[k]] \in Pointer /\ L.prev[s[k]] \in Pointer
  BY <1>1, <1>6 DEF Pointer
<1>8. D \in ListState
  BY <1>1, <1>5, <1>7 DEF DeleteNode, ListState, Pointer
<1>9. D.head = IF c = <<>> THEN NULL ELSE c[1]
  <2>1. D.head = IF k = 1 THEN L.next[s[k]] ELSE s[1]
    BY <1>1, <1>2, <1>6 DEF DeleteNode
  <2>2. c = <<>> <=> N = 1
    BY <1>1, <1>3
  <2>3. CASE k = 1
    <3>1. D.head = IF N = 1 THEN NULL ELSE s[2]
      BY <2>1, <2>3, <1>6
    <3>2. ASSUME N # 1 PROVE c[1] = s[2]
      <4>0. N \in Nat /\ N >= 1 /\ N # 1 /\ k \in 1..N
        BY <3>2, <1>1
      <4>1. 1 \in 1..(N - 1) /\ ~(1 < k)
        <5> HIDE DEF N
        <5> QED BY <2>3, <4>0
      <4>2. c[1] = s[1 + 1]
        BY <4>1, <1>4
      <4> QED BY <4>2
    <3> QED BY <3>1, <3>2, <2>2
  <2>4. CASE k # 1
    BY <2>1, <2>2, <2>4, <1>1, <1>4
  <2> QED BY <2>3, <2>4
<1>10. D.rear = IF c = <<>> THEN NULL ELSE c[Len(c)]
  <2>1. D.rear = IF k = N THEN L.prev[s[k]] ELSE s[N]
    BY <1>1, <1>2, <1>6 DEF DeleteNode
  <2>2. c = <<>> <=> N = 1
    BY <1>1, <1>3
  <2> QED BY <2>1, <2>2, <1>1, <1>3, <1>4, <1>6
<1>11. \A i \in 1..N : i # k =>
         D.next[s[i]] = IF i = k - 1 THEN L.next[s[k]] ELSE L.next[s[i]]
  BY <1>1, <1>2, <1>5, <1>6 DEF DeleteNode
<1>12. \A i \in 1..N : i # k =>
         D.prev[s[i]] = IF i = k + 1 THEN L.prev[s[k]] ELSE L.prev[s[i]]
  BY <1>1, <1>2, <1>5, <1>6 DEF DeleteNode
<1>13. \A i \in 1..N : /\ L.next[s[i]] = IF i = N THEN NULL ELSE s[i + 1]
                     /\ L.prev[s[i]] = IF i = 1 THEN NULL ELSE s[i - 1]
  BY DEF ListOf
<1>14. N \in Nat /\ k \in 1..N /\ Len(c) = N - 1
  BY <1>1, <1>3
<1> HIDE DEF N, c, D
<1>15. ASSUME NEW i \in 1..Len(c)
       PROVE  D.next[c[i]] = IF i = Len(c) THEN NULL ELSE c[i + 1]
  <2>1. CASE i < k
    <3>1. c[i] = s[i] /\ i \in 1..N /\ i # k
      BY <2>1, <1>14, <1>4
    <3>2. L.next[s[i]] = s[i + 1]
      BY <3>1, <2>1, <1>14, <1>13
    <3>3. D.next[s[i]] = IF i = k - 1 THEN L.next[s[k]] ELSE s[i + 1]
      BY <3>1, <3>2, <1>11
    <3>4. CASE i = k - 1
      <4>1. D.next[c[i]] = IF k = N THEN NULL ELSE s[k + 1]
        BY <3>1, <3>3, <3>4, <1>6
      <4>2. i = Len(c) <=> k = N
        BY <3>4, <1>14
      <4>3. k # N => c[i + 1] = s[k + 1]
        BY <4>2, <3>4, <1>14, <1>4
      <4> QED BY <4>1, <4>2, <4>3
    <3>5. CASE i # k - 1
      <4>1. i # Len(c) /\ c[i + 1] = s[i + 1]
        BY <3>1, <3>5, <2>1, <1>14, <1>4
      <4> QED BY <4>1, <3>1, <3>3, <3>5
    <3> QED BY <3>4, <3>5
  <2>2. CASE i >= k
    <3>1. c[i] = s[i + 1] /\ i + 1 \in 1..N /\ i + 1 # k
      BY <2>2, <1>14, <1>4
    <3>2. PICK j \in 1..N : j = i + 1
      BY <3>1
    <3>3. D.next[s[j]] = IF j = N THEN NULL ELSE s[j + 1]
      BY <3>1, <3>2, <2>2, <1>14, <1>13, <1>11
    <3>4. IF j = N THEN i = Len(c) ELSE i # Len(c) /\ c[i + 1] = s[j + 1]
      BY <3>2, <2>2, <1>14, <1>4
    <3> QED BY <3>1, <3>2, <3>3, <3>4
  <2> QED BY <2>1, <2>2, <1>14
<1>16. ASSUME NEW i \in 1..Len(c)
       PROVE  D.prev[c[i]] = IF i = 1 THEN NULL ELSE c[i - 1]
  <2>1. CASE i < k
    <3>1. c[i] = s[i] /\ i \in 1..N /\ i # k
      BY <2>1, <1>14, <1>4
    <3>2. L.prev[s[i]] = IF i = 1 THEN NULL ELSE s[i - 1]
      BY <3>1, <2>1, <1>14, <1>13
    <3> QED BY <3>1, <3>2, <2>1, <1>14, <1>4, <1>12
  <2>2. CASE i >= k
    <3>1. c[i] = s[i + 1] /\ i + 1 \in 1..N /\ i + 1 # k
      BY <2>2, <1>14, <1>4
    <3>2. PICK j \in 1..N : j = i + 1
      BY <3>1
    <3>3. D.prev[s[j]] = IF j = k + 1 THEN L.prev[s[k]] ELSE s[i]
      BY <3>1, <3>2, <1>14, <1>13, <1>12
    <3>4. CASE i = k
      <4>1. D.prev[c[i]] = IF k = 1 THEN NULL ELSE s[k - 1]
        BY <3>1, <3>2, <3>3, <3>4, <1>6
      <4>2. k # 1 => c[i - 1] = s[k - 1]
        BY <3>4, <1>14, <1>4
      <4> QED BY <4>1, <4>2, <3>4
    <3>5. CASE i # k
      <4>1. i # 1 /\ c[i - 1] = s[i]
        BY <3>5, <2>2, <1>14, <1>4
      <4>2. j # k + 1
        BY <3>2, <3>5, <1>14
      <4> QED BY <3>1, <3>2, <3>3, <4>1, <4>2
    <3> QED BY <3>4, <3>5
  <2> QED BY <2>1, <2>2, <1>14
<1> USE DEF N, c, D
<1> QED BY <1>3, <1>8, <1>9, <1>10, <1>15, <1>16 DEF ListOf

\* add_to_rear makes a node that is not in the list its newest one, whatever the
\* node's links held before.
LEMMA AddToRearAppends ==
  ASSUME NEW L \in ListState, NEW s \in Seq(Node), ListOf(L, s),
         NEW n \in Node, ~In(n, s)
  PROVE  /\ AddToRear(L, n) \in ListState
         /\ Append(s, n) \in Seq(Node)
         /\ ListOf(AddToRear(L, n), Append(s, n))
         /\ \A m : In(m, Append(s, n)) <=> In(m, s) \/ m = n
<1> DEFINE a == Append(s, n)
           A == AddToRear(L, n)
           N == Len(s)
<1>1. N \in Nat /\ \A i \in 1..N : s[i] \in Node /\ s[i] # NULL /\ s[i] # n
  BY NullAssumption DEF In
<1>2. /\ a \in Seq(Node) /\ Len(a) = N + 1 /\ a # <<>>
      /\ a[N + 1] = n /\ \A i \in 1..N : a[i] = s[i]
  OBVIOUS
<1>3. ASSUME NEW i \in 1..Len(a), NEW j \in 1..Len(a), a[i] = a[j] PROVE i = j
  <2>1. i = N + 1 <=> a[i] = n
    BY <1>1, <1>2
  <2>2. j = N + 1 <=> a[j] = n
    BY <1>1, <1>2
  <2>3. CASE i # N + 1
    <3>1. i \in 1..N /\ j \in 1..N
      BY <2>1, <2>2, <2>3, <1>1, <1>2, <1>3
    <3>2. s[i] = s[j]
      BY <3>1, <1>2, <1>3
    <3> QED BY <3>1, <3>2 DEF ListOf
  <2> QED BY <2>1, <2>2, <2>3, <1>3
<1>4. \A m : In(m, a) <=> In(m, s) \/ m = n
  BY <1>1, <1>2 DEF In
<1>5. /\ L.next \in [Node -> Pointer \cup {Junk}] /\ L.prev \in [Node -> Pointer \cup {Junk}]
      /\ L.head \in Pointer /\ L.rear \in Pointer
  BY DEF ListState
<1>6. A \in ListState
  BY <1>1, <1>5 DEF AddToRear, ListState, Pointer
<1>7. CASE s = <<>>
  <2>1. L.head = NULL
    BY <1>7 DEF ListOf
  <2>2. /\ A.head = n /\ A.rear = n
        /\ A.next[n] = NULL /\ A.prev[n] = NULL
    BY <2>1, <1>5 DEF AddToRear
  <2>3. N = 0
    BY <1>7
  <2> QED BY <2>2, <2>3, <1>2, <1>3, <1>4, <1>6 DEF ListOf
<1>8. CASE s # <<>>
  <2>1. N > 0 /\ L.head = s[1] /\ L.rear = s[N] /\ L.head # NULL /\ L.rear # NULL
    BY <1>8, <1>1 DEF ListOf
  <2>2. /\ A.head = s[1] /\ A.rear = n
        /\ A.next = [L.next EXCEPT ![s[N]] = n, ![n] = NULL]
        /\ A.prev = [L.prev EXCEPT ![n] = s[N]]
    BY <2>1 DEF AddToRear
  <2>3. \A i \in 1..Len(a) : A.next[a[i]] = IF i = Len(a) THEN NULL ELSE a[i + 1]
    BY <2>1, <2>2, <1>1, <1>2, <1>5 DEF ListOf
  <2>4. \A i \in 1..Len(a) : A.prev[a[i]] = IF i = 1 THEN NULL ELSE a[i - 1]
    BY <2>1, <2>2, <1>1, <1>2, <1>5 DEF ListOf
  <2>5. A.head = a[1] /\ A.rear = a[Len(a)]
    BY <2>1, <2>2, <1>1, <1>2
  <2> QED BY <2>3, <2>4, <2>5, <1>2, <1>3, <1>4, <1>6 DEF ListOf
<1> QED BY <1>7, <1>8

\* Freeing a node that is not in the list leaves the list as it is.
LEMMA ScrubKeeps ==
  ASSUME NEW L \in ListState, NEW s \in Seq(Node), ListOf(L, s), NEW n \in Node, ~In(n, s)
  PROVE  Scrub(L, n) \in ListState /\ ListOf(Scrub(L, n), s)
<1>1. /\ Scrub(L, n).head = L.head /\ Scrub(L, n).rear = L.rear
      /\ Scrub(L, n).next = [L.next EXCEPT ![n] = Junk]
      /\ Scrub(L, n).prev = [L.prev EXCEPT ![n] = Junk]
      /\ Scrub(L, n) \in ListState
  BY DEF Scrub, ListState
<1>2. \A i \in 1..Len(s) : s[i] \in Node /\ s[i] # n
  BY DEF In
<1> QED BY <1>1, <1>2 DEF ListOf, ListState
-----------------------------------------------------------------------------
(* The inductive invariant.                                                *)

\* The semaphore qmutex: 1 exactly when no thread is between its P and its V.
Semaphore ==
  /\ qmutex \in {0, 1}
  /\ qmutex = 1 => \A t \in Thread : pc[t] \notin Critical
  /\ OneInside

\* A node being inserted has one owner, and every thread a request to serve.
Owners ==
  /\ \A t \in Thread : pc[t] # "idle" => req[t] # NULL
  /\ \A t \in Thread : pc[t] \in Inserting <=> new[t] # NULL
  /\ \A t \in Thread : new[t] # NULL => new[t] \in allocated
  /\ \A t, u \in Thread : new[t] = new[u] /\ new[t] # NULL => t = u

\* p stands in s behind nodes that are all of other URLs than u.
Behind(p, s, u) ==
  \E k \in 1..(Len(s) + 1) :
    /\ p = IF k = Len(s) + 1 THEN NULL ELSE s[k]
    /\ \A i \in 1..(k - 1) : url[s[i]] # u

\* Where a thread inside the list stands, the list being s.  A lookup, and a scan of
\* create_cache, has found its URL on none of the nodes before cur; from ScanDone
\* on, on none at all.
Walk(t, s) ==
  /\ pc[t] = "find" => Behind(cur[t], s, req[t])
  /\ pc[t] \in {"pin", "move"} => In(cur[t], s) /\ url[cur[t]] = req[t]
  /\ pc[t] = "scan" => Behind(cur[t], s, url[new[t]])
  /\ pc[t] \in {"evict", "check"} =>
       /\ cur[t] = list.head
       /\ \A i \in 1..Len(s) : url[s[i]] # url[new[t]]
  /\ pc[t] = "check" => cur[t] # NULL

\* The list is s: its nodes are those malloc has handed out and no thread is
\* inserting, and no two of them have one URL.
Shape(s) ==
  /\ ListOf(list, s)
  /\ \A n \in Node : In(n, s) <=> n \in allocated /\ \A t \in Thread : new[t] # n
  /\ \A m, n \in Node : In(m, s) /\ In(n, s) /\ url[m] = url[n] => m = n
  /\ \A t \in Thread : Walk(t, s)

IInv ==
  /\ TypeOK
  /\ Semaphore
  /\ Owners
  /\ OwnNodeUnread
  /\ \E s \in Seq(Node) : Shape(s)

-----------------------------------------------------------------------------

\* Cache_init makes an empty list that nobody walks.
LEMMA InitIInv == Init => IInv
<1> SUFFICES ASSUME Init PROVE IInv
  OBVIOUS
<1>1. TypeOK
  BY SizeAssumption DEF Init, TypeOK, EmptyList, ListState, Pointer, PcStates, Critical, Inserting, Reading
<1>2. Semaphore /\ Owners /\ OwnNodeUnread
  BY DEF Init, Semaphore, OneInside, Owners, OwnNodeUnread, Critical, Inserting
<1>3. Shape(<<>>)
  <2>1. Len(<<>>) = 0 /\ \A n : ~In(n, <<>>)
    BY DEF In
  <2>2. ListOf(list, <<>>)
    BY <2>1 DEF Init, EmptyList, ListOf
  <2>3. \A t \in Thread : Walk(t, <<>>)
    BY DEF Init, Walk
  <2> QED BY <2>1, <2>2, <2>3 DEF Shape, Init
<1>4. <<>> \in Seq(Node)
  OBVIOUS
<1> QED BY <1>1, <1>2, <1>3, <1>4 DEF IInv

\* P(&qmutex) and V(&qmutex) pair up on every path.
LEMMA SemaphoreStep ==
  ASSUME TypeOK, Semaphore, NEW t \in Thread, Compute(t) \/ Network(t)
  PROVE  Semaphore'
<1> USE DEF TypeOK, Semaphore, OneInside, Critical, Goto, P, V, Exit
<1>1. CASE Lookup(t) \/ InsertLock(t)
  BY <1>1 DEF Lookup, InsertLock
<1>2. CASE FindMiss(t) \/ ScanDup(t) \/ EvictBusy(t)
  BY <1>2 DEF FindMiss, ScanDup, EvictBusy
<1>3. CASE MoveToRear(t) \/ Link(t)
  BY <1>3 DEF MoveToRear, Link
<1>4. CASE FindNext(t) \/ ScanNext(t)
  BY <1>4 DEF FindNext, ScanNext, cacheVars
<1>5. CASE FindHit(t) \/ Pin(t) \/ EvictLock(t)
  BY <1>5 DEF FindHit, Pin, EvictLock, cacheVars
<1>6. CASE ScanDone(t) \/ Evict(t)
  BY <1>6 DEF ScanDone, Evict
<1>7. CASE UnpinLock(t) \/ Unpin(t) \/ FreeOwn(t)
  BY <1>7 DEF UnpinLock, Unpin, FreeOwn, cacheVars
<1>8. CASE Network(t)
  BY <1>8 DEF Network, Request, Write, Abandon, Fetched, cacheVars
<1> QED BY <1>1, <1>2, <1>3, <1>4, <1>5, <1>6, <1>7, <1>8 DEF Compute

\* A node has one owner, from malloc to Link or free; only nodes of the list are pinned.
LEMMA OwnersStep ==
  ASSUME IInv, NEW t \in Thread, Compute(t) \/ Network(t)
  PROVE  Owners' /\ OwnNodeUnread'
<1> USE NullAssumption DEF TypeOK, Owners, OwnNodeUnread, Inserting, Goto, Exit
<1>0. TypeOK /\ Owners /\ OwnNodeUnread
  BY DEF IInv
<1>1. CASE Lookup(t) \/ InsertLock(t) \/ FindMiss(t) \/ ScanDup(t) \/ EvictBusy(t) \/ MoveToRear(t)
  BY <1>0, <1>1 DEF Lookup, InsertLock, FindMiss, ScanDup, EvictBusy, MoveToRear, nodeVars
<1>2. CASE FindNext(t) \/ ScanNext(t) \/ ScanDone(t)
  BY <1>0, <1>2 DEF FindNext, ScanNext, ScanDone, nodeVars, cacheVars
<1>3. CASE FindHit(t) \/ EvictLock(t) \/ UnpinLock(t)
  BY <1>0, <1>3 DEF FindHit, EvictLock, UnpinLock, cacheVars
<1>4. CASE Request(t) \/ Write(t) \/ Abandon(t) \/ Link(t)
  BY <1>0, <1>4 DEF Request, Write, Abandon, Link, nodeVars, cacheVars
<1>5. CASE Unpin(t)
  BY <1>0, <1>5 DEF Unpin, cacheVars
<1>6. CASE FreeOwn(t)
  BY <1>0, <1>6 DEF FreeOwn
<1>7. CASE Fetched(t)
  <2>1. PICK n \in Node \ allocated :
          /\ allocated' = allocated \cup {n}
          /\ read_cnt' = [read_cnt EXCEPT ![n] = 0]
          /\ new' = [new EXCEPT ![t] = n]
    BY <1>7 DEF Fetched
  <2> QED BY <1>0, <1>7, <2>1 DEF Fetched
<1>8. CASE Pin(t) \/ Evict(t)
  <2>1. PICK s \in Seq(Node) : Shape(s)
    BY DEF IInv
  <2>2. In(cur[t], s)
    <3>1. CASE Pin(t)
      BY <2>1, <3>1 DEF Pin, Shape, Walk
    <3>2. CASE Evict(t)
      <4>1. cur[t] = list.head /\ cur[t] # NULL
        BY <2>1, <3>2 DEF Evict, Shape, Walk
      <4>2. s # <<>> /\ cur[t] = s[1]
        BY <4>1, <2>1 DEF Shape, ListOf
      <4> QED BY <4>2 DEF In
    <3> QED BY <3>1, <3>2, <1>8
  <2>3. cur[t] \in Node /\ \A u \in Thread : new[u] # cur[t]
    BY <2>1, <2>2 DEF Shape, In
  <2>4. CASE Pin(t)
    BY <1>0, <2>3, <2>4 DEF Pin, cacheVars
  <2>5. CASE Evict(t)
    BY <1>0, <2>3, <2>5 DEF Evict
  <2> QED BY <2>4, <2>5, <1>8
<1> QED BY <1>1, <1>2, <1>3, <1>4, <1>5, <1>6, <1>7, <1>8 DEF Compute, Network

\* A walk begins at the head ...
LEMMA BehindHead ==
  ASSUME NEW s \in Seq(Node), ListOf(list, s), NEW u
  PROVE  Behind(list.head, s, u)
<1>1. /\ 1 \in 1..(Len(s) + 1) /\ 1..(1 - 1) = {}
      /\ list.head = IF 1 = Len(s) + 1 THEN NULL ELSE s[1]
  BY DEF ListOf
<1> QED BY <1>1 DEF Behind

\* ... and goes on from a node with another URL ...
LEMMA BehindNext ==
  ASSUME NEW s \in Seq(Node), ListOf(list, s), NEW u, NEW p, Behind(p, s, u),
         p # NULL, url[p] # u
  PROVE  In(p, s) /\ Behind(list.next[p], s, u)
<1> DEFINE N == Len(s)
<1>0. N \in Nat
  OBVIOUS
<1>1. PICK k \in 1..(N + 1) : /\ p = IF k = N + 1 THEN NULL ELSE s[k]
                              /\ \A i \in 1..(k - 1) : url[s[i]] # u
  BY DEF Behind
<1>2. k \in 1..N /\ p = s[k]
  BY <1>0, <1>1
<1>3. list.next[p] = IF k = N THEN NULL ELSE s[k + 1]
  BY <1>2 DEF ListOf
<1>4. k + 1 \in 1..(N + 1) /\ (k + 1 = N + 1 <=> k = N)
  BY <1>2, <1>0
<1>5. \A i \in 1..(k + 1 - 1) : i \in 1..(k - 1) \/ i = k
  BY <1>2, <1>0
<1>6. \A i \in 1..(k + 1 - 1) : url[s[i]] # u
  BY <1>1, <1>2, <1>5
<1>7. list.next[p] = IF k + 1 = N + 1 THEN NULL ELSE s[k + 1]
  BY <1>3, <1>4
<1>8. Behind(list.next[p], s, u)
  BY <1>4, <1>6, <1>7 DEF Behind
<1> QED BY <1>2, <1>8 DEF In

\* ... until it stands on a node of the list, or has seen them all.
LEMMA BehindWhere ==
  ASSUME NEW s \in Seq(Node), NEW u, NEW p, Behind(p, s, u)
  PROVE  IF p = NULL THEN \A i \in 1..Len(s) : url[s[i]] # u ELSE In(p, s)
<1> DEFINE N == Len(s)
<1>0. N \in Nat /\ \A i \in 1..N : s[i] # NULL
  BY NullAssumption
<1>1. PICK k \in 1..(N + 1) : /\ p = IF k = N + 1 THEN NULL ELSE s[k]
                              /\ \A i \in 1..(k - 1) : url[s[i]] # u
  BY DEF Behind
<1>2. CASE k = N + 1
  BY <1>0, <1>1, <1>2
<1>3. CASE k # N + 1
  <2>1. k \in 1..N /\ p = s[k] /\ p # NULL
    BY <1>0, <1>1, <1>3
  <2> QED BY <2>1 DEF In
<1> QED BY <1>2, <1>3

\* A thread that is not inside the list has no place in it.
LEMMA WalkOutside ==
  ASSUME NEW u \in Thread, pc[u] \notin Critical, NEW s \in Seq(Node)
  PROVE  Walk(u, s)
BY DEF Walk, Critical

\* A step of one thread that leaves list, nodes and owners alone keeps the shape
\* if that thread's new place is right.
LEMMA ShapeFrame ==
  ASSUME TypeOK, NEW s \in Seq(Node), Shape(s), NEW t \in Thread,
         UNCHANGED <<list, allocated, url, new>>,
         \A u \in Thread \ {t} : pc'[u] = pc[u] /\ cur'[u] = cur[u] /\ req'[u] = req[u],
         Walk(t, s)'
  PROVE  Shape(s)'
<1>1. \A u \in Thread : Walk(u, s)'
  BY DEF Walk, Behind, Shape
<1> QED BY <1>1 DEF Shape, ListOf

\* A step that makes the list c keeps the shape if no other thread is inside and
\* its own thread's new place is right.
LEMMA ShapeChange ==
  ASSUME NEW c \in Seq(Node), NEW t \in Thread,
         ListOf(list', c),
         \A n \in Node : In(n, c) <=> n \in allocated' /\ \A u \in Thread : new'[u] # n,
         \A m, n \in Node : In(m, c) /\ In(n, c) /\ url'[m] = url'[n] => m = n,
         \A u \in Thread \ {t} : pc'[u] \notin Critical,
         Walk(t, c)'
  PROVE  Shape(c)'
<1>1. \A u \in Thread : Walk(u, c)'
  BY DEF Walk, Critical
<1> QED BY <1>1 DEF Shape, ListOf

\* The steps that only read the list: the walks, the pins and the waits.
LEMMA ReadingStep ==
  ASSUME TypeOK, Owners, NEW s \in Seq(Node), Shape(s), NEW t \in Thread,
         \/ Lookup(t) \/ FindNext(t) \/ FindMiss(t) \/ FindHit(t) \/ Pin(t)
         \/ UnpinLock(t) \/ Unpin(t) \/ InsertLock(t) \/ ScanNext(t) \/ ScanDup(t)
         \/ ScanDone(t) \/ EvictLock(t) \/ EvictBusy(t)
         \/ Request(t) \/ Write(t) \/ Abandon(t)
  PROVE  Shape(s)' /\ cur' \in [Thread -> Pointer]
<1> DEFINE N == Len(s)
<1>1. N \in Nat /\ \A i \in 1..N : s[i] \in Node /\ s[i] # NULL
  BY NullAssumption
<1>2. Walk(t, s) /\ ListOf(list, s)
  BY DEF Shape
<1>3. /\ list.head \in Pointer
      /\ list.head = IF s = <<>> THEN NULL ELSE s[1]
      /\ \A i \in 1..N : list.next[s[i]] = IF i = N THEN NULL ELSE s[i + 1]
  BY <1>2 DEF TypeOK, ListState, ListOf
<1>4. N = 0 <=> s = <<>>
  BY <1>1
<1>5. \A n : In(n, s) => list.next[n] = NULL \/ list.next[n] \in Node
  <2> SUFFICES ASSUME NEW i \in 1..N PROVE list.next[s[i]] = NULL \/ list.next[s[i]] \in Node
    BY DEF In
  <2>1. i # N => i + 1 \in 1..N
    BY <1>1
  <2> QED BY <2>1, <1>1, <1>3
<1>6. \A n : In(n, s) => list.next[n] \in Pointer
  BY <1>5 DEF Pointer
<1>7. \A n : In(n, s) => n \in Pointer
  BY <1>1 DEF In, Pointer
<1>8. NULL \in Pointer
  BY DEF Pointer
<1> DEFINE Frame == /\ UNCHANGED <<list, allocated, url, new>>
                    /\ \A u \in Thread \ {t} : pc'[u] = pc[u] /\ cur'[u] = cur[u] /\ req'[u] = req[u]
<1> USE DEF Goto, Exit, cacheVars, nodeVars
<1>9. /\ pc \in [Thread -> PcStates] /\ cur \in [Thread -> Pointer]
      /\ req \in [Thread -> Url \cup {NULL}]
  BY DEF TypeOK
<1>10. CASE Lookup(t)
  <2>1. /\ Frame /\ cur' \in [Thread -> Pointer] /\ pc'[t] = "find"
        /\ cur'[t] = list.head /\ req' = req
    BY <1>9, <1>10, <1>3 DEF Lookup
  <2>2. Behind(list.head, s, req[t])
    BY <1>2, BehindHead
  <2>3. Walk(t, s)'
    BY <2>1, <2>2 DEF Walk, Behind
  <2> QED BY <2>1, <2>3, ShapeFrame
<1>11. CASE FindNext(t)
  <2>1. Behind(cur[t], s, req[t]) /\ cur[t] # NULL /\ url[cur[t]] # req[t]
    BY <1>2, <1>11 DEF FindNext, Walk
  <2>2. In(cur[t], s) /\ Behind(list.next[cur[t]], s, req[t])
    BY <2>1, <1>2, BehindNext
  <2>3. /\ Frame /\ cur' \in [Thread -> Pointer] /\ pc'[t] = "find"
        /\ cur'[t] = list.next[cur[t]] /\ req' = req
    BY <2>2, <1>6, <1>9, <1>11 DEF FindNext
  <2>4. Walk(t, s)'
    BY <2>2, <2>3 DEF Walk, Behind
  <2> QED BY <2>3, <2>4, ShapeFrame
<1>12. CASE FindHit(t)
  <2>1. In(cur[t], s) /\ url[cur[t]] = req[t]
    BY <1>2, <1>12, BehindWhere DEF FindHit, Walk
  <2>2. Frame /\ cur' \in [Thread -> Pointer] /\ pc'[t] = "pin" /\ cur'[t] = cur[t] /\ req' = req
    BY <1>9, <1>12 DEF FindHit
  <2>3. Walk(t, s)'
    BY <2>1, <2>2 DEF Walk, In
  <2> QED BY <2>2, <2>3, ShapeFrame
<1>13. CASE Pin(t)
  <2>1. In(cur[t], s) /\ url[cur[t]] = req[t]
    BY <1>2, <1>13 DEF Pin, Walk
  <2>2. Frame /\ cur' \in [Thread -> Pointer] /\ pc'[t] = "move" /\ cur'[t] = cur[t] /\ req' = req
    BY <1>9, <1>13 DEF Pin
  <2>3. Walk(t, s)'
    BY <2>1, <2>2 DEF Walk, In
  <2> QED BY <2>2, <2>3, ShapeFrame
<1>14. CASE \/ FindMiss(t) \/ UnpinLock(t) \/ ScanDup(t) \/ EvictBusy(t)
            \/ Request(t) \/ Write(t)
  <2>1. Frame /\ cur' \in [Thread -> Pointer] /\ pc'[t] \notin Critical
    BY <1>8, <1>9, <1>14
       DEF FindMiss, UnpinLock, ScanDup, EvictBusy, Request, Write, Critical
  <2>2. Walk(t, s)'
    BY <2>1 DEF Walk, Critical
  <2> QED BY <2>1, <2>2, ShapeFrame
<1>15. CASE Unpin(t) \/ Abandon(t)
  <2>1. new[t] = NULL
    BY <1>15 DEF Unpin, Abandon, Owners, Inserting
  <2>2. new' = new
    BY <2>1, <1>15 DEF Unpin, Abandon, TypeOK
  <2>3. Frame /\ cur' \in [Thread -> Pointer] /\ pc'[t] \notin Critical
    BY <2>2, <1>8, <1>9, <1>15 DEF Unpin, Abandon, Critical
  <2>4. Walk(t, s)'
    BY <2>3 DEF Walk, Critical
  <2> QED BY <2>3, <2>4, ShapeFrame
<1>16. CASE InsertLock(t)
  <2>1. Frame /\ cur' \in [Thread -> Pointer] /\ pc'[t] = "scan" /\ cur'[t] = list.head
    BY <1>9, <1>16, <1>3 DEF InsertLock
  <2>2. Behind(list.head, s, url[new[t]])
    BY <1>2, BehindHead
  <2>3. Walk(t, s)'
    BY <2>1, <2>2 DEF Walk, Behind
  <2> QED BY <2>1, <2>3, ShapeFrame
<1>17. CASE ScanNext(t)
  <2>1. Behind(cur[t], s, url[new[t]]) /\ cur[t] # NULL /\ url[cur[t]] # url[new[t]]
    BY <1>2, <1>17 DEF ScanNext, Walk
  <2>2. In(cur[t], s) /\ Behind(list.next[cur[t]], s, url[new[t]])
    BY <2>1, <1>2, BehindNext
  <2>3. Frame /\ cur' \in [Thread -> Pointer] /\ pc'[t] = "scan" /\ cur'[t] = list.next[cur[t]]
    BY <2>2, <1>6, <1>9, <1>17 DEF ScanNext
  <2>4. Walk(t, s)'
    BY <2>2, <2>3 DEF Walk, Behind
  <2> QED BY <2>3, <2>4, ShapeFrame
<1>18. CASE ScanDone(t)
  <2>1. \A i \in 1..N : url[s[i]] # url[new[t]]
    BY <1>2, <1>18, BehindWhere DEF ScanDone, Walk
  <2>2. Frame /\ cur' \in [Thread -> Pointer] /\ pc'[t] = "evict" /\ cur'[t] = list'.head
    BY <1>3, <1>9, <1>18 DEF ScanDone
  <2>3. Walk(t, s)'
    BY <2>1, <2>2 DEF Walk
  <2> QED BY <2>2, <2>3, ShapeFrame
<1>19. CASE EvictLock(t)
  <2>1. Frame /\ cur' = cur /\ pc'[t] = "check" /\ cur[t] # NULL /\ pc[t] = "evict"
    BY <1>9, <1>19 DEF EvictLock
  <2>2. Walk(t, s)'
    BY <2>1, <1>2 DEF Walk
  <2> QED BY <2>1, <2>2, <1>9, ShapeFrame
<1> QED BY <1>10, <1>11, <1>12, <1>13, <1>14, <1>15, <1>16, <1>17, <1>18, <1>19

\* MoveToRear: the node leaves its place in the list and comes back as the newest.
LEMMA MoveToRearStep ==
  ASSUME TypeOK, Semaphore, NEW s \in Seq(Node), Shape(s), NEW t \in Thread, MoveToRear(t)
  PROVE  /\ list' \in ListState
         /\ \E k \in 1..Len(s) : LET c == Append(Cut(s, k), s[k])
                                 IN  s[k] = cur[t] /\ c \in Seq(Node) /\ Shape(c)'
<1>1. /\ In(cur[t], s) /\ ListOf(list, s) /\ list \in ListState
      /\ UNCHANGED <<allocated, url, new, cur>>
  BY DEF Shape, Walk, TypeOK, MoveToRear, Goto, nodeVars
<1>2. \A u \in Thread \ {t} : pc'[u] \notin Critical
  BY DEF TypeOK, Semaphore, OneInside, MoveToRear, Goto, Critical
<1>3. pc'[t] = "write"
  BY DEF TypeOK, MoveToRear, Goto
<1>4. \A c \in Seq(Node) : Walk(t, c)'
  BY <1>3 DEF Walk
<1>5. CASE list.rear = cur[t]
  <2>1. list' = list
    BY <1>5 DEF MoveToRear
  <2>2. Shape(s)'
    BY <2>1, <1>1, <1>2, <1>4, ShapeChange DEF Shape
  <2>3. Len(s) \in 1..Len(s) /\ s[Len(s)] = cur[t]
    BY <1>1, <1>5 DEF ListOf, In
  <2>4. Append(Cut(s, Len(s)), s[Len(s)]) = s
    BY <2>3, CutLast
  <2> QED BY <2>1, <2>2, <2>3, <2>4, <1>1
<1>6. CASE list.rear # cur[t]
  <2>1. PICK k \in 1..Len(s) : s[k] = cur[t]
    BY <1>1 DEF In
  <2> DEFINE D == DeleteNode(list, s[k])
             c == Cut(s, k)
  <2>2. D \in ListState /\ ListOf(D, c)
    BY <1>1, DeleteNodeCuts
  <2>3. c \in Seq(Node) /\ \A n : In(n, c) <=> In(n, s) /\ n # s[k]
    BY <1>1, CutSeq DEF ListOf
  <2>4. s[k] \in Node /\ ~In(s[k], c)
    BY <2>3
  <2>5. list' = AddToRear(D, s[k])
    BY <1>6, <2>1 DEF MoveToRear
  <2> HIDE DEF D, c
  <2>6. /\ list' \in ListState
        /\ Append(c, s[k]) \in Seq(Node) /\ ListOf(list', Append(c, s[k]))
        /\ \A n : In(n, Append(c, s[k])) <=> In(n, c) \/ n = s[k]
    BY <2>2, <2>3, <2>4, <2>5, AddToRearAppends
  <2>7. \A n : In(n, Append(c, s[k])) <=> In(n, s)
    BY <2>1, <2>3, <2>6, <1>1
  <2> DEFINE a == Append(c, s[k])
  <2>8. \A n \in Node : In(n, a) <=> n \in allocated' /\ \A u \in Thread : new'[u] # n
    BY <2>7, <1>1 DEF Shape
  <2>9. \A m, n \in Node : In(m, a) /\ In(n, a) /\ url'[m] = url'[n] => m = n
    BY <2>7, <1>1 DEF Shape
  <2>10. a \in Seq(Node) /\ ListOf(list', a) /\ Walk(t, a)'
    BY <2>6, <1>4
  <2> HIDE DEF a
  <2>11. Shape(a)'
    BY <2>8, <2>9, <2>10, <1>2, ShapeChange
  <2> QED BY <2>1, <2>6, <2>11 DEF a, c
<1> QED BY <1>5, <1>6

\* Evict: the oldest node leaves the list and its memory is freed; p->next is the
\* new head.
LEMMA EvictStep ==
  ASSUME TypeOK, Semaphore, Owners, NEW s \in Seq(Node), Shape(s), NEW t \in Thread, Evict(t)
  PROVE  /\ list' \in ListState /\ cur' \in [Thread -> Pointer]
         /\ 1 \in 1..Len(s) /\ s[1] = cur[t]
         /\ Cut(s, 1) \in Seq(Node) /\ Shape(Cut(s, 1))'
<1>1. /\ ListOf(list, s) /\ list \in ListState /\ UNCHANGED new
      /\ cur[t] = list.head /\ cur[t] # NULL
      /\ \A i \in 1..Len(s) : url[s[i]] # url[new[t]]
  BY DEF Shape, Walk, TypeOK, Evict, Goto
<1>2. \A u \in Thread \ {t} : pc'[u] \notin Critical
  BY DEF TypeOK, Semaphore, OneInside, Evict, Goto, Critical
<1>3. Len(s) \in Nat /\ Len(s) # 0 /\ 1 \in 1..Len(s) /\ cur[t] = s[1] /\ s[1] \in Node
  BY <1>1 DEF ListOf
<1> DEFINE D == DeleteNode(list, s[1])
           c == Cut(s, 1)
<1>4. D \in ListState /\ ListOf(D, c)
  BY <1>1, <1>3, DeleteNodeCuts
<1>5. c \in Seq(Node) /\ \A n : In(n, c) <=> In(n, s) /\ n # s[1]
  BY <1>1, <1>3, CutSeq DEF ListOf
<1>6. D.head = list.next[s[1]]
  BY <1>1, <1>3 DEF DeleteNode
<1>7. list' = Scrub(D, s[1])
  BY <1>3 DEF Evict
<1> HIDE DEF D, c
<1>8. list' \in ListState /\ ListOf(list', c)
  BY <1>3, <1>4, <1>5, <1>7, ScrubKeeps
<1>9. list'.head = list.next[s[1]] /\ list'.head \in Pointer
  BY <1>6, <1>7, <1>8 DEF Scrub, ListState
<1>10. cur' \in [Thread -> Pointer] /\ cur'[t] = list'.head /\ pc'[t] = "evict"
  BY <1>3, <1>9 DEF Evict, Goto, TypeOK
<1>11. /\ allocated' = allocated \ {s[1]}
       /\ \A n \in Node : n # s[1] => url'[n] = url[n]
  BY <1>3 DEF Evict, TypeOK
<1>12. \A u \in Thread : new[u] # s[1]
  BY <1>3 DEF Shape, In
<1>13. \A n \in Node : In(n, c) <=> n \in allocated' /\ \A u \in Thread : new'[u] # n
  BY <1>1, <1>5, <1>11 DEF Shape
<1>14. \A m, n \in Node : In(m, c) /\ In(n, c) /\ url'[m] = url'[n] => m = n
  BY <1>5, <1>11 DEF Shape
<1>15. \A i \in 1..Len(c) : url'[c[i]] # url'[new'[t]]
  <2>1. new[t] \in Node
    BY DEF Owners, Evict, Goto, Inserting, TypeOK, Pointer
  <2>2. \A n \in Node : In(n, s) => url[n] # url[new[t]]
    BY <1>1 DEF In
  <2>3. ASSUME NEW i \in 1..Len(c) PROVE url'[c[i]] # url'[new'[t]]
    <3>1. In(c[i], c) /\ c[i] \in Node
      BY <1>5 DEF In
    <3>2. In(c[i], s) /\ c[i] # s[1]
      BY <3>1, <1>5
    <3> QED BY <3>1, <3>2, <2>1, <2>2, <1>1, <1>11, <1>12
  <2> QED BY <2>3
<1>16. Walk(t, c)'
  BY <1>10, <1>15 DEF Walk
<1>17. Shape(c)'
  BY <1>2, <1>5, <1>8, <1>13, <1>14, <1>16, ShapeChange
<1> QED BY <1>3, <1>5, <1>8, <1>10, <1>17 DEF c

\* Link: the new node, whose URL the scan found nowhere, becomes the newest.
LEMMA LinkStep ==
  ASSUME TypeOK, Semaphore, Owners, NEW s \in Seq(Node), Shape(s), NEW t \in Thread, Link(t)
  PROVE  /\ list' \in ListState
         /\ \E n \in Node : n = new[t] /\ Append(s, n) \in Seq(Node) /\ Shape(Append(s, n))'
<1>1. /\ ListOf(list, s) /\ list \in ListState /\ UNCHANGED <<allocated, url>>
      /\ \A i \in 1..Len(s) : url[s[i]] # url[new[t]]
  BY DEF Shape, Walk, TypeOK, Link, Exit, Goto, nodeVars
<1>2. \A u \in Thread \ {t} : pc'[u] \notin Critical
  BY DEF TypeOK, Semaphore, OneInside, Link, Exit, Goto, Critical
<1>3. PICK n \in Node : n = new[t] /\ n \in allocated
  BY DEF Owners, Link, Exit, Goto, Inserting, TypeOK, Pointer
<1>4. ~In(n, s)
  BY <1>3 DEF Shape
<1>5. pc'[t] = "idle" /\ list' = AddToRear(list, n)
  BY <1>3 DEF Link, Exit, Goto, TypeOK
<1> DEFINE c == Append(s, n)
<1>6. /\ list' \in ListState /\ c \in Seq(Node) /\ ListOf(list', c)
      /\ \A m : In(m, c) <=> In(m, s) \/ m = n
  BY <1>1, <1>3, <1>4, <1>5, AddToRearAppends
<1> HIDE DEF c
<1>7. \A u \in Thread : new'[u] = IF u = t THEN NULL ELSE new[u]
  BY DEF Link, Exit, TypeOK
<1>8. ASSUME NEW m \in Node PROVE In(m, c) <=> m \in allocated' /\ \A u \in Thread : new'[u] # m
  <2>1. CASE m = n
    <3>1. \A u \in Thread : new'[u] # n
      BY <1>3, <1>7, NullAssumption DEF Owners
    <3> QED BY <2>1, <3>1, <1>1, <1>3, <1>6
  <2>2. CASE m # n
    <3>1. (\A u \in Thread : new'[u] # m) <=> (\A u \in Thread : new[u] # m)
      BY <2>2, <1>3, <1>7, NullAssumption
    <3>2. In(m, s) <=> m \in allocated /\ \A u \in Thread : new[u] # m
      BY DEF Shape
    <3> QED BY <2>2, <3>1, <3>2, <1>1, <1>6
  <2> QED BY <2>1, <2>2
<1>9. \A l, m \in Node : In(l, c) /\ In(m, c) /\ url'[l] = url'[m] => l = m
  <2>1. \A m \in Node : In(m, s) => url[m] # url[n]
    BY <1>1, <1>3 DEF In
  <2> QED BY <2>1, <1>1, <1>6 DEF Shape
<1>10. Walk(t, c)'
  BY <1>5 DEF Walk
<1>11. Shape(c)'
  BY <1>2, <1>6, <1>8, <1>9, <1>10, ShapeChange
<1> QED BY <1>3, <1>6, <1>11 DEF c

\* malloc and free of a node that is not in the list do not disturb it, nor any
\* thread that walks it meanwhile.
LEMMA OwnNodeStep ==
  ASSUME TypeOK, Owners, NEW s \in Seq(Node), Shape(s), NEW t \in Thread,
         Fetched(t) \/ FreeOwn(t)
  PROVE  Shape(s)'
<1>1. PICK n \in Node :
        /\ \A m \in Node : m # n => url'[m] = url[m]
        /\ list' = list /\ ~In(n, s)
        /\ \A u \in Thread \ {t} : /\ new[u] # n /\ new'[u] = new[u] /\ pc'[u] = pc[u]
                                   /\ cur'[u] = cur[u] /\ req'[u] = req[u]
        /\ pc'[t] \notin Critical
        /\ \/ /\ n \notin allocated /\ allocated' = allocated \cup {n}
              /\ new[t] = NULL /\ new'[t] = n
           \/ allocated' = allocated \ {n} /\ new[t] = n /\ new'[t] = NULL
  <2>1. CASE Fetched(t)
    <3>1. PICK n \in Node \ allocated :
            /\ allocated' = allocated \cup {n}
            /\ url' = [url EXCEPT ![n] = req[t]]
            /\ new' = [new EXCEPT ![t] = n]
      BY <2>1 DEF Fetched
    <3>2. /\ list' = list /\ cur' = cur /\ req' = req /\ pc'[t] \notin Critical /\ new[t] = NULL
          /\ \A u \in Thread \ {t} : pc'[u] = pc[u]
      BY <2>1 DEF Fetched, Goto, TypeOK, Critical, Owners, Inserting
    <3>3. \A u \in Thread : new[u] # n
      BY <3>1, NullAssumption DEF Owners
    <3>4. ~In(n, s)
      BY <3>1 DEF Shape
    <3> QED BY <3>1, <3>2, <3>3, <3>4 DEF TypeOK
  <2>2. CASE FreeOwn(t)
    <3>1. new[t] \in Node /\ new[t] \in allocated /\ \A u \in Thread \ {t} : new[u] # new[t]
      BY <2>2 DEF FreeOwn, Exit, Goto, Owners, Inserting, TypeOK, Pointer
    <3>2. ~In(new[t], s)
      BY <3>1 DEF Shape
    <3>3. /\ list' = list /\ pc'[t] \notin Critical /\ new'[t] = NULL
          /\ allocated' = allocated \ {new[t]}
          /\ \A m \in Node : m # new[t] => url'[m] = url[m]
          /\ \A u \in Thread \ {t} : /\ new'[u] = new[u] /\ pc'[u] = pc[u]
                                     /\ cur'[u] = cur[u] /\ req'[u] = req[u]
      BY <2>2, <3>1 DEF FreeOwn, Exit, Goto, TypeOK, Critical
    <3> QED BY <3>1, <3>2, <3>3
  <2> QED BY <2>1, <2>2
<1>2. \A i \in 1..Len(s) : s[i] \in Node /\ s[i] # n /\ url'[s[i]] = url[s[i]]
  BY <1>1 DEF In
<1>3. ListOf(list', s)
  BY <1>1 DEF Shape
<1>4. \A m \in Node : In(m, s) <=> m \in allocated' /\ \A u \in Thread : new'[u] # m
  BY <1>1, NullAssumption DEF Shape
<1>5. \A l, m \in Node : In(l, s) /\ In(m, s) /\ url'[l] = url'[m] => l = m
  BY <1>1 DEF Shape
<1>6. ASSUME NEW u \in Thread PROVE Walk(u, s)'
  <2>1. CASE u = t
    BY <2>1, <1>1 DEF Walk, Critical
  <2>2. CASE u # t
    <3>1. pc'[u] = pc[u] /\ cur'[u] = cur[u] /\ req'[u] = req[u] /\ new'[u] = new[u] /\ list' = list
      BY <2>2, <1>1
    <3>2. pc[u] \in Inserting => url'[new[u]] = url[new[u]]
      BY <2>2, <1>1 DEF Owners, TypeOK, Pointer
    <3>3. Walk(u, s)
      BY DEF Shape
    <3>4. In(cur[u], s) => url'[cur[u]] = url[cur[u]]
      BY <1>2 DEF In
    <3> QED BY <3>1, <3>2, <3>3, <3>4, <1>2 DEF Walk, Behind, Inserting
  <2> QED BY <2>1, <2>2
<1> QED BY <1>3, <1>4, <1>5, <1>6 DEF Shape, ListOf

\* Every step keeps the list a list.
LEMMA ShapeStep ==
  ASSUME IInv, NEW t \in Thread, Compute(t) \/ Network(t)
  PROVE  /\ list' \in ListState /\ cur' \in [Thread -> Pointer]
         /\ \E s \in Seq(Node) : Shape(s)'
<1>1. PICK s \in Seq(Node) : Shape(s)
  BY DEF IInv
<1>2. TypeOK /\ Semaphore /\ Owners
  BY DEF IInv
<1>3. list \in ListState /\ cur \in [Thread -> Pointer]
  BY <1>2 DEF TypeOK
<1>4. CASE \/ Lookup(t) \/ FindNext(t) \/ FindMiss(t) \/ FindHit(t) \/ Pin(t)
           \/ UnpinLock(t) \/ Unpin(t) \/ InsertLock(t) \/ ScanNext(t) \/ ScanDup(t)
           \/ ScanDone(t) \/ EvictLock(t) \/ EvictBusy(t)
           \/ Request(t) \/ Write(t) \/ Abandon(t)
  <2>1. list' = list
    BY <1>4 DEF Lookup, FindNext, FindMiss, FindHit, Pin, UnpinLock, Unpin, InsertLock, ScanNext,
                ScanDup, ScanDone, EvictLock, EvictBusy, Request, Write, Abandon, cacheVars
  <2> QED BY <2>1, <1>1, <1>2, <1>3, <1>4, ReadingStep
<1>5. CASE MoveToRear(t)
  <2>1. cur' = cur
    BY <1>5 DEF MoveToRear
  <2> QED BY <2>1, <1>1, <1>2, <1>3, <1>5, MoveToRearStep
<1>6. CASE Evict(t)
  BY <1>1, <1>2, <1>6, EvictStep
<1>7. CASE Link(t)
  <2>1. cur' = [cur EXCEPT ![t] = NULL]
    BY <1>7 DEF Link, Exit
  <2>2. cur' \in [Thread -> Pointer]
    BY <2>1, <1>3 DEF Pointer
  <2> QED BY <2>2, <1>1, <1>2, <1>7, LinkStep
<1>8. CASE Fetched(t) \/ FreeOwn(t)
  <2>1. list' = list
    BY <1>8 DEF Fetched, FreeOwn
  <2>2. cur' \in [Thread -> Pointer]
    BY <1>3, <1>8 DEF Fetched, FreeOwn, Exit, Pointer
  <2> QED BY <2>1, <2>2, <1>1, <1>2, <1>3, <1>8, OwnNodeStep
<1> QED BY <1>4, <1>5, <1>6, <1>7, <1>8 DEF Compute, Network

\* The other variables keep their types.
LEMMA TypeStep ==
  ASSUME IInv, NEW t \in Thread, Compute(t) \/ Network(t)
  PROVE  TypeOK'
<1>1. list' \in ListState /\ cur' \in [Thread -> Pointer]
  BY ShapeStep
<1>2. qmutex' \in Nat
  <2>1. Semaphore'
    BY SemaphoreStep DEF IInv
  <2> QED BY <2>1 DEF Semaphore
<1>3. TypeOK
  BY DEF IInv
<1> DEFINE Rest == /\ tsize' \in Int /\ allocated' \subseteq Node
                   /\ url' \in [Node -> Url \cup {Junk}] /\ size' \in [Node -> Nat]
                   /\ read_cnt' \in [Node -> Int] /\ cmutex' \in [Node -> Nat]
                   /\ pc' \in [Thread -> PcStates]
                   /\ req' \in [Thread -> Url \cup {NULL}] /\ new' \in [Thread -> Pointer]
<1> USE DEF TypeOK, Goto, Exit, Pointer, PcStates, Critical, Inserting, Reading,
            nodeVars, cacheVars, PNode, VNode
<1>4. CASE Lookup(t) \/ FindNext(t) \/ FindMiss(t) \/ MoveToRear(t) \/ Write(t)
  <2>1. Rest
    BY <1>3, <1>4 DEF Lookup, FindNext, FindMiss, MoveToRear, Write
  <2> QED BY <2>1, <1>1, <1>2
<1>5. CASE InsertLock(t) \/ ScanNext(t) \/ ScanDup(t) \/ ScanDone(t) \/ EvictBusy(t)
  <2>0. pc[t] = "scan" => new[t] \in Node
    BY <1>3 DEF IInv, Owners
  <2>1. tsize' \in Int
    BY <2>0, <1>3, <1>5 DEF InsertLock, ScanNext, ScanDup, ScanDone, EvictBusy
  <2>2. Rest
    BY <2>1, <1>3, <1>5 DEF InsertLock, ScanNext, ScanDup, ScanDone, EvictBusy
  <2> QED BY <2>2, <1>1, <1>2
<1>6. CASE FindHit(t) \/ Pin(t) \/ UnpinLock(t) \/ EvictLock(t)
  <2>1. Rest
    BY <1>3, <1>6 DEF FindHit, Pin, UnpinLock, EvictLock
  <2> QED BY <2>1, <1>1, <1>2
<1>7. CASE Request(t) \/ Abandon(t) \/ Link(t) \/ Unpin(t)
  <2>1. Rest
    BY <1>3, <1>7 DEF Request, Abandon, Link, Unpin
  <2> QED BY <2>1, <1>1, <1>2
<1>8. CASE Fetched(t) \/ FreeOwn(t)
  <2>1. CASE Fetched(t)
    <3>1. PICK n \in Node \ allocated, sz \in 1..MaxObject :
            /\ allocated' = allocated \cup {n}
            /\ url' = [url EXCEPT ![n] = req[t]]
            /\ size' = [size EXCEPT ![n] = sz]
            /\ read_cnt' = [read_cnt EXCEPT ![n] = 0]
            /\ cmutex' = [cmutex EXCEPT ![n] = 1]
            /\ new' = [new EXCEPT ![t] = n]
      BY <2>1 DEF Fetched
    <3>2. sz \in Nat
      BY SizeAssumption
    <3>3. req[t] \in Url
      BY <1>3, <2>1 DEF Fetched, IInv, Owners
    <3>4. Rest
      BY <1>3, <2>1, <3>1, <3>2, <3>3 DEF Fetched
    <3> QED BY <3>4, <1>1, <1>2
  <2>2. CASE FreeOwn(t)
    <3>1. Rest
      BY <1>3, <2>2 DEF FreeOwn
    <3> QED BY <3>1, <1>1, <1>2
  <2> QED BY <2>1, <2>2, <1>8
<1>9. CASE Evict(t)
  <2>1. cur[t] \in Node
    <3>1. PICK s \in Seq(Node) : Shape(s)
      BY DEF IInv
    <3> QED BY <1>3, <1>9, <3>1 DEF Evict, Shape, Walk
  <2>2. size[cur[t]] \in Nat /\ tsize \in Int /\ tsize' = tsize - size[cur[t]]
    BY <1>3, <1>9, <2>1 DEF Evict
  <2>3. tsize' \in Int
    BY <2>2
  <2>4. /\ allocated' \subseteq Node /\ pc' \in [Thread -> PcStates]
        /\ req' \in [Thread -> Url \cup {NULL}] /\ new' \in [Thread -> Pointer]
    BY <1>3, <1>9 DEF Evict
  <2>5. url' \in [Node -> Url \cup {Junk}] /\ size' \in [Node -> Nat]
    BY <1>3, <1>9 DEF Evict
  <2>6. read_cnt' \in [Node -> Int] /\ cmutex' \in [Node -> Nat]
    <3>1. /\ cmutex \in [Node -> Nat] /\ cmutex' = [cmutex EXCEPT ![new[t]] = @ + 1]
          /\ read_cnt \in [Node -> Int] /\ read_cnt' = read_cnt
      BY <1>3, <1>9 DEF Evict
    <3>2. cmutex' \in [Node -> Nat]
      <4>1. \A n \in Node : cmutex'[n] = cmutex[n] \/ cmutex'[n] = cmutex[n] + 1
        BY <3>1
      <4>2. \A n \in Node : cmutex'[n] \in Nat
        BY <3>1, <4>1
      <4> QED BY <3>1, <4>2
    <3> QED BY <3>1, <3>2
  <2> QED BY <2>3, <2>4, <2>5, <2>6, <1>1, <1>2
<1> QED BY <1>4, <1>5, <1>6, <1>7, <1>8, <1>9 DEF Compute, Network

\* Every step of every thread keeps the inductive invariant.
LEMMA StepIInv == IInv /\ [Next]_vars => IInv'
<1> SUFFICES ASSUME IInv, [Next]_vars PROVE IInv'
  OBVIOUS
<1>1. CASE Next
  <2>1. PICK t \in Thread : Compute(t) \/ Network(t)
    BY <1>1 DEF Next
  <2>2. TypeOK'
    BY <2>1, TypeStep
  <2>3. Semaphore'
    BY <2>1, SemaphoreStep DEF IInv
  <2>4. Owners' /\ OwnNodeUnread'
    BY <2>1, OwnersStep
  <2>5. \E s \in Seq(Node) : Shape(s)'
    BY <2>1, ShapeStep
  <2> QED BY <2>2, <2>3, <2>4, <2>5 DEF IInv
<1>2. CASE UNCHANGED vars
  <2>1. TypeOK' /\ Semaphore' /\ Owners' /\ OwnNodeUnread'
    BY <1>2 DEF IInv, vars, TypeOK, Semaphore, OneInside, Owners, OwnNodeUnread
  <2>2. PICK s \in Seq(Node) : Shape(s)
    BY DEF IInv
  <2>3. Shape(s)'
    BY <1>2, <2>2 DEF vars, Shape, ListOf, Walk, Behind
  <2> QED BY <2>1, <2>3 DEF IInv
<1> QED BY <1>1, <1>2

\* The cache always satisfies the inductive invariant.
LEMMA Invariance == Spec => []IInv
BY InitIInv, StepIInv, PTL DEF Spec

-----------------------------------------------------------------------------
(* What the invariant gives.                                               *)

\* A node is in the list exactly when it is allocated and nobody is inserting it.
LEMMA LinkedIsIn ==
  ASSUME TypeOK, NEW s \in Seq(Node), Shape(s)
  PROVE  \A n : n \in Linked <=> In(n, s)
<1>1. \A n : In(n, s) => n \in Node
  BY DEF In
<1>2. \A n : n \in Linked <=> n \in Node /\ n \in allocated /\ \A t \in Thread : new[t] # n
  BY NullAssumption DEF Linked, InFlight, TypeOK
<1> QED BY <1>1, <1>2 DEF Shape

\* What a sequence behind the list says of links, URLs and walks.
LEMMA ShapeSound ==
  ASSUME TypeOK, NEW s \in Seq(Node), Shape(s)
  PROVE  ListSound /\ UniqueUrls /\ WalkInList
<1>1. \A n : n \in Linked <=> In(n, s)
  BY LinkedIsIn
<1>2. ListOf(list, s)
  BY DEF Shape
<1>3. Len(s) \in Nat /\ (s = <<>> <=> Len(s) = 0) /\ \A i \in 1..Len(s) : s[i] \in Node /\ s[i] # NULL
  BY NullAssumption
<1>4. UniqueUrls
  <2>1. \A n : In(n, s) => n \in Node
    BY DEF In
  <2> QED BY <2>1, <1>1 DEF Shape, UniqueUrls
<1>5. list.head # NULL => In(list.head, s)
  BY <1>2, <1>3 DEF ListOf, In
<1>6. WalkInList
  <2>1. ASSUME NEW t \in Thread, pc[t] \in Critical
        PROVE  (cur[t] = NULL \/ In(cur[t], s)) /\ (pc[t] \in {"pin", "move", "check"} => cur[t] # NULL)
    <3>1. Walk(t, s)
      BY DEF Shape
    <3>2. ~In(NULL, s)
      BY <1>3 DEF In
    <3>3. CASE pc[t] \in {"find", "scan"}
      BY <3>1, <3>3, BehindWhere DEF Walk
    <3>4. CASE pc[t] \notin {"find", "scan"}
      BY <2>1, <3>1, <3>2, <3>4, <1>5 DEF Walk, Critical
    <3> QED BY <3>3, <3>4
  <2> QED BY <2>1, <1>1 DEF WalkInList, Critical
<1>7. (list.head = NULL <=> list.rear = NULL)
  BY <1>2, <1>3 DEF ListOf
<1>8. list.head # NULL => list.head \in Linked /\ list.prev[list.head] = NULL
  BY <1>1, <1>2, <1>3, <1>5 DEF ListOf
<1>9. list.rear # NULL => list.rear \in Linked /\ list.next[list.rear] = NULL
  BY <1>1, <1>2, <1>3 DEF ListOf, In
<1>10. ASSUME NEW n \in Linked
       PROVE  /\ IF n = list.rear THEN list.next[n] = NULL
                 ELSE list.next[n] \in Linked /\ list.prev[list.next[n]] = n
              /\ IF n = list.head THEN list.prev[n] = NULL
                 ELSE list.prev[n] \in Linked /\ list.next[list.prev[n]] = n
  <2>1. PICK i \in 1..Len(s) : s[i] = n
    BY <1>1 DEF In
  <2>2. /\ n = list.rear <=> i = Len(s)
        /\ n = list.head <=> i = 1
    BY <2>1, <1>2, <1>3 DEF ListOf
  <2>3. i = Len(s) => list.next[n] = NULL
    BY <2>1, <1>2 DEF ListOf
  <2>4. i = 1 => list.prev[n] = NULL
    BY <2>1, <1>2 DEF ListOf
  <2>5. ASSUME i # Len(s) PROVE list.next[n] \in Linked /\ list.prev[list.next[n]] = n
    <3>1. i + 1 \in 1..Len(s) /\ i + 1 # 1 /\ i + 1 - 1 = i
      BY <2>5, <1>3
    <3>2. list.next[n] = s[i + 1] /\ list.prev[s[i + 1]] = n
      BY <2>1, <2>5, <3>1, <1>2 DEF ListOf
    <3> QED BY <3>1, <3>2, <1>1 DEF In
  <2>6. ASSUME i # 1 PROVE list.prev[n] \in Linked /\ list.next[list.prev[n]] = n
    <3>1. i - 1 \in 1..Len(s) /\ i - 1 # Len(s) /\ i - 1 + 1 = i
      BY <2>6, <1>3
    <3>2. list.prev[n] = s[i - 1] /\ list.next[s[i - 1]] = n
      BY <2>1, <2>6, <3>1, <1>2 DEF ListOf
    <3> QED BY <3>1, <3>2, <1>1 DEF In
  <2> QED BY <2>2, <2>3, <2>4, <2>5, <2>6
<1>11. ListSound
  BY <1>7, <1>8, <1>9, <1>10 DEF ListSound
<1> QED BY <1>4, <1>6, <1>11

\* Every variable of the cache and of its threads keeps its type: no list field is
\* ever set from garbage, no semaphore goes below zero.
THEOREM TypeCorrect == Spec => []TypeOK
BY Invariance, PTL DEF IInv

\* P(&qmutex) and V(&qmutex) in get_from_cache and create_cache admit one thread at a time.
THEOREM MutualExclusion == Spec => []OneInside
<1>1. IInv => OneInside
  BY DEF IInv, Semaphore
<1> QED BY <1>1, Invariance, PTL

\* The list of cache.c stays a well-formed doubly linked list of live nodes.
THEOREM ListCorrect == Spec => []ListSound
<1>1. IInv => ListSound
  BY ShapeSound DEF IInv
<1> QED BY <1>1, Invariance, PTL

\* create_cache never stores a second copy of a URL.
THEOREM NoDuplicates == Spec => []UniqueUrls
<1>1. IInv => UniqueUrls
  BY ShapeSound DEF IInv
<1> QED BY <1>1, Invariance, PTL

\* No walk of get_from_cache or create_cache leaves the list.
THEOREM SafeWalks == Spec => []WalkInList
<1>1. IInv => WalkInList
  BY ShapeSound DEF IInv
<1> QED BY <1>1, Invariance, PTL

\* The read_cnt test of the evicting loop never meets a reader of the node it tests.
THEOREM BusyTestVacuous == Spec => []OwnNodeUnread
BY Invariance, PTL DEF IInv

-----------------------------------------------------------------------------
(* While no node is handed out that some thread still uses.                *)

\* The threads between Pin and Unpin on n.
Pins(t) == pc[t] \in Reading \cup {"move"}
Pinners(n) == {t \in Thread : Pins(t) /\ cur[t] = n}

\* A node that is in use is counted right; a node being inserted is not read.
CountOK ==
  /\ \A t \in Thread : Pins(t) => cur[t] \in Node
  /\ \A n \in Node : n \in allocated \/ Pinners(n) # {} => read_cnt[n] = Cardinality(Pinners(n))
  /\ \A t \in Thread : new[t] # NULL => Pinners(new[t]) = {}

\* The empty cache has no readers to count.
LEMMA InitCount == Init => CountOK
<1> SUFFICES ASSUME Init PROVE CountOK
  OBVIOUS
<1>1. \A t \in Thread : ~Pins(t)
  BY DEF Init, Pins, Reading
<1>2. \A n : Pinners(n) = {}
  BY <1>1 DEF Pinners
<1> QED BY <1>1, <1>2 DEF Init, CountOK

\* Steps that begin and end no use of a node, and count nothing.
LEMMA CountFrame ==
  ASSUME CountOK, NEW t \in Thread, read_cnt' = read_cnt, allocated' \subseteq allocated,
         \A u \in Thread : new'[u] \in {new[u], NULL},
         \A u \in Thread : (Pins(u)' <=> Pins(u)) /\ (Pins(u) => cur'[u] = cur[u])
  PROVE  CountOK'
<1>1. \A n : Pinners(n)' = Pinners(n)
  BY DEF Pinners
<1> QED BY <1>1 DEF CountOK

\* Every step of a thread keeps the reader counts exact: P and V around read_cnt pair up.
LEMMA CountStep ==
  ASSUME ~Reuse, IInv, CountOK, NEW t \in Thread, Compute(t) \/ Network(t)
  PROVE  CountOK'
<1>0. TypeOK /\ Owners
  BY DEF IInv
<1>1. PICK s \in Seq(Node) : Shape(s)
  BY DEF IInv
<1>2. \A n \in Node : In(n, s) => n \in allocated /\ \A u \in Thread : new[u] # n
  BY <1>1 DEF Shape
<1>3. \A u \in Thread : pc[u] \in {"pin", "move"} => cur[u] \in Node /\ In(cur[u], s)
  BY <1>1 DEF Shape, Walk, In
<1>4. \A n : IsFiniteSet(Pinners(n))
  BY FiniteAssumption, FS_Subset DEF Pinners
<1> USE DEF Goto, Exit, cacheVars, nodeVars
<1>5. ASSUME read_cnt' = read_cnt, allocated' \subseteq allocated,
             new' = new \/ new' = [new EXCEPT ![t] = NULL],
             \A u \in Thread \ {t} : pc'[u] = pc[u] /\ cur'[u] = cur[u],
             (Pins(t)' <=> Pins(t)) /\ (Pins(t) => cur'[t] = cur[t])
      PROVE  CountOK'
  <2>1. \A u \in Thread : new'[u] \in {new[u], NULL}
    BY <1>0, <1>5 DEF TypeOK
  <2>2. \A u \in Thread : (Pins(u)' <=> Pins(u)) /\ (Pins(u) => cur'[u] = cur[u])
    BY <1>5 DEF Pins
  <2> QED BY <1>5, <2>1, <2>2, CountFrame
<1>6. CASE Lookup(t) \/ FindNext(t) \/ FindMiss(t) \/ FindHit(t) \/ MoveToRear(t)
  BY <1>0, <1>5, <1>6 DEF Lookup, FindNext, FindMiss, FindHit, MoveToRear, TypeOK, Pins, Reading
<1>7. CASE InsertLock(t) \/ ScanNext(t) \/ ScanDup(t) \/ ScanDone(t) \/ EvictLock(t) \/ EvictBusy(t)
  BY <1>0, <1>5, <1>7 DEF InsertLock, ScanNext, ScanDup, ScanDone, EvictLock, EvictBusy, TypeOK, Pins, Reading
<1>8. CASE Evict(t) \/ Link(t) \/ FreeOwn(t)
  BY <1>0, <1>5, <1>8 DEF Evict, Link, FreeOwn, TypeOK, Pins, Reading
<1>9. CASE Request(t) \/ Write(t) \/ Abandon(t) \/ UnpinLock(t)
  BY <1>0, <1>5, <1>9 DEF Request, Write, Abandon, UnpinLock, TypeOK, Pins, Reading
<1>10. CASE Fetched(t)
  <2>1. PICK n \in Node \ allocated :
          /\ ~UsedByReader(n)
          /\ allocated' = allocated \cup {n}
          /\ read_cnt' = [read_cnt EXCEPT ![n] = 0]
          /\ new' = [new EXCEPT ![t] = n]
    BY <1>10 DEF Fetched
  <2>2. Pinners(n) = {}
    BY <1>2, <1>3, <2>1 DEF Pinners, Pins, UsedByReader
  <2>3. \A u \in Thread : (Pins(u)' <=> Pins(u)) /\ cur'[u] = cur[u]
    BY <1>0, <1>10 DEF Fetched, TypeOK, Pins, Reading
  <2>4. \A m : Pinners(m)' = Pinners(m)
    BY <2>3 DEF Pinners
  <2>5. \A m \in Node : read_cnt'[m] = IF m = n THEN 0 ELSE read_cnt[m]
    BY <1>0, <2>1 DEF TypeOK
  <2>6. Cardinality(Pinners(n)) = 0
    BY <2>2, FS_EmptySet
  <2>7. \A u \in Thread : new'[u] = IF u = t THEN n ELSE new[u]
    BY <1>0, <2>1 DEF TypeOK
  <2> QED BY <2>1, <2>2, <2>3, <2>4, <2>5, <2>6, <2>7 DEF CountOK
<1>11. CASE Pin(t)
  <2>1. PICK n \in Node : n = cur[t] /\ In(n, s)
    BY <1>3, <1>11 DEF Pin
  <2>2. /\ ~Pins(t) /\ Pins(t)' /\ cur' = cur
        /\ \A u \in Thread \ {t} : (Pins(u)' <=> Pins(u))
    BY <1>0, <1>11 DEF Pin, TypeOK, Pins, Reading
  <2>3. \A m : Pinners(m)' = IF m = n THEN Pinners(m) \cup {t} ELSE Pinners(m)
    BY <2>1, <2>2 DEF Pinners
  <2>4. \A m \in Node : read_cnt'[m] = IF m = n THEN read_cnt[m] + 1 ELSE read_cnt[m]
    BY <1>0, <1>11, <2>1 DEF Pin, TypeOK
  <2>5. t \notin Pinners(n)
    BY <2>2 DEF Pinners
  <2>6. Cardinality(Pinners(n)') = Cardinality(Pinners(n)) + 1
    BY <1>4, <2>3, <2>5, FS_AddElement
  <2>7. allocated' = allocated /\ new' = new
    BY <1>11 DEF Pin
  <2>8. n \in allocated /\ \A u \in Thread : new[u] # n
    BY <1>2, <2>1
  <2> QED BY <2>1, <2>2, <2>3, <2>4, <2>6, <2>7, <2>8 DEF CountOK
<1>12. CASE Unpin(t)
  <2>1. Pins(t)
    BY <1>12 DEF Unpin, Pins, Reading
  <2>2. PICK n \in Node : n = cur[t]
    BY <2>1 DEF CountOK
  <2>3. /\ ~Pins(t)' /\ \A u \in Thread \ {t} : (Pins(u)' <=> Pins(u)) /\ cur'[u] = cur[u]
    BY <1>0, <1>12 DEF Unpin, TypeOK, Pins, Reading
  <2>4. \A m : Pinners(m)' = IF m = n THEN Pinners(m) \ {t} ELSE Pinners(m)
    BY <2>1, <2>2, <2>3 DEF Pinners
  <2>5. \A m \in Node : read_cnt'[m] = IF m = n THEN read_cnt[m] - 1 ELSE read_cnt[m]
    BY <1>0, <1>12, <2>2 DEF Unpin, TypeOK
  <2>6. t \in Pinners(n)
    BY <2>1, <2>2 DEF Pinners
  <2>7. Cardinality(Pinners(n)') = Cardinality(Pinners(n)) - 1
    BY <1>4, <2>4, <2>6, FS_RemoveElement
  <2>8. allocated' = allocated /\ \A u \in Thread : new'[u] \in {new[u], NULL}
    BY <1>0, <1>12 DEF Unpin, TypeOK
  <2>9. read_cnt[n] = Cardinality(Pinners(n))
    BY <2>6 DEF CountOK
  <2>10. \A m \in Node : m \in allocated' \/ Pinners(m)' # {} => read_cnt'[m] = Cardinality(Pinners(m)')
    BY <2>4, <2>5, <2>7, <2>8, <2>9 DEF CountOK
  <2>11. \A u \in Thread : new'[u] # NULL => Pinners(new[u])' = {}
    BY <2>4, <2>8 DEF CountOK
  <2>12. \A u \in Thread : Pins(u)' => cur'[u] \in Node
    BY <2>3 DEF CountOK
  <2> QED BY <2>10, <2>11, <2>12 DEF CountOK
<1> QED BY <1>6, <1>7, <1>8, <1>9, <1>10, <1>11, <1>12 DEF Compute, Network

\* The evicting loop never meets a reader of the node being inserted.
LEMMA NotBusy ==
  ASSUME IInv, CountOK, NEW t \in Thread
  PROVE  ~EvictBusy(t)
<1> SUFFICES ASSUME EvictBusy(t) PROVE FALSE
  OBVIOUS
<1>1. PICK n \in Node : n = new[t] /\ n \in allocated
  BY DEF IInv, Owners, TypeOK, Pointer, EvictBusy, Goto, Inserting
<1>2. Pinners(n) = {} /\ new[t] # NULL
  BY <1>1, NullAssumption DEF CountOK
<1>3. read_cnt[n] = 0
  BY <1>1, <1>2, FS_EmptySet DEF CountOK
<1> QED BY <1>1, <1>3 DEF EvictBusy
-----------------------------------------------------------------------------
(* Bytes.                                                                  *)

\* The nodes whose sizes tsize holds.
Kept == Linked \cup {new[t] : t \in Storing}

BytesOK ==
  /\ \A n \in Node : size[n] <= MaxObject
  /\ \A t \in Thread : new[t] # NULL => url[new[t]] = req[t] /\ size[new[t]] >= 1
  /\ \A t \in Thread : pc[t] = "check" => tsize > MaxCache
  /\ Accounting
  /\ Storing = {} => tsize <= MaxCache

\* The empty cache has no bytes to count.
LEMMA InitBytes == Init => BytesOK
<1> SUFFICES ASSUME Init PROVE BytesOK
  OBVIOUS
<1>1. Linked = {} /\ Storing = {}
  BY DEF Init, Linked, Storing
<1>2. SizeOf(Linked \cup {new[t] : t \in Storing}) = 0
  BY <1>1, SumEmpty DEF SizeOf
<1> QED BY <1>1, <1>2, SizeAssumption DEF Init, BytesOK, Accounting

\* The nodes of the list, and the kept ones.
LEMMA LinkedNodes ==
  ASSUME TypeOK
  PROVE  Linked = {n \in allocated : \A t \in Thread : new[t] # n}
BY NullAssumption DEF Linked, InFlight, TypeOK

\* The nodes that tsize counts are finitely many and have sizes.
LEMMA KeptNodes ==
  ASSUME TypeOK, Owners
  PROVE  /\ Kept \subseteq Node /\ IsFiniteSet(Kept)
         /\ \A n \in Kept : size[n] \in Nat
         /\ \A t \in Storing : new[t] \in Node \cap allocated
<1>1. \A t \in Storing : new[t] \in Node \cap allocated
  BY DEF Owners, Storing, Inserting, TypeOK, Pointer
<1>2. Kept \subseteq Node
  BY <1>1, LinkedNodes DEF Kept, TypeOK
<1> QED BY <1>1, <1>2, FiniteAssumption, FS_Subset DEF TypeOK

\* At most one thread has its node between ScanDone and Link.
LEMMA OneStoring ==
  ASSUME Semaphore, NEW t \in Thread, pc[t] \in Critical
  PROVE  Storing = IF pc[t] \in {"evict", "check"} THEN {t} ELSE {}
BY DEF Semaphore, OneInside, Storing, Critical

\* Steps that keep the same nodes, and their sizes.
LEMMA KeptFrame ==
  ASSUME TypeOK, Owners, Accounting, tsize' = tsize, Kept' = Kept,
         \A n \in Kept : size'[n] = size[n]
  PROVE  Accounting'
<1>1. SumFunctionOnSet(size, Kept) = SumFunctionOnSet(size', Kept)
  BY KeptNodes, SumSame
<1>2. SumFunctionOnSet(size', Kept) = SumFunctionOnSet(size', Kept')
  OBVIOUS
<1> QED BY <1>1, <1>2 DEF Accounting, SizeOf, Kept

\* The steps that change neither nodes nor owners.
LEMMA BytesFrame ==
  ASSUME IInv, BytesOK, NEW t \in Thread, UNCHANGED <<tsize, allocated, url, size, new>>,
         \A u \in Thread \ {t} : pc'[u] = pc[u] /\ req'[u] = req[u],
         new[t] # NULL => req'[t] = req[t],
         (pc'[t] \in {"evict", "check"} <=> pc[t] \in {"evict", "check"}),
         pc'[t] = "check" => tsize > MaxCache
  PROVE  BytesOK'
<1>1. Storing' = Storing
  BY DEF Storing
<1>2. Linked' = Linked /\ Kept' = Kept
  BY <1>1 DEF Linked, InFlight, Kept
<1>3. Accounting'
  BY <1>2, KeptFrame DEF IInv, BytesOK
<1>4. \A u \in Thread : new[u] # NULL => req'[u] = req[u]
  OBVIOUS
<1>5. \A u \in Thread : pc'[u] = "check" => tsize > MaxCache
  BY DEF BytesOK
<1> QED BY <1>1, <1>3, <1>4, <1>5 DEF BytesOK

\* malloc and free of a node that is not in the list.
LEMMA OwnNode ==
  ASSUME TypeOK, Owners, NEW t \in Thread, Fetched(t) \/ FreeOwn(t)
  PROVE  \E n \in Node :
        /\ \A m \in Node : m # n => size'[m] = size[m] /\ url'[m] = url[m]
        /\ \A u \in Thread \ {t} : new[u] # n /\ new'[u] = new[u] /\ pc'[u] = pc[u] /\ req'[u] = req[u]
        /\ size'[n] <= MaxObject
        /\ \/ /\ n \notin allocated /\ allocated' = allocated \cup {n}
              /\ new[t] = NULL /\ new'[t] = n /\ url'[n] = req'[t] /\ size'[n] >= 1
           \/ allocated' = allocated \ {n} /\ new[t] = n /\ new'[t] = NULL
<1> USE DEF Goto, Exit
<1>1. CASE Fetched(t)
  <2>1. PICK n \in Node \ allocated, sz \in 1..MaxObject :
          /\ allocated' = allocated \cup {n}
          /\ url' = [url EXCEPT ![n] = req[t]]
          /\ size' = [size EXCEPT ![n] = sz]
          /\ new' = [new EXCEPT ![t] = n]
    BY <1>1 DEF Fetched
  <2>2. req' = req /\ new[t] = NULL /\ \A u \in Thread \ {t} : pc'[u] = pc[u]
    BY <1>1 DEF Fetched, TypeOK, Owners, Inserting
  <2>3. \A u \in Thread : new[u] # n
    BY <2>1, NullAssumption DEF Owners
  <2>4. sz <= MaxObject /\ sz >= 1
    BY SizeAssumption
  <2> QED BY <2>1, <2>2, <2>3, <2>4 DEF TypeOK
<1>2. CASE FreeOwn(t)
  <2>1. new[t] \in Node /\ \A u \in Thread \ {t} : new[u] # new[t]
    BY <1>2 DEF FreeOwn, Owners, Inserting, TypeOK, Pointer
  <2>2. 0 <= MaxObject
    BY SizeAssumption
  <2> QED BY <1>2, <2>1, <2>2 DEF FreeOwn, TypeOK
<1> QED BY <1>1, <1>2

\* A node that its thread builds or frees was never counted.
LEMMA BytesOwn ==
  ASSUME IInv, IInv', BytesOK, NEW t \in Thread, Fetched(t) \/ FreeOwn(t)
  PROVE  BytesOK'
<1>0. TypeOK /\ Owners /\ TypeOK'
  BY DEF IInv
<1>1. PICK n \in Node :
        /\ \A m \in Node : m # n => size'[m] = size[m] /\ url'[m] = url[m]
        /\ \A u \in Thread \ {t} : new[u] # n /\ new'[u] = new[u] /\ pc'[u] = pc[u] /\ req'[u] = req[u]
        /\ size'[n] <= MaxObject
        /\ \/ /\ n \notin allocated /\ allocated' = allocated \cup {n}
              /\ new[t] = NULL /\ new'[t] = n /\ url'[n] = req'[t] /\ size'[n] >= 1
           \/ allocated' = allocated \ {n} /\ new[t] = n /\ new'[t] = NULL
  BY <1>0, OwnNode
<1>2. /\ pc[t] \notin {"evict", "check"} /\ pc'[t] \notin {"evict", "check"}
      /\ tsize' = tsize
  BY <1>0 DEF Fetched, FreeOwn, TypeOK, Goto, Exit
<1>3. Storing' = Storing /\ t \notin Storing
  BY <1>1, <1>2 DEF Storing
<1>4. Linked' = {m \in allocated' : \A u \in Thread : new'[u] # m}
  BY <1>0, NullAssumption DEF Linked, InFlight, TypeOK
<1>5. Linked' = Linked
  <2>1. Linked = {m \in allocated : \A u \in Thread : new[u] # m}
    BY <1>0, LinkedNodes
  <2>2. ASSUME NEW m PROVE m \in Linked' <=> m \in Linked
    <3>1. CASE m = n
      <4>1. m \notin Linked /\ m \notin Linked'
        BY <3>1, <2>1, <1>1, <1>4
      <4> QED BY <4>1
    <3>2. CASE m # n
      <4>1. m \in allocated' <=> m \in allocated
        BY <3>2, <1>1
      <4>2. m \in allocated => m # NULL
        BY <1>0, NullAssumption DEF TypeOK
      <4>3. m # NULL => (new'[t] # m /\ new[t] # m)
        BY <3>2, <1>1
      <4>4. m # NULL => ((\A u \in Thread : new'[u] # m) <=> \A u \in Thread : new[u] # m)
        BY <4>3, <1>1
      <4> QED BY <2>1, <1>4, <4>1, <4>2, <4>4
    <3> QED BY <3>1, <3>2
  <2> QED BY <2>2
<1>6. Kept' = Kept /\ n \notin Kept
  <2>1. n \notin Kept
    BY <1>0, <1>1, <1>3, LinkedNodes DEF Kept, Storing
  <2>2. \A u \in Storing : new'[u] = new[u]
    BY <1>1, <1>3 DEF Storing
  <2> QED BY <1>3, <1>5, <2>1, <2>2 DEF Kept
<1>7. Accounting'
  BY <1>0, <1>1, <1>2, <1>6, KeptFrame, KeptNodes DEF BytesOK
<1>8. \A m \in Node : size'[m] <= MaxObject
  BY <1>1 DEF BytesOK
<1>9. \A u \in Thread : new'[u] # NULL => url'[new'[u]] = req'[u] /\ size'[new'[u]] >= 1
  <2>1. \A u \in Thread \ {t} : new[u] # NULL => new[u] \in Node
    BY <1>0 DEF TypeOK, Pointer
  <2> QED BY <1>1, <2>1 DEF BytesOK
<1>10. \A u \in Thread : pc'[u] = "check" => tsize' > MaxCache
  BY <1>1, <1>2 DEF BytesOK
<1> QED BY <1>2, <1>3, <1>7, <1>8, <1>9, <1>10 DEF BytesOK

\* The new object's size is counted.
LEMMA BytesScanDone ==
  ASSUME IInv, BytesOK, NEW t \in Thread, ScanDone(t)
  PROVE  BytesOK'
<1>0. TypeOK /\ Owners /\ Semaphore
  BY DEF IInv
<1>1. /\ pc[t] = "scan" /\ tsize' = tsize + size[new[t]]
      /\ pc' = [pc EXCEPT ![t] = "evict"] /\ UNCHANGED <<allocated, url, size, new, req>>
  BY DEF ScanDone, Goto, nodeVars
<1>2. PICK n \in Node : n = new[t] /\ n \in allocated
  BY <1>0, <1>1 DEF Owners, Inserting, TypeOK, Pointer
<1>3. Storing = {}
  BY <1>0, <1>1, OneStoring DEF Critical
<1>4. Storing' = {t}
  BY <1>0, <1>1, <1>3 DEF Storing, TypeOK
<1>5. Kept = Linked /\ n \notin Linked /\ Kept' = Kept \cup {n}
  BY <1>0, <1>1, <1>2, <1>3, <1>4, LinkedNodes DEF Kept, Linked, InFlight
<1>6. IsFiniteSet(Kept) /\ \A m \in Kept \cup {n} : size[m] \in Nat
  BY <1>0, <1>2, KeptNodes DEF TypeOK
<1>7. SumFunctionOnSet(size, Kept \cup {n}) = size[n] + SumFunctionOnSet(size, Kept)
  BY <1>5, <1>6, SumAdd
<1>8. tsize = SumFunctionOnSet(size, Kept)
  BY DEF BytesOK, Accounting, SizeOf, Kept
<1>9. tsize \in Int /\ size[n] \in Nat
  BY <1>0 DEF TypeOK
<1>10. tsize' = SumFunctionOnSet(size, Kept \cup {n})
  BY <1>1, <1>2, <1>7, <1>8, <1>9
<1>11. Accounting'
  BY <1>1, <1>5, <1>10 DEF Accounting, SizeOf, Kept
<1>12. \A u \in Thread : pc'[u] # "check"
  BY <1>0, <1>1, <1>3 DEF TypeOK, Storing
<1> QED BY <1>1, <1>4, <1>11, <1>12 DEF BytesOK

\* The oldest node goes, and its size.
LEMMA BytesEvict ==
  ASSUME IInv, IInv', BytesOK, NEW t \in Thread, Evict(t)
  PROVE  BytesOK'
<1>0. TypeOK /\ Owners /\ Semaphore /\ TypeOK'
  BY DEF IInv
<1>1. PICK s \in Seq(Node) : Shape(s)
  BY DEF IInv
<1>2. PICK n \in Node : n = cur[t] /\ n \in Linked
  BY <1>0, <1>1, ShapeSound, NullAssumption DEF WalkInList, Critical, Evict, Goto, LinkedIsIn, Linked, TypeOK
<1>3. /\ pc[t] = "check" /\ tsize' = tsize - size[n]
      /\ pc' = [pc EXCEPT ![t] = "evict"] /\ UNCHANGED <<new, req>>
      /\ allocated' = allocated \ {n}
      /\ url' = [url EXCEPT ![n] = Junk] /\ size' = [size EXCEPT ![n] = 0]
  BY <1>2 DEF Evict, Goto
<1>4. Storing = {t} /\ Storing' = {t}
  <2>1. Storing = {t}
    BY <1>0, <1>3, OneStoring DEF Critical
  <2> QED BY <1>0, <1>3, <2>1 DEF Storing, TypeOK
<1>5. Linked' = {m \in allocated' : \A u \in Thread : new'[u] # m}
  BY <1>0, NullAssumption DEF Linked, InFlight, TypeOK
<1>6. /\ \A u \in Thread : new[u] # n
      /\ Kept' = Kept \ {n} /\ n \in Kept
  <2>1. \A u \in Thread : new[u] # n
    BY <1>0, <1>2, LinkedNodes
  <2>2. Linked' = Linked \ {n}
    BY <1>0, <1>3, <1>5, LinkedNodes
  <2> QED BY <1>2, <1>3, <1>4, <2>1, <2>2 DEF Kept
<1>7. SumFunctionOnSet(size, Kept) = size[n] + SumFunctionOnSet(size, Kept \ {n})
  BY <1>0, <1>6, KeptNodes, SumTake
<1>8. IsFiniteSet(Kept \ {n}) /\ \A m \in Kept \ {n} : size'[m] = size[m] /\ size[m] \in Nat
  BY <1>0, <1>3, KeptNodes, FS_Subset DEF TypeOK
<1>9. SumFunctionOnSet(size, Kept \ {n}) = SumFunctionOnSet(size', Kept \ {n})
  BY <1>8, SumSame
<1>10. tsize = SumFunctionOnSet(size, Kept)
  BY DEF BytesOK, Accounting, SizeOf, Kept
<1>11. SumFunctionOnSet(size, Kept \ {n}) \in Nat /\ size[n] \in Nat
  BY <1>0, <1>8, SumNat DEF TypeOK
<1>12. tsize' = SumFunctionOnSet(size, Kept \ {n})
  BY <1>3, <1>7, <1>10, <1>11
<1>13. tsize' = SumFunctionOnSet(size', Kept')
  BY <1>6, <1>9, <1>12
<1>14. Accounting'
  BY <1>13 DEF Accounting, SizeOf, Kept
<1>15. \A m \in Node : size'[m] <= MaxObject
  BY <1>0, <1>3, SizeAssumption DEF BytesOK, TypeOK
<1>16. \A u \in Thread : pc'[u] # "check"
  BY <1>0, <1>3, <1>4 DEF TypeOK, Storing
<1>17. \A u \in Thread : new'[u] # NULL => url'[new'[u]] = req'[u] /\ size'[new'[u]] >= 1
  BY <1>0, <1>3, <1>6 DEF BytesOK, TypeOK, Pointer
<1> QED BY <1>4, <1>14, <1>15, <1>16, <1>17 DEF BytesOK

\* The new node enters the list: it fits, or it is alone there.
LEMMA BytesLink ==
  ASSUME IInv, IInv', BytesOK, NEW t \in Thread, Link(t)
  PROVE  BytesOK' /\ tsize <= MaxCache
<1>0. TypeOK /\ Owners /\ Semaphore /\ TypeOK'
  BY DEF IInv
<1>1. /\ pc[t] = "evict" /\ pc' = [pc EXCEPT ![t] = "idle"]
      /\ new' = [new EXCEPT ![t] = NULL] /\ req' = [req EXCEPT ![t] = NULL]
      /\ UNCHANGED <<tsize, allocated, url, size>>
      /\ cur[t] = NULL \/ tsize <= MaxCache
  BY DEF Link, Exit, Goto, nodeVars
<1>2. PICK n \in Node : n = new[t] /\ n \in allocated
  BY <1>0, <1>1 DEF Owners, Inserting, TypeOK, Pointer
<1>3. Storing = {t} /\ Storing' = {}
  <2>1. Storing = {t}
    BY <1>0, <1>1, OneStoring DEF Critical
  <2> QED BY <1>0, <1>1, <2>1 DEF Storing, TypeOK
<1>4. Linked' = {m \in allocated' : \A u \in Thread : new'[u] # m}
  BY <1>0, NullAssumption DEF Linked, InFlight, TypeOK
<1>5. \A u \in Thread : new'[u] = IF u = t THEN NULL ELSE new[u]
  BY <1>0, <1>1 DEF TypeOK
<1>6. Linked' = Linked \cup {n}
  <2>1. \A u \in Thread : u # t => new[u] # n
    BY <1>0, <1>2, NullAssumption DEF Owners
  <2> QED BY <1>0, <1>1, <1>2, <1>4, <1>5, <2>1, LinkedNodes, NullAssumption DEF TypeOK
<1>7. Kept = Linked \cup {n} /\ Kept' = Kept
  BY <1>2, <1>3, <1>6 DEF Kept
<1>8. Accounting'
  BY <1>0, <1>1, <1>7, KeptFrame DEF BytesOK
<1>9. tsize <= MaxCache
  <2>1. CASE cur[t] = NULL
    <3>1. PICK s \in Seq(Node) : Shape(s)
      BY DEF IInv
    <3>2. list.head = NULL
      BY <1>1, <2>1, <3>1 DEF Shape, Walk
    <3>3. s = <<>>
      <4>1. s # <<>> => 1 \in 1..Len(s) /\ s[1] \in Node
        OBVIOUS
      <4> QED BY <3>1, <3>2, <4>1, NullAssumption DEF Shape, ListOf
    <3>4. Linked = {}
      <4>1. \A m : ~In(m, <<>>)
        BY DEF In
      <4>2. \A m : m \in Linked <=> In(m, s)
        BY <1>0, <3>1, LinkedIsIn
      <4> QED BY <4>1, <4>2, <3>3
    <3>5. Kept = {n} /\ size[n] \in Nat /\ size[n] <= MaxObject
      BY <1>0, <1>7, <3>4 DEF BytesOK, TypeOK
    <3>6. SumFunctionOnSet(size, {n}) = size[n] + SumFunctionOnSet(size, {n} \ {n})
      BY <3>5, FS_Singleton, SumTake
    <3>7. {n} \ {n} = {}
      OBVIOUS
    <3>8. tsize = size[n]
      <4>1. tsize = SumFunctionOnSet(size, Kept)
        BY DEF BytesOK, Accounting, SizeOf, Kept
      <4>2. SumFunctionOnSet(size, {n}) = size[n] + 0
        BY <3>6, <3>7, SumEmpty
      <4> QED BY <4>1, <4>2, <3>5
    <3> QED BY <3>5, <3>8, SizeAssumption
  <2> QED BY <1>1, <2>1
<1>10. \A u \in Thread : pc'[u] # "check"
  BY <1>0, <1>1, <1>3 DEF TypeOK, Storing
<1>11. \A u \in Thread : new'[u] # NULL => url'[new'[u]] = req'[u] /\ size'[new'[u]] >= 1
  BY <1>0, <1>1, <1>5 DEF BytesOK, TypeOK
<1> QED BY <1>1, <1>8, <1>9, <1>10, <1>11 DEF BytesOK

\* Every step accounts for its bytes.
LEMMA BytesStep ==
  ASSUME IInv, IInv', CountOK, BytesOK, NEW t \in Thread, Compute(t) \/ Network(t)
  PROVE  BytesOK'
<1>0. TypeOK /\ Owners
  BY DEF IInv
<1>1. ASSUME UNCHANGED <<tsize, allocated, url, size>>,
             new' = new \/ (new' = [new EXCEPT ![t] = NULL] /\ pc[t] \notin Inserting),
             \A u \in Thread \ {t} : pc'[u] = pc[u] /\ req'[u] = req[u],
             pc[t] \in Inserting => req'[t] = req[t],
             (pc'[t] \in {"evict", "check"} <=> pc[t] \in {"evict", "check"}),
             pc'[t] = "check" => tsize > MaxCache
      PROVE  BytesOK'
  <2>1. new' = new
    BY <1>0, <1>1 DEF Owners, TypeOK
  <2>2. new[t] # NULL => req'[t] = req[t]
    BY <1>0, <1>1 DEF Owners
  <2> QED BY <1>1, <2>1, <2>2, BytesFrame
<1> USE DEF Goto, Exit, cacheVars, nodeVars
<1>2. CASE Lookup(t) \/ FindNext(t) \/ FindMiss(t) \/ FindHit(t) \/ Pin(t) \/ MoveToRear(t)
  BY <1>0, <1>1, <1>2 DEF Lookup, FindNext, FindMiss, FindHit, Pin, MoveToRear, TypeOK
<1>3. CASE InsertLock(t) \/ ScanNext(t) \/ ScanDup(t) \/ EvictLock(t)
  BY <1>0, <1>1, <1>3 DEF InsertLock, ScanNext, ScanDup, EvictLock, TypeOK
<1>4. CASE Request(t) \/ Write(t) \/ Abandon(t) \/ UnpinLock(t) \/ Unpin(t)
  BY <1>0, <1>1, <1>4 DEF Request, Write, Abandon, UnpinLock, Unpin, TypeOK, Inserting
<1> QED BY <1>2, <1>3, <1>4, NotBusy, BytesOwn, BytesScanDone, BytesEvict, BytesLink DEF Compute, Network

-----------------------------------------------------------------------------
(* Every state.                                                            *)

LruInv == IInv /\ CountOK /\ BytesOK

\* Every step keeps counts and bytes together.
LEMMA LruInvStep ==
  ASSUME ~Reuse, LruInv, [Next]_vars
  PROVE  LruInv'
<1>1. IInv'
  BY StepIInv DEF LruInv
<1>2. CASE Next
  <2>1. PICK t \in Thread : Compute(t) \/ Network(t)
    BY <1>2 DEF Next
  <2> QED BY <1>1, <2>1, CountStep, BytesStep DEF LruInv
<1>3. CASE UNCHANGED vars
  <2>1. CountOK'
    BY <1>3 DEF vars, LruInv, CountOK, Pinners, Pins
  <2>2. Storing' = Storing /\ Linked' = Linked
    BY <1>3 DEF vars, Storing, Linked, InFlight
  <2>3. Accounting'
    BY <1>3, <2>2, KeptFrame DEF vars, LruInv, IInv, BytesOK, Kept
  <2>4. BytesOK'
    BY <1>3, <2>2, <2>3 DEF vars, LruInv, BytesOK
  <2> QED BY <1>1, <2>1, <2>4 DEF LruInv
<1> QED BY <1>2, <1>3

\* Counts and bytes are exact in every reachable state.
LEMMA LruInvariance ==
  ASSUME ~Reuse
  PROVE  Spec => []LruInv
<1>1. Init => LruInv
  BY InitIInv, InitCount, InitBytes DEF LruInv
<1>2. LruInv /\ [Next]_vars => LruInv'
  BY LruInvStep
<1> QED BY <1>1, <1>2, PTL DEF Spec

\* create_cache and its evicting loop neither lose nor gain a byte: tsize is the total
\* size of the list and of the one node on its way into it.
THEOREM BytesCounted ==
  ASSUME ~Reuse
  PROVE  Spec => []Accounting
<1>1. LruInv => Accounting
  BY DEF LruInv, BytesOK
<1> QED BY <1>1, LruInvariance, PTL

\* Whatever the threads store, the objects in the list fit in MAX_CACHE_SIZE when
\* qmutex is free: the loop of create_cache evicts enough, or empties the list.
THEOREM CacheFits ==
  ASSUME ~Reuse
  PROVE  Spec => []Fits
<1>1. LruInv => Fits
  <2> SUFFICES ASSUME LruInv, qmutex = 1 PROVE SizeOf(Linked) <= MaxCache
    BY DEF Fits
  <2>1. Storing = {}
    BY DEF LruInv, IInv, Semaphore, Storing, Critical
  <2>2. Kept = Linked
    BY <2>1 DEF Kept
  <2>3. tsize = SizeOf(Kept)
    BY DEF LruInv, BytesOK, Accounting, Kept
  <2> QED BY <2>1, <2>2, <2>3 DEF LruInv, BytesOK
<1> QED BY <1>1, LruInvariance, PTL

\* read_cnt of a node in the list, or still used by a reader, is the number of its readers.
THEOREM ReadersExact ==
  ASSUME ~Reuse
  PROVE  Spec => []ReadersCounted
<1>1. LruInv => ReadersCounted
  <2> SUFFICES ASSUME LruInv, NEW n \in Node, n \in Linked \/ UsedByReader(n)
               PROVE  read_cnt[n] = Cardinality({t \in Thread : pc[t] \in Reading \cup {"move"} /\ cur[t] = n})
    BY DEF ReadersCounted
  <2>1. Pinners(n) = {t \in Thread : pc[t] \in Reading \cup {"move"} /\ cur[t] = n}
    BY DEF Pinners, Pins
  <2>2. n \in allocated \/ Pinners(n) # {}
    BY <2>1 DEF Linked, UsedByReader
  <2> QED BY <2>1, <2>2 DEF LruInv, CountOK
<1> QED BY <1>1, LruInvariance, PTL

\* Insert_cache's retry loop, which would wait for a cmutex its own thread holds, is
\* never entered.
THEOREM RetryUnreached ==
  ASSUME ~Reuse
  PROVE  Spec => NeverBusy
<1>1. LruInv => \A t \in Thread : ~EvictBusy(t)
  BY NotBusy DEF LruInv
<1> QED BY <1>1, LruInvariance, PTL DEF NeverBusy
-----------------------------------------------------------------------------
(* The abstract store.                                                     *)

\* What the list shows of the sequence s of nodes.
Entries(s) == [i \in 1..Len(s) |-> EntryOf(s[i])]

IsFollow(L, k, f) == f = [i \in 1..k |-> IF i = 1 THEN L.head ELSE L.next[f[i - 1]]]

\* Reading a list from its head along next gives its nodes in their order.
LEMMA FollowList ==
  ASSUME NEW L, NEW s \in Seq(Node), ListOf(L, s)
  PROVE  \A i \in 1..Len(s) : Follow(L, Len(s))[i] = s[i]
<1> DEFINE N == Len(s)
           f == Follow(L, N)
<1>0. N \in Nat
  OBVIOUS
<1>1. f = CHOOSE g : IsFollow(L, N, g)
  BY DEF Follow, IsFollow
<1>2. IsFollow(L, N, s)
  <2>1. s = [i \in 1..N |-> s[i]]
    OBVIOUS
  <2>2. \A i \in 1..N : s[i] = IF i = 1 THEN L.head ELSE L.next[s[i - 1]]
    <3>1. ASSUME NEW i \in 1..N, i # 1 PROVE s[i] = L.next[s[i - 1]]
      <4>1. i - 1 \in 1..N /\ i - 1 # N /\ i - 1 + 1 = i
        BY <1>0, <3>1
      <4> QED BY <4>1 DEF ListOf
    <3>2. N # 0 => s[1] = L.head
      BY DEF ListOf
    <3> QED BY <3>1, <3>2
  <2> HIDE DEF N
  <2> QED BY <2>1, <2>2 DEF IsFollow
<1>3. IsFollow(L, N, f)
  BY <1>1, <1>2
<1> HIDE DEF f, N
<1>4. \A i \in 1..N : f[i] = IF i = 1 THEN L.head ELSE L.next[f[i - 1]]
  BY <1>3 DEF IsFollow
<1>5. \A i \in 1..N : s[i] = IF i = 1 THEN L.head ELSE L.next[s[i - 1]]
  BY <1>2 DEF IsFollow
<1> DEFINE T == {i \in Nat : i \in 1..N => f[i] = s[i]}
<1>6. 0 \in T
  BY <1>0
<1>7. ASSUME NEW i \in Nat, i \in T PROVE i + 1 \in T
  <2>1. CASE i = 0
    BY <2>1, <1>4, <1>5
  <2>2. CASE i # 0
    <3>1. i + 1 \in 1..N => i \in 1..N /\ i + 1 # 1 /\ i + 1 - 1 = i
      BY <1>0, <2>2
    <3>2. i \in 1..N => f[i] = s[i]
      BY <1>7
    <3> QED BY <3>1, <3>2, <1>4, <1>5
  <2> QED BY <2>1, <2>2
<1>8. Nat \subseteq T
  <2> HIDE DEF T
  <2> QED BY <1>6, <1>7, NatInSet
<1>9. \A i \in 1..N : i \in Nat
  BY <1>0
<1> QED BY <1>8, <1>9 DEF f, N

\* The order of the store is the order of the list, in any state.
LEMMA OrderIs == \A s \in Seq(Node) : TypeOK /\ Shape(s) => LruOrder = Entries(s)
<1> SUFFICES ASSUME NEW s \in Seq(Node), TypeOK, Shape(s) PROVE LruOrder = Entries(s)
  OBVIOUS
<1>1. ListOf(list, s)
  BY DEF Shape
<1>2. Cardinality(Linked) = Len(s)
  <2>1. Len(s) \in Nat /\ \A i, j \in 1..Len(s) : s[i] = s[j] => i = j
    BY <1>1 DEF ListOf
  <2>2. \A n : n \in Linked <=> \E i \in 1..Len(s) : s[i] = n
    BY <1>1, LinkedIsIn DEF In
  <2> QED BY <2>1, <2>2, CountSeq
<1>3. \A i \in 1..Len(s) : Follow(list, Len(s))[i] = s[i]
  BY <1>1, FollowList
<1> QED BY <1>2, <1>3 DEF LruOrder, Entries

\* The entries of a sequence of nodes are its nodes' entries, in order.
LEMMA EntriesSeq ==
  ASSUME NEW s \in Seq(Node)
  PROVE  /\ Len(s) \in Nat /\ Len(Entries(s)) = Len(s) /\ DOMAIN Entries(s) = 1..Len(s)
         /\ \A i \in 1..Len(s) : s[i] \in Node /\ Entries(s)[i] = EntryOf(s[i])
         /\ Entries(s) \in Seq({EntryOf(n) : n \in Node})
<1>1. Len(s) \in Nat /\ \A i \in 1..Len(s) : s[i] \in Node
  OBVIOUS
<1>2. Entries(s) \in [1..Len(s) -> {EntryOf(n) : n \in Node}]
  BY <1>1 DEF Entries
<1>3. DOMAIN Entries(s) = 1..Len(s) /\ \A i \in 1..Len(s) : Entries(s)[i] = EntryOf(s[i])
  BY DEF Entries
<1>4. Entries(s) \in Seq({EntryOf(n) : n \in Node}) /\ Len(Entries(s)) = Len(s)
  BY <1>1, <1>2
<1> QED BY <1>1, <1>3, <1>4

\* The store's way to take an entry out, element by element.
LEMMA RemoveIs ==
  ASSUME NEW E, NEW q \in Seq(E), NEW k \in 1..Len(q)
  PROVE  Lru!RemoveAt(q, k) = [i \in 1..(Len(q) - 1) |-> IF i < k THEN q[i] ELSE q[i + 1]]
BY TakeOut DEF Lru!RemoveAt

\* A hit's move to the rear, seen as a change of the store.
LEMMA EntriesMoved ==
  ASSUME NEW s \in Seq(Node), NEW k \in 1..Len(s)
  PROVE  Entries(Append(Cut(s, k), s[k])) = Append(Lru!RemoveAt(Entries(s), k), Entries(s)[k])
<1> DEFINE N == Len(s)
           E == {EntryOf(n) : n \in Node}
           e == Entries(s)
           r == Lru!RemoveAt(e, k)
           c == Cut(s, k)
           a == Append(c, s[k])
<1>1. N \in Nat /\ k \in 1..N /\ \A i \in 1..N : s[i] \in Node
  OBVIOUS
<1>2. c \in [1..(N - 1) -> Node] /\ \A i \in 1..(N - 1) : c[i] = IF i < k THEN s[i] ELSE s[i + 1]
  BY <1>1 DEF Cut
<1>3. c \in Seq(Node) /\ Len(c) = N - 1
  BY <1>1, <1>2
<1>4. a \in Seq(Node) /\ Len(a) = N /\ a[N] = s[k] /\ \A i \in 1..(N - 1) : a[i] = c[i]
  BY <1>1, <1>3
<1>5. e \in Seq(E) /\ Len(e) = N /\ \A i \in 1..N : e[i] = EntryOf(s[i])
  BY EntriesSeq
<1>6. /\ Len(Entries(a)) = N /\ \A i \in 1..N : Entries(a)[i] = EntryOf(a[i])
      /\ Entries(a) \in Seq(E)
  BY <1>4, EntriesSeq
<1> HIDE DEF N, E, e, c, a
<1>7. r = [i \in 1..(N - 1) |-> IF i < k THEN e[i] ELSE e[i + 1]]
  BY <1>1, <1>5, RemoveIs
<1>8. \A i \in 1..N : e[i] \in E
  BY <1>5
<1>9. r \in [1..(N - 1) -> E] /\ \A i \in 1..(N - 1) : r[i] = IF i < k THEN e[i] ELSE e[i + 1]
  BY <1>1, <1>7, <1>8
<1> HIDE DEF r
<1>10. r \in Seq(E) /\ Len(r) = N - 1
  BY <1>1, <1>9
<1>11. /\ Append(r, e[k]) \in Seq(E) /\ Len(Append(r, e[k])) = N
       /\ Append(r, e[k])[N] = e[k] /\ \A i \in 1..(N - 1) : Append(r, e[k])[i] = r[i]
  BY <1>1, <1>8, <1>10
<1>12. ASSUME NEW i \in 1..N PROVE Entries(a)[i] = Append(r, e[k])[i]
  <2>1. CASE i = N
    BY <2>1, <1>1, <1>4, <1>5, <1>6, <1>11
  <2>2. CASE i # N
    <3>1. i \in 1..(N - 1) /\ i + 1 \in 1..N
      BY <1>1, <2>2
    <3>2. Append(r, e[k])[i] = IF i < k THEN e[i] ELSE e[i + 1]
      BY <1>9, <1>11, <3>1
    <3>3. Entries(a)[i] = EntryOf(IF i < k THEN s[i] ELSE s[i + 1])
      BY <1>2, <1>4, <1>6, <3>1
    <3> QED BY <1>5, <3>1, <3>2, <3>3
  <2> QED BY <2>1, <2>2
<1>13. Entries(a) = Append(r, e[k])
  <2> DEFINE x == Entries(a)
             y == Append(r, e[k])
  <2>1. x \in Seq(E) /\ y \in Seq(E) /\ Len(x) = Len(y) /\ \A i \in 1..Len(x) : x[i] = y[i]
    BY <1>6, <1>11, <1>12
  <2> HIDE DEF x, y
  <2>2. x = y
    BY <2>1
  <2> QED BY <2>2 DEF x, y
<1> QED BY <1>13 DEF a, c, r, e

\* The bytes the store holds are those of the list's nodes.
LEMMA TotalIs ==
  ASSUME TypeOK, NEW s \in Seq(Node), Shape(s)
  PROVE  Lru!Total(Entries(s)) = SizeOf(Linked)
<1> DEFINE N == Len(s)
           e == Entries(s)
           f == [i \in DOMAIN e |-> e[i].size]
<1>1. N \in Nat /\ DOMAIN e = 1..N /\ \A i \in 1..N : s[i] \in Node /\ e[i].size = size[s[i]]
  <2>1. \A n : EntryOf(n).size = size[n]
    BY DEF EntryOf
  <2> QED BY <2>1, EntriesSeq
<1>2. Lru!Total(e) = SumFunctionOnSet(f, 1..N)
  <2>1. Lru!Total(e) = SumFunction(f)
    BY DEF Lru!Total, Lru!SumFunction, SumFunction, Lru!SumFunctionOnSet, SumFunctionOnSet,
           Lru!FoldFunctionOnSet, FoldFunctionOnSet, Lru!MapThenFoldSet, MapThenFoldSet
  <2>2. DOMAIN f = 1..N
    BY <1>1
  <2> HIDE DEF f
  <2> QED BY <2>1, <2>2 DEF SumFunction
<1>3. \A i \in 1..N : f[i] = size[s[i]] /\ f[i] \in Nat
  BY <1>1 DEF TypeOK
<1>4. \A i, j \in 1..N : s[i] = s[j] => i = j
  BY DEF Shape, ListOf
<1>5. IsFiniteSet(1..N)
  BY <1>1, FS_Interval
<1> HIDE DEF f
<1>6. SumFunctionOnSet(f, 1..N) = SumFunctionOnSet(size, {s[i] : i \in 1..N})
  BY <1>3, <1>4, <1>5, SumImage
<1>7. {s[i] : i \in 1..N} = Linked
  BY LinkedIsIn DEF In
<1> QED BY <1>2, <1>6, <1>7 DEF SizeOf

\* The same, of the state after a step.
LEMMA OrderNext == \A s \in Seq(Node) : TypeOK' /\ Shape(s)' => LruOrder' = Entries(s)'
<1>1. (\A s \in Seq(Node) : TypeOK /\ Shape(s) => LruOrder = Entries(s))'
  BY OrderIs, PTL
<1> QED BY <1>1

\* Steps after which the list shows what it showed before.
LEMMA OrderFrame ==
  ASSUME TypeOK, TypeOK', NEW s \in Seq(Node), Shape(s), Shape(s)',
         \A i \in 1..Len(s) : url'[s[i]] = url[s[i]] /\ size'[s[i]] = size[s[i]]
  PROVE  LruOrder' = LruOrder
<1>1. LruOrder = Entries(s)
  BY OrderIs
<1>2. LruOrder' = Entries(s)'
  BY OrderNext
<1>3. Entries(s)' = Entries(s)
  BY DEF Entries, EntryOf
<1> QED BY <1>1, <1>2, <1>3

\* Steps that leave the nodes of the inserting threads alone leave what is incoming.
LEMMA IncomingFrame ==
  ASSUME Storing' = Storing,
         \A u \in Storing : new'[u] = new[u] /\ url'[new[u]] = url[new[u]] /\ size'[new[u]] = size[new[u]]
  PROVE  Incoming' = Incoming
<1>1. CASE Storing = {}
  BY <1>1 DEF Incoming
<1>2. CASE Storing # {}
  <2>1. PICK u \in Storing : u = CHOOSE t \in Storing : TRUE
    BY <1>2
  <2>2. Incoming = EntryOf(new[u])
    BY <1>2, <2>1 DEF Incoming
  <2>3. Incoming' = [url |-> url'[new'[u]], size |-> size'[new'[u]]]
    BY <1>2, <2>1 DEF Incoming, EntryOf
  <2> QED BY <2>1, <2>2, <2>3 DEF EntryOf
<1> QED BY <1>1, <1>2

\* What one thread asks for changes with its own steps only.
LEMMA RequestsStep ==
  ASSUME NEW places, NEW t \in Thread,
         \A u \in Thread \ {t} : pc'[u] = pc[u] /\ req'[u] = req[u]
  PROVE  /\ RequestsAt(places)[t] = IF pc[t] \in places THEN req[t] ELSE NULL
         /\ RequestsAt(places)' = [RequestsAt(places) EXCEPT ![t] = IF pc'[t] \in places THEN req'[t] ELSE NULL]
         /\ (pc'[t] \in places <=> pc[t] \in places) /\ (pc[t] \in places => req'[t] = req[t])
              => RequestsAt(places)' = RequestsAt(places)
BY DEF RequestsAt

\* The steps that neither begin nor end an insertion, and move no node in the list.
Aside(t) ==
  \/ Lookup(t) \/ FindNext(t) \/ FindMiss(t) \/ FindHit(t) \/ Pin(t) \/ UnpinLock(t) \/ Unpin(t)
  \/ InsertLock(t) \/ ScanNext(t) \/ ScanDup(t) \/ EvictLock(t)
  \/ Request(t) \/ Write(t) \/ Abandon(t) \/ Fetched(t) \/ FreeOwn(t)

\* What a thread does outside the list touches no other thread and no node on its way in.
LEMMA AsideFields ==
  ASSUME TypeOK, Owners, NEW t \in Thread, Aside(t)
  PROVE  /\ Storing' = Storing
         /\ \A u \in Thread \ {t} : pc'[u] = pc[u] /\ req'[u] = req[u] /\ new'[u] = new[u]
         /\ t \in Storing => new'[t] = new[t]
<1> USE DEF Goto, Exit, TypeOK
<1>1. ASSUME \A u \in Thread \ {t} : pc'[u] = pc[u] /\ req'[u] = req[u] /\ new'[u] = new[u],
             pc'[t] \in {"evict", "check"} <=> pc[t] \in {"evict", "check"},
             t \in Storing => new'[t] = new[t]
      PROVE  Storing' = Storing
  BY <1>1 DEF Storing
<1>2. CASE Lookup(t) \/ FindNext(t) \/ FindMiss(t) \/ FindHit(t) \/ Pin(t) \/ UnpinLock(t)
  BY <1>1, <1>2 DEF Lookup, FindNext, FindMiss, FindHit, Pin, UnpinLock
<1>3. CASE InsertLock(t) \/ ScanNext(t) \/ ScanDup(t) \/ EvictLock(t) \/ Write(t)
  BY <1>1, <1>3 DEF InsertLock, ScanNext, ScanDup, EvictLock, Write
<1>4. CASE Request(t) \/ Abandon(t) \/ Unpin(t) \/ FreeOwn(t)
  <2>1. t \notin Storing
    BY <1>4 DEF Request, Abandon, Unpin, FreeOwn, Storing
  <2> QED BY <2>1, <1>1, <1>4 DEF Request, Abandon, Unpin, FreeOwn
<1>5. CASE Fetched(t)
  <2>1. t \notin Storing
    BY <1>5 DEF Fetched, Storing
  <2> QED BY <2>1, <1>1, <1>5 DEF Fetched
<1> QED BY <1>2, <1>3, <1>4, <1>5 DEF Aside

\* So it changes neither the list as the abstract store sees it nor what is incoming.
LEMMA AsideStep ==
  ASSUME IInv, IInv', NEW t \in Thread, Aside(t)
  PROVE  LruOrder' = LruOrder /\ Incoming' = Incoming
<1>0. TypeOK /\ TypeOK' /\ Owners
  BY DEF IInv
<1>1. PICK s \in Seq(Node) : Shape(s)
  BY DEF IInv
<1>2. /\ Storing' = Storing
      /\ \A u \in Storing : new'[u] = new[u] /\ new[u] \in Node
  BY <1>0, AsideFields, KeptNodes DEF Storing
<1>3. \A i \in 1..Len(s) : In(s[i], s) /\ s[i] \in Node
  BY DEF In
<1>4. CASE Fetched(t) \/ FreeOwn(t)
  <2>1. Shape(s)'
    BY <1>0, <1>1, <1>4, OwnNodeStep
  <2>2. PICK n \in Node :
          /\ \A m \in Node : m # n => size'[m] = size[m] /\ url'[m] = url[m]
          /\ \A u \in Thread \ {t} : new[u] # n
          /\ n \notin allocated \/ new[t] = n
    BY <1>0, <1>4, OwnNode
  <2>3. \A i \in 1..Len(s) : s[i] # n
    BY <1>1, <1>3, <2>2 DEF Shape
  <2>4. LruOrder' = LruOrder
    BY <1>0, <1>1, <1>3, <2>1, <2>2, <2>3, OrderFrame
  <2>5. t \notin Storing
    BY <1>4 DEF Fetched, FreeOwn, Goto, Exit, Storing
  <2>6. \A u \in Storing : new[u] # n
    BY <2>2, <2>5 DEF Storing
  <2> QED BY <1>2, <2>2, <2>4, <2>6, IncomingFrame
<1>5. CASE ~(Fetched(t) \/ FreeOwn(t))
  <2>1. url' = url /\ size' = size
    BY <1>5 DEF Aside, Lookup, FindNext, FindMiss, FindHit, Pin, UnpinLock, Unpin, InsertLock, ScanNext,
                ScanDup, EvictLock, Request, Write, Abandon, nodeVars
  <2>2. Shape(s)'
    BY <1>0, <1>1, <1>5, ReadingStep DEF Aside
  <2>3. LruOrder' = LruOrder
    BY <1>0, <1>1, <2>1, <2>2, OrderFrame
  <2> QED BY <1>2, <2>1, <2>3, IncomingFrame
<1> QED BY <1>4, <1>5

\* The steps the store does not see.
LEMMA QuietStep ==
  ASSUME IInv, IInv', NEW t \in Thread, Aside(t), ~FindMiss(t), ~Unpin(t), ~Abandon(t), ~FreeOwn(t)
  PROVE  UNCHANGED Lru!vars
<1>0. TypeOK /\ Owners
  BY DEF IInv
<1>1. LruOrder' = LruOrder /\ Incoming' = Incoming
  BY AsideStep
<1>2. \A u \in Thread \ {t} : pc'[u] = pc[u] /\ req'[u] = req[u]
  BY <1>0, AsideFields
<1> DEFINE Same(places) == (pc'[t] \in places <=> pc[t] \in places) /\ (pc[t] \in places => req'[t] = req[t])
<1>3. Same(Reading) /\ Same(Missing)
  <2> USE DEF Goto, Reading, Missing
  <2>1. CASE Lookup(t) \/ FindNext(t) \/ FindHit(t) \/ Pin(t) \/ UnpinLock(t) \/ Request(t) \/ Write(t)
    BY <1>0, <2>1 DEF TypeOK, Lookup, FindNext, FindHit, Pin, UnpinLock, Request, Write
  <2>2. CASE InsertLock(t) \/ ScanNext(t) \/ ScanDup(t) \/ EvictLock(t)
    BY <1>0, <2>2 DEF TypeOK, InsertLock, ScanNext, ScanDup, EvictLock
  <2>3. CASE Fetched(t)
    BY <1>0, <2>3 DEF TypeOK, Fetched
  <2> QED BY <2>1, <2>2, <2>3 DEF Aside
<1>4. RequestsAt(Reading)' = RequestsAt(Reading) /\ RequestsAt(Missing)' = RequestsAt(Missing)
  BY <1>2, <1>3, RequestsStep
<1> QED BY <1>1, <1>4 DEF Lru!vars

\* A URL that no node of the list has is not in the store.
LEMMA NotHeld ==
  ASSUME NEW s \in Seq(Node), LruOrder = Entries(s), NEW u, \A i \in 1..Len(s) : url[s[i]] # u
  PROVE  ~Lru!Holds(u)
<1>1. ASSUME NEW i \in 1..Len(s) PROVE Entries(s)[i].url # u
  <2>1. Entries(s)[i] = EntryOf(s[i])
    BY EntriesSeq
  <2>2. EntryOf(s[i]).url = url[s[i]]
    BY DEF EntryOf
  <2> QED BY <2>1, <2>2
<1>2. DOMAIN Entries(s) = 1..Len(s)
  BY EntriesSeq
<1> QED BY <1>1, <1>2 DEF Lru!Holds

\* A thread in the list, and what the store shows of it.
LEMMA InsideShows ==
  ASSUME IInv, NEW t \in Thread, pc[t] \in {"find", "pin", "move", "scan"}
  PROVE  Incoming = NULL
<1>1. Storing = {}
  BY OneStoring DEF IInv, Critical
<1> QED BY <1>1 DEF Incoming

\* Get_cache's walk reaches the end of the list: the store does not hold the URL.
LEMMA MissStep ==
  ASSUME IInv, IInv', NEW t \in Thread, FindMiss(t)
  PROVE  Lru!Miss(t, req[t]) /\ req[t] \in Url
<1>0. TypeOK /\ Owners
  BY DEF IInv
<1>1. PICK s \in Seq(Node) : Shape(s)
  BY DEF IInv
<1>2. pc[t] = "find" /\ pc'[t] = "fetch" /\ cur[t] = NULL /\ req' = req
  BY <1>0 DEF FindMiss, Goto, TypeOK
<1>3. req[t] \in Url
  BY <1>0, <1>2 DEF Owners, TypeOK
<1>4. LruOrder' = LruOrder /\ Incoming' = Incoming
  BY AsideStep DEF Aside
<1>5. Incoming = NULL
  BY <1>2, InsideShows
<1>6. \A u \in Thread \ {t} : pc'[u] = pc[u] /\ req'[u] = req[u]
  BY <1>0, AsideFields DEF Aside
<1>7. /\ RequestsAt(Reading)[t] = NULL /\ RequestsAt(Missing)[t] = NULL
      /\ RequestsAt(Reading)' = RequestsAt(Reading)
      /\ RequestsAt(Missing)' = [RequestsAt(Missing) EXCEPT ![t] = req[t]]
  BY <1>2, <1>6, RequestsStep DEF Reading, Missing
<1>8. LruOrder = Entries(s)
  BY <1>0, <1>1, OrderIs
<1>9. \A i \in 1..Len(s) : url[s[i]] # req[t]
  BY <1>1, <1>2, BehindWhere DEF Shape, Walk
<1>10. ~Lru!Holds(req[t])
  BY <1>8, <1>9, NotHeld
<1> QED BY <1>3, <1>4, <1>5, <1>7, <1>10 DEF Lru!Miss, Lru!AtRest

\* The hit's node becomes the newest entry, and its reader is being served.
LEMMA HitStep ==
  ASSUME IInv, IInv', NEW t \in Thread, MoveToRear(t)
  PROVE  \E k \in DOMAIN LruOrder : Lru!Hit(t, k)
<1>0. TypeOK /\ Owners /\ TypeOK' /\ Semaphore
  BY DEF IInv
<1>1. PICK s \in Seq(Node) : Shape(s)
  BY DEF IInv
<1>2. /\ pc[t] = "move" /\ pc'[t] = "write" /\ UNCHANGED <<req, url, size, new, cur>>
      /\ \A u \in Thread \ {t} : pc'[u] = pc[u]
  BY <1>0 DEF MoveToRear, Goto, TypeOK, nodeVars
<1>3. PICK k \in 1..Len(s) : /\ s[k] = cur[t] /\ Append(Cut(s, k), s[k]) \in Seq(Node)
                             /\ Shape(Append(Cut(s, k), s[k]))'
  BY <1>0, <1>1, MoveToRearStep
<1>4. Incoming = NULL
  BY <1>2, InsideShows
<1>5. Incoming' = NULL
  <2>1. Storing = {}
    BY <1>0, <1>2, OneStoring DEF Critical
  <2>2. Storing' = {}
    BY <1>2, <2>1 DEF Storing
  <2> QED BY <2>2 DEF Incoming
<1>6. LruOrder = Entries(s)
  BY <1>0, <1>1, OrderIs
<1>7. LruOrder' = Append(Lru!RemoveAt(LruOrder, k), LruOrder[k])
  <2> DEFINE c == Append(Cut(s, k), s[k])
  <2>1. c \in Seq(Node) /\ Shape(c)'
    BY <1>3
  <2>2. Entries(c) = Append(Lru!RemoveAt(LruOrder, k), LruOrder[k])
    BY <1>6, EntriesMoved
  <2> HIDE DEF c
  <2>3. LruOrder' = Entries(c)'
    BY <1>0, <2>1, OrderNext
  <2>4. Entries(c)' = Entries(c)
    BY <1>2 DEF Entries, EntryOf
  <2> QED BY <2>2, <2>3, <2>4
<1>8. k \in DOMAIN LruOrder /\ LruOrder[k].url = req[t]
  <2>1. url[s[k]] = req[t]
    BY <1>1, <1>2, <1>3 DEF Shape, Walk
  <2>2. EntryOf(s[k]).url = req[t]
    BY <2>1 DEF EntryOf
  <2> QED BY <1>6, <2>2, EntriesSeq
<1>9. /\ RequestsAt(Reading)[t] = NULL /\ RequestsAt(Missing)[t] = NULL
      /\ RequestsAt(Missing)' = RequestsAt(Missing)
      /\ RequestsAt(Reading)' = [RequestsAt(Reading) EXCEPT ![t] = req[t]]
  BY <1>2, RequestsStep DEF Reading, Missing
<1>10. Lru!Hit(t, k)
  BY <1>4, <1>5, <1>7, <1>8, <1>9 DEF Lru!Hit, Lru!AtRest
<1> QED BY <1>8, <1>10

\* A reader has sent the body.
LEMMA ServedStep ==
  ASSUME IInv, IInv', NEW t \in Thread, Unpin(t)
  PROVE  Lru!Served(t)
<1>0. TypeOK /\ Owners
  BY DEF IInv
<1>1. LruOrder' = LruOrder /\ Incoming' = Incoming
  BY AsideStep DEF Aside
<1>2. pc[t] = "unpinned" /\ pc'[t] = "idle" /\ req[t] # NULL
  BY <1>0 DEF Unpin, Exit, Goto, TypeOK, Owners
<1>3. \A u \in Thread \ {t} : pc'[u] = pc[u] /\ req'[u] = req[u]
  BY <1>0, AsideFields DEF Aside
<1>4. /\ RequestsAt(Reading)[t] # NULL
      /\ RequestsAt(Reading)' = [RequestsAt(Reading) EXCEPT ![t] = NULL]
      /\ RequestsAt(Missing)' = RequestsAt(Missing)
  BY <1>2, <1>3, RequestsStep DEF Reading, Missing
<1> QED BY <1>1, <1>4 DEF Lru!Served

\* The fetch failed, or another thread has stored the object.
LEMMA GiveUpStep ==
  ASSUME IInv, IInv', NEW t \in Thread, Abandon(t) \/ FreeOwn(t)
  PROVE  Lru!GiveUp(t)
<1>0. TypeOK /\ Owners
  BY DEF IInv
<1>1. LruOrder' = LruOrder /\ Incoming' = Incoming
  BY AsideStep DEF Aside
<1>2. pc[t] \in {"fetch", "byOther"} /\ pc'[t] = "idle" /\ req[t] # NULL
  BY <1>0 DEF Abandon, FreeOwn, Exit, Goto, TypeOK, Owners
<1>3. \A u \in Thread \ {t} : pc'[u] = pc[u] /\ req'[u] = req[u]
  BY <1>0, AsideFields DEF Aside
<1>4. /\ RequestsAt(Missing)[t] # NULL
      /\ RequestsAt(Missing)' = [RequestsAt(Missing) EXCEPT ![t] = NULL]
      /\ RequestsAt(Reading)' = RequestsAt(Reading)
  BY <1>2, <1>3, RequestsStep DEF Reading, Missing
<1> QED BY <1>1, <1>4 DEF Lru!GiveUp

\* create_cache has found no copy of its object and counts it in.
LEMMA BeginStep ==
  ASSUME LruInv, LruInv', NEW t \in Thread, ScanDone(t)
  PROVE  \E z \in 1..MaxObject : Lru!Begin(t, z)
<1>0. TypeOK /\ Owners /\ TypeOK' /\ Semaphore /\ IInv
  BY DEF LruInv, IInv
<1>1. PICK s \in Seq(Node) : Shape(s)
  BY <1>0 DEF IInv
<1>2. /\ pc[t] = "scan" /\ pc'[t] = "evict" /\ cur[t] = NULL /\ UNCHANGED <<req, url, size, new>>
      /\ \A u \in Thread \ {t} : pc'[u] = pc[u]
  BY <1>0 DEF ScanDone, Goto, TypeOK, nodeVars
<1>3. PICK n \in Node : n = new[t]
  BY <1>0, <1>2 DEF Owners, Inserting, TypeOK, Pointer
<1>4. url[n] = req[t] /\ size[n] \in 1..MaxObject /\ req[t] # NULL
  BY <1>0, <1>2, <1>3, NullAssumption DEF LruInv, BytesOK, TypeOK, Owners
<1>5. Incoming = NULL
  BY <1>0, <1>2, InsideShows
<1>6. Incoming' = [url |-> req[t], size |-> size[n]]
  <2>1. Storing = {}
    BY <1>0, <1>2, OneStoring DEF Critical
  <2>2. Storing' = {t}
    BY <1>2, <2>1 DEF Storing
  <2>3. (CHOOSE u \in {t} : TRUE) = t
    OBVIOUS
  <2>4. Incoming' = [url |-> url[new[t]], size |-> size[new[t]]]
    BY <1>2, <2>2, <2>3 DEF Incoming, EntryOf
  <2> QED BY <1>3, <1>4, <2>4
<1>7. LruOrder' = LruOrder
  <2>1. Shape(s)'
    BY <1>0, <1>1, ReadingStep
  <2> QED BY <1>0, <1>1, <1>2, <2>1, OrderFrame
<1>8. /\ RequestsAt(Missing)[t] = req[t]
      /\ RequestsAt(Missing)' = [RequestsAt(Missing) EXCEPT ![t] = NULL]
      /\ RequestsAt(Reading)' = RequestsAt(Reading)
  BY <1>2, RequestsStep DEF Reading, Missing
<1>9. ~Lru!Holds(req[t])
  <2>1. LruOrder = Entries(s)
    BY <1>0, <1>1, OrderIs
  <2>2. \A i \in 1..Len(s) : url[s[i]] # req[t]
    BY <1>1, <1>2, <1>3, <1>4, BehindWhere DEF Shape, Walk
  <2> QED BY <2>1, <2>2, NotHeld
<1>10. Lru!Begin(t, size[n])
  BY <1>4, <1>5, <1>6, <1>7, <1>8, <1>9 DEF Lru!Begin
<1> QED BY <1>4, <1>10

\* Evicting the first node drops the first entry.
LEMMA EntriesTail ==
  ASSUME NEW s \in Seq(Node), 1 \in 1..Len(s)
  PROVE  Entries(Cut(s, 1)) = Tail(Entries(s))
<1> DEFINE N == Len(s)
           E == {EntryOf(n) : n \in Node}
           e == Entries(s)
           c == Cut(s, 1)
<1>1. N \in Nat /\ N >= 1 /\ \A i \in 1..N : s[i] \in Node
  OBVIOUS
<1>2. c \in [1..(N - 1) -> Node] /\ \A i \in 1..(N - 1) : c[i] = s[i + 1]
  BY <1>1 DEF Cut
<1>3. c \in Seq(Node) /\ Len(c) = N - 1
  BY <1>1, <1>2
<1>4. e \in Seq(E) /\ Len(e) = N /\ \A i \in 1..N : e[i] = EntryOf(s[i])
  BY EntriesSeq
<1>5. Entries(c) \in Seq(E) /\ Len(Entries(c)) = N - 1 /\ \A i \in 1..(N - 1) : Entries(c)[i] = EntryOf(c[i])
  BY <1>3, EntriesSeq
<1> HIDE DEF N, E, e, c
<1>6. e # <<>>
  BY <1>1, <1>4
<1>7. Tail(e) \in Seq(E) /\ Len(Tail(e)) = N - 1 /\ \A i \in 1..(N - 1) : Tail(e)[i] = e[i + 1]
  BY <1>1, <1>4, <1>6
<1>8. \A i \in 1..(N - 1) : i + 1 \in 1..N
  BY <1>1
<1>9. \A i \in 1..(N - 1) : Entries(c)[i] = Tail(e)[i]
  BY <1>2, <1>4, <1>5, <1>7, <1>8
<1> DEFINE x == Entries(c)
           y == Tail(e)
<1>10. x \in Seq(E) /\ y \in Seq(E) /\ Len(x) = Len(y) /\ \A i \in 1..Len(x) : x[i] = y[i]
  BY <1>5, <1>7, <1>9
<1> HIDE DEF x, y
<1>11. x = y
  BY <1>10
<1> QED BY <1>11 DEF x, y, c, e

\* Linking a node at the rear adds its entry at the end.
LEMMA EntriesAppend ==
  ASSUME NEW s \in Seq(Node), NEW n \in Node
  PROVE  Entries(Append(s, n)) = Append(Entries(s), EntryOf(n))
<1> DEFINE N == Len(s)
           E == {EntryOf(m) : m \in Node}
           e == Entries(s)
           a == Append(s, n)
<1>1. N \in Nat /\ EntryOf(n) \in E
  OBVIOUS
<1>2. a \in Seq(Node) /\ Len(a) = N + 1 /\ a[N + 1] = n /\ \A i \in 1..N : a[i] = s[i]
  OBVIOUS
<1>3. e \in Seq(E) /\ Len(e) = N /\ \A i \in 1..N : e[i] = EntryOf(s[i])
  BY EntriesSeq
<1>4. Entries(a) \in Seq(E) /\ Len(Entries(a)) = N + 1 /\ \A i \in 1..(N + 1) : Entries(a)[i] = EntryOf(a[i])
  BY <1>2, EntriesSeq
<1> DEFINE y == Append(e, EntryOf(n))
           x == Entries(a)
<1> HIDE DEF N, E, e, a
<1>5. y \in Seq(E) /\ Len(y) = N + 1 /\ y[N + 1] = EntryOf(n) /\ \A i \in 1..N : y[i] = e[i]
  BY <1>1, <1>3
<1>6. ASSUME NEW i \in 1..(N + 1) PROVE x[i] = y[i]
  <2>1. CASE i = N + 1
    BY <2>1, <1>2, <1>4, <1>5
  <2>2. CASE i # N + 1
    <3>1. i \in 1..N
      BY <1>1, <2>2
    <3> QED BY <3>1, <1>2, <1>3, <1>4, <1>5
  <2> QED BY <2>1, <2>2
<1>7. x \in Seq(E) /\ Len(x) = N + 1
  BY <1>4
<1> HIDE DEF x, y
<1>8. x = y
  BY <1>1, <1>5, <1>6, <1>7
<1> QED BY <1>8 DEF x, y, e, a

\* What the store shows of the inserting thread: its entry, and what is counted.
LEMMA StoringShows ==
  ASSUME LruInv, NEW t \in Thread, pc[t] \in {"evict", "check"}
  PROVE  /\ Storing = {t} /\ new[t] \in Node
         /\ Incoming = EntryOf(new[t]) /\ Incoming # NULL
         /\ Lru!Total(LruOrder) + Incoming.size = tsize
<1>0. TypeOK /\ Owners /\ Semaphore /\ IInv
  BY DEF LruInv, IInv
<1>1. PICK s \in Seq(Node) : Shape(s)
  BY <1>0 DEF IInv
<1>2. PICK n \in Node : n = new[t]
  BY <1>0 DEF Owners, Inserting, TypeOK, Pointer
<1>3. Storing = {t}
  BY <1>0, OneStoring DEF Critical
<1>4. Incoming = EntryOf(n)
  <2>1. (CHOOSE u \in {t} : TRUE) = t
    OBVIOUS
  <2> QED BY <1>2, <1>3, <2>1 DEF Incoming
<1>5. EntryOf(n) \in [url : Url \cup {Junk}, size : Nat] /\ EntryOf(n).size = size[n] /\ size[n] \in Nat
  BY <1>0 DEF EntryOf, TypeOK
<1>6. Lru!Total(LruOrder) = SumFunctionOnSet(size, Linked)
  <2>1. LruOrder = Entries(s)
    BY <1>0, <1>1, OrderIs
  <2> QED BY <1>0, <1>1, <2>1, TotalIs DEF SizeOf
<1>7. Kept = Linked \cup {n} /\ n \notin Linked
  BY <1>0, <1>2, <1>3, LinkedNodes DEF Kept
<1>8. IsFiniteSet(Linked) /\ \A m \in Linked \cup {n} : size[m] \in Nat
  BY <1>0, <1>7, KeptNodes, FS_Subset
<1>9. SumFunctionOnSet(size, Kept) = size[n] + SumFunctionOnSet(size, Linked)
  BY <1>7, <1>8, SumAdd
<1>10. SumFunctionOnSet(size, Linked) \in Nat
  BY <1>8, SumNat
<1>11. tsize = SumFunctionOnSet(size, Kept)
  BY DEF LruInv, BytesOK, Accounting, SizeOf, Kept
<1>12. Lru!Total(LruOrder) + Incoming.size = tsize
  BY <1>4, <1>5, <1>6, <1>9, <1>10, <1>11
<1>13. Incoming # NULL
  BY <1>4, <1>5, EntryAssumption
<1> QED BY <1>2, <1>3, <1>4, <1>12, <1>13

\* The evicting loop drops the oldest entry, and only while the new one does not fit.
LEMMA DropStep ==
  ASSUME LruInv, LruInv', NEW t \in Thread, Evict(t)
  PROVE  Lru!Evict
<1>0. TypeOK /\ Owners /\ TypeOK' /\ Semaphore /\ IInv
  BY DEF LruInv, IInv
<1>1. PICK s \in Seq(Node) : Shape(s)
  BY <1>0 DEF IInv
<1>2. /\ pc[t] = "check" /\ pc'[t] = "evict" /\ UNCHANGED <<req, new>>
      /\ \A u \in Thread \ {t} : pc'[u] = pc[u]
  BY <1>0 DEF Evict, Goto, TypeOK
<1>3. /\ 1 \in 1..Len(s) /\ s[1] = cur[t] /\ Cut(s, 1) \in Seq(Node) /\ Shape(Cut(s, 1))'
  BY <1>0, <1>1, EvictStep
<1>4. /\ Storing = {t} /\ new[t] \in Node
      /\ Incoming = EntryOf(new[t]) /\ Incoming # NULL
      /\ Lru!Total(LruOrder) + Incoming.size = tsize
  BY <1>2, StoringShows
<1>5. tsize > MaxCache
  BY <1>2 DEF LruInv, BytesOK
<1>6. /\ s[1] \in Node /\ \A m \in Node : m # s[1] => url'[m] = url[m] /\ size'[m] = size[m]
  <2>1. s[1] \in Node
    BY <1>3
  <2> QED BY <1>0, <1>3, <2>1 DEF Evict, TypeOK
<1>7. new[t] # s[1]
  BY <1>1, <1>3, <1>6 DEF Shape, In
<1>8. Incoming' = Incoming
  <2>1. Storing' = Storing
    BY <1>2 DEF Storing
  <2> QED BY <1>2, <1>4, <1>6, <1>7, <2>1, IncomingFrame
<1>9. LruOrder = Entries(s)
  BY <1>0, <1>1, OrderIs
<1>10. LruOrder # <<>>
  <2>1. Len(Entries(s)) = Len(s) /\ Len(s) # 0
    <3>1. Len(Entries(s)) = Len(s)
      BY EntriesSeq
    <3>2. Len(s) # 0
      BY <1>3
    <3> QED BY <3>1, <3>2
  <2>2. Len(<<>>) = 0
    OBVIOUS
  <2> QED BY <1>9, <2>1, <2>2
<1>11. LruOrder' = Tail(LruOrder)
  <2> DEFINE c == Cut(s, 1)
  <2>1. Entries(c) = Tail(LruOrder)
    BY <1>3, <1>9, EntriesTail
  <2>2. \A i \in 1..Len(c) : c[i] \in Node /\ c[i] # s[1]
    <3>1. \A n : In(n, c) => In(n, s) /\ n # s[1]
      BY <1>1, <1>3, CutSeq DEF Shape, ListOf
    <3>2. c \in Seq(Node)
      BY <1>3
    <3> HIDE DEF c
    <3>3. ASSUME NEW i \in 1..Len(c) PROVE c[i] \in Node /\ In(c[i], c)
      BY <3>2 DEF In
    <3> QED BY <3>1, <3>3
  <2>3. LruOrder' = Entries(c)'
    BY <1>0, <1>3, OrderNext
  <2> HIDE DEF c
  <2>4. Entries(c)' = Entries(c)
    BY <1>6, <2>2 DEF Entries, EntryOf
  <2> QED BY <2>1, <2>3, <2>4
<1>12. RequestsAt(Reading)' = RequestsAt(Reading) /\ RequestsAt(Missing)' = RequestsAt(Missing)
  BY <1>2, RequestsStep DEF Reading, Missing
<1> QED BY <1>4, <1>5, <1>8, <1>10, <1>11, <1>12 DEF Lru!Evict

\* The new object becomes the newest entry, and it fits.
LEMMA CommitStep ==
  ASSUME LruInv, LruInv', NEW t \in Thread, Link(t)
  PROVE  Lru!Commit
<1>0. TypeOK /\ Owners /\ TypeOK' /\ Semaphore /\ IInv /\ IInv' /\ BytesOK
  BY DEF LruInv, IInv
<1>1. PICK s \in Seq(Node) : Shape(s)
  BY <1>0 DEF IInv
<1>2. /\ pc[t] = "evict" /\ pc'[t] = "idle" /\ UNCHANGED <<url, size>>
      /\ \A u \in Thread \ {t} : pc'[u] = pc[u] /\ req'[u] = req[u]
  BY <1>0 DEF Link, Exit, Goto, TypeOK, nodeVars
<1>3. PICK n \in Node : n = new[t] /\ Append(s, n) \in Seq(Node) /\ Shape(Append(s, n))'
  BY <1>0, <1>1, LinkStep
<1>4. /\ Storing = {t} /\ Incoming = EntryOf(n) /\ Incoming # NULL
      /\ Lru!Total(LruOrder) + Incoming.size = tsize
  BY <1>2, <1>3, StoringShows
<1>5. tsize <= MaxCache
  BY <1>0, BytesLink
<1>6. Incoming' = NULL
  <2>1. Storing' = {}
    BY <1>2, <1>4 DEF Storing
  <2> QED BY <2>1 DEF Incoming
<1>7. LruOrder' = Append(LruOrder, Incoming)
  <2> DEFINE c == Append(s, n)
  <2>1. LruOrder = Entries(s)
    BY <1>0, <1>1, OrderIs
  <2>2. Entries(c) = Append(LruOrder, Incoming)
    BY <1>4, <2>1, EntriesAppend
  <2>3. LruOrder' = Entries(c)'
    BY <1>0, <1>3, OrderNext
  <2> HIDE DEF c
  <2>4. Entries(c)' = Entries(c)
    BY <1>2 DEF Entries, EntryOf
  <2> QED BY <2>2, <2>3, <2>4
<1>8. RequestsAt(Reading)' = RequestsAt(Reading) /\ RequestsAt(Missing)' = RequestsAt(Missing)
  BY <1>2, RequestsStep DEF Reading, Missing
<1> QED BY <1>4, <1>5, <1>6, <1>7, <1>8 DEF Lru!Commit

\* The empty list is the empty store.
LEMMA LruInit == Init => Lru!Init
<1> SUFFICES ASSUME Init PROVE Lru!Init
  OBVIOUS
<1>1. Linked = {} /\ Storing = {}
  BY DEF Init, Linked, Storing
<1>2. LruOrder = <<>>
  <2>1. Cardinality(Linked) = 0
    BY <1>1, FS_EmptySet
  <2> QED BY <2>1 DEF LruOrder
<1>3. Incoming = NULL
  BY <1>1 DEF Incoming
<1>4. \A t \in Thread : pc[t] \notin Reading /\ pc[t] \notin Missing
  BY DEF Init, Reading, Missing
<1>5. RequestsAt(Reading) = [t \in Thread |-> NULL] /\ RequestsAt(Missing) = [t \in Thread |-> NULL]
  BY <1>4 DEF RequestsAt
<1> QED BY <1>2, <1>3, <1>5 DEF Lru!Init

\* Every step of the cache is a step of the store, or none.
LEMMA LruStep ==
  ASSUME LruInv, LruInv', [Next]_vars
  PROVE  [Lru!Next]_(Lru!vars)
<1>0. IInv /\ IInv' /\ CountOK
  BY DEF LruInv
<1>1. CASE Next
  <2>1. PICK t \in Thread : Compute(t) \/ Network(t)
    BY <1>1 DEF Next
  <2>2. CASE FindMiss(t)
    BY <1>0, <2>2, MissStep DEF Lru!Next
  <2>3. CASE MoveToRear(t)
    BY <1>0, <2>3, HitStep DEF Lru!Next
  <2>4. CASE Unpin(t)
    BY <1>0, <2>4, ServedStep DEF Lru!Next
  <2>5. CASE Abandon(t) \/ FreeOwn(t)
    BY <1>0, <2>5, GiveUpStep DEF Lru!Next
  <2>6. CASE ScanDone(t)
    BY <2>6, BeginStep DEF Lru!Next
  <2>7. CASE Evict(t)
    BY <2>7, DropStep DEF Lru!Next
  <2>8. CASE Link(t)
    BY <2>8, CommitStep DEF Lru!Next
  <2>9. CASE Aside(t) /\ ~FindMiss(t) /\ ~Unpin(t) /\ ~Abandon(t) /\ ~FreeOwn(t)
    BY <1>0, <2>9, QuietStep
  <2>10. ~EvictBusy(t)
    BY <1>0, NotBusy
  <2> QED BY <2>1, <2>2, <2>3, <2>4, <2>5, <2>6, <2>7, <2>8, <2>9, <2>10 DEF Compute, Network, Aside
<1>2. CASE UNCHANGED vars
  <2>1. Storing' = Storing /\ Linked' = Linked
    BY <1>2 DEF vars, Storing, Linked, InFlight
  <2>2. Incoming' = Incoming
    BY <1>2, <2>1 DEF vars, Incoming, EntryOf
  <2>3. LruOrder' = LruOrder
    BY <1>2, <2>1 DEF vars, LruOrder, EntryOf
  <2>4. RequestsAt(Reading)' = RequestsAt(Reading) /\ RequestsAt(Missing)' = RequestsAt(Missing)
    BY <1>2 DEF vars, RequestsAt
  <2> QED BY <2>2, <2>3, <2>4 DEF Lru!vars
<1> QED BY <1>1, <1>2

\* The cache of cache.c, with its links, locks and walks, is a bounded
\* least-recently-used store to the threads that use it.
THEOREM IsLruCache ==
  ASSUME ~Reuse
  PROVE  Spec => ImplementsLru
<1>1. Init => Lru!Init
  BY LruInit
<1>2. LruInv /\ LruInv' /\ [Next]_vars => [Lru!Next]_(Lru!vars)
  BY LruStep
<1> QED BY <1>1, <1>2, LruInvariance, PTL DEF Spec, ImplementsLru, Lru!Spec
=============================================================================
