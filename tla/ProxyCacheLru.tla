---------------------------- MODULE ProxyCacheLru ----------------------------
(***************************************************************************)
(* What the proxy's cache keeps while malloc does not hand out a node some *)
(* thread still uses (Reuse = FALSE): exact accounting of sizes and        *)
(* readers, and the abstract least-recently-used store.                    *)
(***************************************************************************)
EXTENDS ProxyCache, Sequences, FiniteSets, Functions

ASSUME FiniteAssumption == IsFiniteSet(Thread) /\ IsFiniteSet(Node)
ASSUME EntryAssumption == NULL \notin [url : Url \cup {Junk}, size : Nat]

\* The threads between ScanDone and Link: their node's size is in tsize already.
Storing == {t \in Thread : pc[t] \in {"evict", "check"}}

SizeOf(S) == SumFunctionOnSet(size, S)

\* tsize is the total size of the nodes in the list and of the one being stored:
\* += in create_cache and -= in its evicting loop stay in step on every path.
Accounting == tsize = SizeOf(Linked \cup {new[t] : t \in Storing})

\* Whenever no thread is inside the list, the objects in it fit in MAX_CACHE_SIZE.
Fits == qmutex = 1 => SizeOf(Linked) <= MaxCache

\* A node's read_cnt counts the threads between Pin and Unpin on it: no path
\* loses an increment or a decrement, for a node evicted meanwhile too.
ReadersCounted ==
  \A n \in Node :
    (n \in Linked \/ UsedByReader(n)) =>
      read_cnt[n] = Cardinality({t \in Thread : pc[t] \in Reading \cup {"move"} /\ cur[t] = n})

\* CACHE_FAILURE is never returned: its retry would find acache->cmutex taken by
\* the thread itself.
NeverBusy == [][\A t \in Thread : ~EvictBusy(t)]_vars

\* P(&qmutex) does not wait on a peer: whoever is inside the list leaves it, even
\* if no browser and no server ever answers again.
QueueReleased == (qmutex = 0) ~> (qmutex = 1)

-----------------------------------------------------------------------------
(* The abstract store: the list read from head along next, the node of the *)
(* thread in the evicting loop, and what each thread got from its lookup.  *)

EntryOf(n) == [url |-> url[n], size |-> size[n]]

\* The first k nodes of the list L.
Follow(L, k) ==
  LET at[i \in 1..k] == IF i = 1 THEN L.head ELSE L.next[at[i - 1]]
  IN  at

LruOrder ==
  LET count == Cardinality(Linked)
  IN  [i \in 1..count |-> EntryOf(Follow(list, count)[i])]

\* The requests of the threads at one of the places pcs.
RequestsAt(pcs) == [t \in Thread |-> IF pc[t] \in pcs THEN req[t] ELSE NULL]

\* The threads that have missed and may still store their object.
Missing == {"fetch", "insert", "scan", "byOther"}

Incoming == IF Storing = {} THEN NULL ELSE EntryOf(new[CHOOSE t \in Storing : TRUE])

Lru == INSTANCE LruCache
         WITH Client <- Thread,
              None <- NULL,
              lru <- LruOrder,
              incoming <- Incoming,
              serving <- RequestsAt(Reading),
              fetching <- RequestsAt(Missing)

\* The list with its nodes, links and locks implements the abstract store: a lookup
\* hits exactly what the store holds and makes it the newest entry, and room is made
\* from the oldest end, only while it is needed.
ImplementsLru == Lru!Spec
=============================================================================
