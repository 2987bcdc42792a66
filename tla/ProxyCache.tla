----------------------------- MODULE ProxyCache -----------------------------
(***************************************************************************)
(* The shared object cache of the web proxy (ProxyLab/cache.c) and the     *)
(* detached connection threads (ProxyLab/proxy.c) that use it.             *)
(*                                                                         *)
(* The cache is a doubly linked list, oldest entry at head, guarded by the *)
(* semaphore qmutex.  Every node carries a semaphore cmutex guarding a     *)
(* count read_cnt of the threads that are sending its body to a browser;   *)
(* bodies are sent with no lock held.  Every P is a step of its own, and a *)
(* V is folded into the last step of the section it closes.                *)
(***************************************************************************)
EXTENDS Naturals, Integers

CONSTANTS Thread,     \* connection threads alive at the same time
          Node,       \* the addresses malloc may give to a cdata
          Url,        \* request URLs
          NULL,       \* the null pointer
          Junk,       \* what an uninitialised or freed field holds
          MaxCache,   \* MAX_CACHE_SIZE
          MaxObject,  \* MAX_OBJECT_SIZE
          Reuse       \* may malloc return a freed node that a thread still uses?

ASSUME NullAssumption == NULL \notin Node \cup Url /\ Junk \notin Node \cup Url
ASSUME JunkAssumption == NULL # Junk
ASSUME SizeAssumption == MaxCache \in Nat /\ MaxObject \in Nat /\ MaxObject <= MaxCache
ASSUME ReuseAssumption == Reuse \in BOOLEAN

VARIABLES list,       \* head, rear and the next and prev field of every node
          tsize,      \* the total size the cache believes it holds
          qmutex,     \* value of the semaphore guarding list and tsize
          allocated,  \* the nodes malloc has handed out and free not taken back
          url, size, read_cnt, cmutex,  \* the other fields of a node
          pc,         \* where each thread is
          req,        \* the URL a thread is serving
          cur,        \* p in the list walks; the node a reader got from the cache
          new         \* acache, the node a thread is inserting

nodeVars == <<url, size, read_cnt, cmutex>>
cacheVars == <<list, tsize, qmutex, allocated>>
threadVars == <<pc, req, cur, new>>
vars == <<list, tsize, qmutex, allocated, url, size, read_cnt, cmutex, pc, req, cur, new>>

-----------------------------------------------------------------------------
(* The list.                                                               *)

Pointer == Node \cup {NULL}
ListState == [head : Pointer, rear : Pointer,
              next : [Node -> Pointer \cup {Junk}], prev : [Node -> Pointer \cup {Junk}]]

EmptyList == [head |-> NULL, rear |-> NULL,
              next |-> [n \in Node |-> Junk], prev |-> [n \in Node |-> Junk]]

\* A fault: the rear is not moved when the last node goes.
DeleteNode_KeepsRear(L, p) ==
  [head |-> IF p = L.head THEN L.next[p] ELSE L.head,
   rear |-> L.rear,
   next |-> IF L.prev[p] # NULL THEN [L.next EXCEPT ![L.prev[p]] = L.next[p]] ELSE L.next,
   prev |-> IF L.next[p] # NULL THEN [L.prev EXCEPT ![L.next[p]] = L.prev[p]] ELSE L.prev]

DeleteNode(L, p) ==
  [head |-> IF p = L.head THEN L.next[p] ELSE L.head,
   rear |-> IF p = L.rear THEN L.prev[p] ELSE L.rear,
   next |-> IF L.prev[p] # NULL THEN [L.next EXCEPT ![L.prev[p]] = L.next[p]] ELSE L.next,
   prev |-> IF L.next[p] # NULL THEN [L.prev EXCEPT ![L.next[p]] = L.prev[p]] ELSE L.prev]

AddToRear(L, p) ==
  IF L.head = NULL \/ L.rear = NULL
  THEN [head |-> p, rear |-> p,
        next |-> [L.next EXCEPT ![p] = NULL], prev |-> [L.prev EXCEPT ![p] = NULL]]
  ELSE [head |-> L.head, rear |-> p,
        next |-> [L.next EXCEPT ![L.rear] = p, ![p] = NULL],
        prev |-> [L.prev EXCEPT ![p] = L.rear]]

\* Free(p): whatever the links held is not to be read again.
Scrub(L, p) == [L EXCEPT !.next[p] = Junk, !.prev[p] = Junk]

-----------------------------------------------------------------------------
(* Semaphores and thread steps.                                            *)

\* A fault: the result of sem_wait is ignored and it does not wait.
P_NoWait(sem) == sem' = sem - 1

P(sem) == sem > 0 /\ sem' = sem - 1
V(sem) == sem' = sem + 1

PNode(n) == cmutex[n] > 0 /\ cmutex' = [cmutex EXCEPT ![n] = @ - 1]
VNode(n) == cmutex' = [cmutex EXCEPT ![n] = @ + 1]

Goto(t, from, to) == pc[t] = from /\ pc' = [pc EXCEPT ![t] = to]

\* The thread returns and its connection is closed; its slot takes a new one.
Exit(t, from) ==
  /\ Goto(t, from, "idle")
  /\ req' = [req EXCEPT ![t] = NULL]
  /\ cur' = [cur EXCEPT ![t] = NULL]
  /\ new' = [new EXCEPT ![t] = NULL]

\* A thread that has returned from get_from_cache with a node and still uses it.
Reading == {"write", "unpin", "unpinned"}
UsedByReader(n) == \E t \in Thread : pc[t] \in Reading /\ cur[t] = n

Init ==
  /\ list = EmptyList /\ tsize = 0 /\ qmutex = 1 /\ allocated = {}
  /\ url = [n \in Node |-> Junk] /\ size = [n \in Node |-> 0]
  /\ read_cnt = [n \in Node |-> 0] /\ cmutex = [n \in Node |-> 0]
  /\ pc = [t \in Thread |-> "idle"]
  /\ req = [t \in Thread |-> NULL]
  /\ cur = [t \in Thread |-> NULL]
  /\ new = [t \in Thread |-> NULL]

-----------------------------------------------------------------------------
(* Get_cache and get_from_cache.                                           *)

\* main accepts a connection and its thread parses a GET request.
Request(t) ==
  /\ Goto(t, "idle", "lookup")
  /\ \E u \in Url : req' = [req EXCEPT ![t] = u]
  /\ UNCHANGED <<cacheVars, nodeVars, cur, new>>

\* A fault: the list is walked without qmutex.
Lookup_Unlocked(t) ==
  /\ Goto(t, "lookup", "find")
  /\ cur' = [cur EXCEPT ![t] = list.head]
  /\ UNCHANGED <<cacheVars, nodeVars, req, new>>

Lookup(t) ==
  /\ Goto(t, "lookup", "find")
  /\ P(qmutex)
  /\ cur' = [cur EXCEPT ![t] = list.head]
  /\ UNCHANGED <<list, tsize, allocated, nodeVars, req, new>>

FindNext(t) ==
  /\ pc[t] = "find" /\ cur[t] # NULL /\ url[cur[t]] # req[t]
  /\ cur' = [cur EXCEPT ![t] = list.next[cur[t]]]
  /\ UNCHANGED <<cacheVars, nodeVars, pc, req, new>>

FindMiss(t) ==
  /\ Goto(t, "find", "fetch") /\ cur[t] = NULL
  /\ V(qmutex)
  /\ UNCHANGED <<list, tsize, allocated, nodeVars, req, cur, new>>

FindHit(t) ==
  /\ Goto(t, "find", "pin") /\ cur[t] # NULL /\ url[cur[t]] = req[t]
  /\ PNode(cur[t])
  /\ UNCHANGED <<cacheVars, url, size, read_cnt, req, cur, new>>

Pin(t) ==
  /\ Goto(t, "pin", "move")
  /\ read_cnt' = [read_cnt EXCEPT ![cur[t]] = @ + 1]
  /\ VNode(cur[t])
  /\ UNCHANGED <<cacheVars, url, size, req, cur, new>>

\* A fault: a hit leaves the entry where it was (first in, first out).
MoveToRear_Stays(t) ==
  /\ Goto(t, "move", "write")
  /\ V(qmutex)
  /\ UNCHANGED <<list, tsize, allocated, nodeVars, req, cur, new>>

MoveToRear(t) ==
  /\ Goto(t, "move", "write")
  /\ list' = IF list.rear # cur[t] THEN AddToRear(DeleteNode(list, cur[t]), cur[t]) ELSE list
  /\ V(qmutex)
  /\ UNCHANGED <<tsize, allocated, nodeVars, req, cur, new>>

\* rio_writen sends the body of the node; it may take for ever.
Write(t) ==
  /\ Goto(t, "write", "unpin")
  /\ UNCHANGED <<cacheVars, nodeVars, req, cur, new>>

UnpinLock(t) ==
  /\ Goto(t, "unpin", "unpinned")
  /\ PNode(cur[t])
  /\ UNCHANGED <<cacheVars, url, size, read_cnt, req, cur, new>>

\* A fault: read_cnt is not taken back.
Unpin_NoDecrement(t) ==
  /\ Exit(t, "unpinned")
  /\ VNode(cur[t])
  /\ UNCHANGED <<cacheVars, url, size, read_cnt>>

Unpin(t) ==
  /\ Exit(t, "unpinned")
  /\ read_cnt' = [read_cnt EXCEPT ![cur[t]] = @ - 1]
  /\ VNode(cur[t])
  /\ UNCHANGED <<cacheVars, url, size>>

-----------------------------------------------------------------------------
(* Insert_cache and create_cache.                                          *)

\* The exchange with the server ends in an error, or Insert_cache is given no
\* copy (ptr == NULL) because the object was larger than MAX_OBJECT_SIZE.
Abandon(t) ==
  /\ Exit(t, "fetch")
  /\ UNCHANGED <<cacheVars, nodeVars>>

\* A fault: the inserter counts itself as a reader.
Fetched_CountsItself(t) ==
  /\ Goto(t, "fetch", "insert")
  /\ \E n \in Node \ allocated, sz \in 1..MaxObject :
       /\ Reuse \/ ~UsedByReader(n)
       /\ allocated' = allocated \cup {n}
       /\ url' = [url EXCEPT ![n] = req[t]]
       /\ size' = [size EXCEPT ![n] = sz]
       /\ read_cnt' = [read_cnt EXCEPT ![n] = 1]
       /\ cmutex' = [cmutex EXCEPT ![n] = 1]
       /\ new' = [new EXCEPT ![t] = n]
  /\ UNCHANGED <<list, tsize, qmutex, req, cur>>

Fetched(t) ==
  /\ Goto(t, "fetch", "insert")
  /\ \E n \in Node \ allocated, sz \in 1..MaxObject :
       /\ Reuse \/ ~UsedByReader(n)
       /\ allocated' = allocated \cup {n}
       /\ url' = [url EXCEPT ![n] = req[t]]
       /\ size' = [size EXCEPT ![n] = sz]
       /\ read_cnt' = [read_cnt EXCEPT ![n] = 0]
       /\ cmutex' = [cmutex EXCEPT ![n] = 1]
       /\ new' = [new EXCEPT ![t] = n]
  /\ UNCHANGED <<list, tsize, qmutex, req, cur>>

\* A fault: the list is not searched again before the insertion.
InsertLock_NoRescan(t) ==
  /\ Goto(t, "insert", "scan")
  /\ P(qmutex)
  /\ cur' = [cur EXCEPT ![t] = NULL]
  /\ UNCHANGED <<list, tsize, allocated, nodeVars, req, new>>

InsertLock(t) ==
  /\ Goto(t, "insert", "scan")
  /\ P(qmutex)
  /\ cur' = [cur EXCEPT ![t] = list.head]
  /\ UNCHANGED <<list, tsize, allocated, nodeVars, req, new>>

ScanNext(t) ==
  /\ pc[t] = "scan" /\ cur[t] # NULL /\ url[cur[t]] # url[new[t]]
  /\ cur' = [cur EXCEPT ![t] = list.next[cur[t]]]
  /\ UNCHANGED <<cacheVars, nodeVars, pc, req, new>>

\* A fault: qmutex is not released on the early return.
ScanDup_KeepsLock(t) ==
  /\ Goto(t, "scan", "byOther") /\ cur[t] # NULL /\ url[cur[t]] = url[new[t]]
  /\ cur' = [cur EXCEPT ![t] = NULL]
  /\ UNCHANGED <<cacheVars, nodeVars, req, new>>

\* CACHE_BY_OTHER: another thread has cached this URL since the lookup.
ScanDup(t) ==
  /\ Goto(t, "scan", "byOther") /\ cur[t] # NULL /\ url[cur[t]] = url[new[t]]
  /\ V(qmutex)
  /\ cur' = [cur EXCEPT ![t] = NULL]
  /\ UNCHANGED <<list, tsize, allocated, nodeVars, req, new>>

FreeOwn(t) ==
  /\ Exit(t, "byOther")
  /\ allocated' = allocated \ {new[t]}
  /\ url' = [url EXCEPT ![new[t]] = Junk]
  /\ size' = [size EXCEPT ![new[t]] = 0]
  /\ UNCHANGED <<list, tsize, qmutex, read_cnt, cmutex>>

\* A fault: the new object's size is not counted.
ScanDone_Uncounted(t) ==
  /\ Goto(t, "scan", "evict") /\ cur[t] = NULL
  /\ cur' = [cur EXCEPT ![t] = list.head]
  /\ UNCHANGED <<cacheVars, nodeVars, req, new>>

ScanDone(t) ==
  /\ Goto(t, "scan", "evict") /\ cur[t] = NULL
  /\ tsize' = tsize + size[new[t]]
  /\ cur' = [cur EXCEPT ![t] = list.head]
  /\ UNCHANGED <<list, qmutex, allocated, nodeVars, req, new>>

EvictLock(t) ==
  /\ Goto(t, "evict", "check")
  /\ cur[t] # NULL /\ tsize > MaxCache
  /\ PNode(new[t])
  /\ UNCHANGED <<cacheVars, url, size, read_cnt, req, cur, new>>

Evict(t) ==
  /\ Goto(t, "check", "evict") /\ read_cnt[new[t]] = 0
  /\ tsize' = tsize - size[cur[t]]
  /\ list' = Scrub(DeleteNode(list, cur[t]), cur[t])
  /\ cur' = [cur EXCEPT ![t] = list.next[cur[t]]]
  /\ allocated' = allocated \ {cur[t]}
  /\ url' = [url EXCEPT ![cur[t]] = Junk]
  /\ size' = [size EXCEPT ![cur[t]] = 0]
  /\ VNode(new[t])
  /\ UNCHANGED <<qmutex, read_cnt, req, new>>

\* CACHE_FAILURE: qmutex is released, acache->cmutex is not; after a sleep
\* Insert_cache calls create_cache again.
EvictBusy(t) ==
  /\ Goto(t, "check", "insert") /\ read_cnt[new[t]] # 0
  /\ V(qmutex)
  /\ cur' = [cur EXCEPT ![t] = NULL]
  /\ UNCHANGED <<list, tsize, allocated, nodeVars, req, new>>

\* A fault: one eviction at most, an if for the while.
Link_Early(t) ==
  /\ Exit(t, "evict")
  /\ list' = AddToRear(list, new[t])
  /\ V(qmutex)
  /\ UNCHANGED <<tsize, allocated, nodeVars>>

Link(t) ==
  /\ Exit(t, "evict") /\ (cur[t] = NULL \/ tsize <= MaxCache)
  /\ list' = AddToRear(list, new[t])
  /\ V(qmutex)
  /\ UNCHANGED <<tsize, allocated, nodeVars>>

-----------------------------------------------------------------------------

\* Steps that only wait for the processor or a semaphore.
Compute(t) ==
  \/ Lookup(t) \/ FindNext(t) \/ FindMiss(t) \/ FindHit(t) \/ Pin(t) \/ MoveToRear(t)
  \/ UnpinLock(t) \/ Unpin(t)
  \/ InsertLock(t) \/ ScanNext(t) \/ ScanDup(t) \/ FreeOwn(t) \/ ScanDone(t)
  \/ EvictLock(t) \/ Evict(t) \/ EvictBusy(t) \/ Link(t)

\* Steps that wait for a browser or a server.
Network(t) == Request(t) \/ Write(t) \/ Abandon(t) \/ Fetched(t)

Next == \E t \in Thread : Compute(t) \/ Network(t)

Spec == Init /\ [][Next]_vars

\* The kernel runs every thread that can run; a peer may stay silent for ever.
FairSpec == Spec /\ \A t \in Thread : WF_vars(Compute(t))

-----------------------------------------------------------------------------
(* Properties.                                                             *)

\* The sections of get_from_cache and create_cache between P(&qmutex) and V(&qmutex).
Critical == {"find", "pin", "move", "scan", "evict", "check"}
Inserting == {"insert", "scan", "evict", "check", "byOther"}

PcStates == {"idle", "lookup", "fetch"} \cup Critical \cup Inserting \cup Reading

TypeOK ==
  /\ list \in ListState
  /\ tsize \in Int /\ qmutex \in Nat /\ allocated \subseteq Node
  /\ url \in [Node -> Url \cup {Junk}] /\ size \in [Node -> Nat]
  /\ read_cnt \in [Node -> Int] /\ cmutex \in [Node -> Nat]
  /\ pc \in [Thread -> PcStates]
  /\ req \in [Thread -> Url \cup {NULL}]
  /\ cur \in [Thread -> Pointer] /\ new \in [Thread -> Pointer]

\* A node is in the list from Link to Evict; before that it belongs to its inserter.
InFlight == {new[t] : t \in Thread} \ {NULL}
Linked == allocated \ InFlight

\* The list seen from any of its nodes: head and rear are its ends, next and prev
\* agree, and no link leads to a freed node, to one whose owner has not linked it
\* yet, or to garbage.  Every step of delete_node and add_to_rear keeps this, the
\* move to the rear and the eviction in particular, whatever a reader left behind
\* by an eviction does to the memory it still uses.
ListSound ==
  /\ list.head = NULL <=> list.rear = NULL
  /\ list.head # NULL => list.head \in Linked /\ list.prev[list.head] = NULL
  /\ list.rear # NULL => list.rear \in Linked /\ list.next[list.rear] = NULL
  /\ \A n \in Linked :
       /\ IF n = list.rear THEN list.next[n] = NULL
          ELSE list.next[n] \in Linked /\ list.prev[list.next[n]] = n
       /\ IF n = list.head THEN list.prev[n] = NULL
          ELSE list.prev[n] \in Linked /\ list.next[list.prev[n]] = n

\* Two threads may miss on one URL and both fetch it, but only one copy of it ever
\* enters the list: create_cache looks again under qmutex.
UniqueUrls == \A m, n \in Linked : url[m] = url[n] => m = n

\* A thread walking the list never stands on a node that is not in the list, the
\* evicting loop included, which reads p->next after delete_node(p).
WalkInList ==
  \A t \in Thread :
    /\ pc[t] \in Critical => cur[t] \in Linked \cup {NULL}
    /\ pc[t] \in {"pin", "move", "check"} => cur[t] # NULL

\* At most one thread is between P(&qmutex) and V(&qmutex), on every path out.
OneInside ==
  \A t, u \in Thread : pc[t] \in Critical /\ pc[u] \in Critical => t = u

\* The test read_cnt == 0 of the evicting loop is made on the inserter's own node,
\* which no reader can have got: it is never positive there.  Where the test fails
\* (CACHE_FAILURE), a reader left behind by an eviction has made it negative.
OwnNodeUnread == \A t \in Thread : new[t] # NULL => read_cnt[new[t]] <= 0

\* cache.c says of the eviction "Delete from head, delete it only if it is not
\* occupied": no node leaves the list while a thread sends its body.
OccupiedKept == [][\A n \in Linked : UsedByReader(n) => n \in Linked']_vars
=============================================================================
