------------------------------ MODULE LruCache ------------------------------
(***************************************************************************)
(* What the proxy's cache promises: a bounded least-recently-used store.   *)
(* Entries are ordered from the least to the most recently used.  A client *)
(* is served from the store, which makes the entry the newest, or misses   *)
(* and fetches its object, which it may store.  An entry being stored      *)
(* first makes room, dropping the oldest entries one at a time and only    *)
(* while it does not fit; nothing else happens in the store meanwhile.     *)
(***************************************************************************)
EXTENDS Naturals, Sequences, SequencesExt

CONSTANTS Client, Url, MaxCache, MaxObject, None

VARIABLES lru,       \* entries [url, size], oldest first
          incoming,  \* the entry being stored, or None
          serving,   \* the URL each client is being served from the store, or None
          fetching   \* the URL each client has missed and fetches, or None

vars == <<lru, incoming, serving, fetching>>

Total(s) == SumFunction([i \in DOMAIN s |-> s[i].size])
Holds(u) == \E i \in DOMAIN lru : lru[i].url = u
AtRest(c) == serving[c] = None /\ fetching[c] = None

Init ==
  /\ lru = <<>> /\ incoming = None
  /\ serving = [c \in Client |-> None] /\ fetching = [c \in Client |-> None]

Hit(c, i) ==
  /\ incoming = None /\ AtRest(c)
  /\ serving' = [serving EXCEPT ![c] = lru[i].url]
  /\ lru' = Append(RemoveAt(lru, i), lru[i])
  /\ UNCHANGED <<incoming, fetching>>

Served(c) ==
  /\ serving[c] # None
  /\ serving' = [serving EXCEPT ![c] = None]
  /\ UNCHANGED <<lru, incoming, fetching>>

Miss(c, u) ==
  /\ incoming = None /\ AtRest(c) /\ ~Holds(u)
  /\ fetching' = [fetching EXCEPT ![c] = u]
  /\ UNCHANGED <<lru, incoming, serving>>

\* The client could not fetch its object, or did not store it.
GiveUp(c) ==
  /\ fetching[c] # None
  /\ fetching' = [fetching EXCEPT ![c] = None]
  /\ UNCHANGED <<lru, incoming, serving>>

Begin(c, size) ==
  /\ incoming = None /\ fetching[c] # None /\ ~Holds(fetching[c])
  /\ incoming' = [url |-> fetching[c], size |-> size]
  /\ fetching' = [fetching EXCEPT ![c] = None]
  /\ UNCHANGED <<lru, serving>>

Evict ==
  /\ incoming # None /\ lru # <<>>
  /\ Total(lru) + incoming.size > MaxCache
  /\ lru' = Tail(lru)
  /\ UNCHANGED <<incoming, serving, fetching>>

Commit ==
  /\ incoming # None
  /\ Total(lru) + incoming.size <= MaxCache
  /\ lru' = Append(lru, incoming)
  /\ incoming' = None
  /\ UNCHANGED <<serving, fetching>>

Next ==
  \/ \E c \in Client :
       \/ \E i \in DOMAIN lru : Hit(c, i)
       \/ \E u \in Url : Miss(c, u)
       \/ \E size \in 1..MaxObject : Begin(c, size)
       \/ Served(c) \/ GiveUp(c)
  \/ Evict
  \/ Commit

Spec == Init /\ [][Next]_vars
=============================================================================
