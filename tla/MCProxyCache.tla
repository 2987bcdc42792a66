---------------------------- MODULE MCProxyCache ----------------------------
(* Small instances of the proxy's cache for TLC.                           *)
EXTENDS ProxyCacheLru, TLC

Symmetry == Permutations(Thread) \cup Permutations(Node) \cup Permutations(Url)

\* Bound: where a failed insertion leaves its size in tsize, the sum grows without
\* end.  Twice the cache's size lets it happen and shows what follows from it.
TsizeBound == tsize <= 2 * MaxCache
=============================================================================
