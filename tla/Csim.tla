-------------------------------- MODULE Csim --------------------------------
(***************************************************************************)
(* csim.c: the cache simulator, one line of the trace file per step.       *)
(***************************************************************************)
EXTENDS Integers, Sequences, FiniteSets

CONSTANTS OptionSets,  \* the options of the command line: sets, associativity, blocks
          Operations,  \* what a line of data may begin with: L, S or M
          Addresses,   \* the addresses in a trace
          MaxLines     \* the bound on the lines of a trace

\* Powers of two as the masks and shifts of csim.c have them; the provers know none.
ASSUME OptionAssumption ==
    \A opt \in OptionSets :
        /\ opt.sets \in Nat /\ opt.blocks \in Nat /\ opt.associativity \in Nat \ {0}
        /\ 2^opt.sets \in Nat \ {0} /\ 2^opt.blocks \in Nat \ {0}
        /\ 2^(opt.sets + opt.blocks) = 2^opt.sets * 2^opt.blocks
ASSUME AddressAssumption == Addresses \subseteq Nat

VARIABLES options,   \* what parseOptions found
          cache,     \* cache->sets, the clock of LRUCounter and the three global counters
          operation, \* the operation last read
          status     \* whether the trace is being read

vars == <<options, cache, operation, status>>

\* tagMask leaves as many bits of the tag as the set index and the block offset have.
SetIndex(addr) == (addr \div 2^options.blocks) % 2^options.sets
TagOf(addr) ==
    (addr \div 2^(options.sets + options.blocks)) % 2^(options.sets + options.blocks)

Ways == 0..(options.associativity - 1)

\* malloc and the loop over the sets, and resetGlobalVariables.
EmptyCache(opt) ==
    [sets |-> [i \in 0..(2^opt.sets - 1) |->
                 [j \in 0..(opt.associativity - 1) |-> [valid |-> FALSE, tag |-> -1, LRUCounter |-> 0]]],
     counts |-> 0, globalHits |-> 0, globalMiss |-> 0, globalEvictions |-> 0]

Again(op) == IF op = "M" THEN 1 ELSE 0

\* A fault: a hit leaves the block as old as it was.
Access_Fifo(C, op, addr) ==
    LET i     == SetIndex(addr)
        tag   == TagOf(addr)
        set   == C.sets[i]
        stops == {j \in Ways : ~set[j].valid \/ set[j].tag = tag}
        least == {j \in Ways : \A k \in Ways : set[j].LRUCounter <= set[k].LRUCounter}
        First(js) == CHOOSE j \in js : \A k \in js : j <= k
        j     == First(IF stops # {} THEN stops ELSE least)
        hit   == stops # {} /\ set[j].valid
    IN  [C EXCEPT !.sets[i][j] = [valid |-> TRUE, tag |-> tag, LRUCounter |-> IF hit THEN set[j].LRUCounter ELSE C.counts],
                  !.counts = @ + 1,
                  !.globalHits = @ + (IF hit THEN 1 ELSE 0) + Again(op),
                  !.globalMiss = @ + (IF hit THEN 0 ELSE 1),
                  !.globalEvictions = @ + (IF stops = {} THEN 1 ELSE 0)]

(***************************************************************************)
(* The blocks of the set are looked at in order, up to the first that hits *)
(* or is empty; if there is none, the first of the least LRUCounter is     *)
(* evicted.  M is a load and a store: the store hits.                      *)
(***************************************************************************)
Access(C, op, addr) ==
    LET i     == SetIndex(addr)
        tag   == TagOf(addr)
        set   == C.sets[i]
        stops == {j \in Ways : ~set[j].valid \/ set[j].tag = tag}
        least == {j \in Ways : \A k \in Ways : set[j].LRUCounter <= set[k].LRUCounter}
        First(js) == CHOOSE j \in js : \A k \in js : j <= k
        j     == First(IF stops # {} THEN stops ELSE least)
        hit   == stops # {} /\ set[j].valid
    IN  [C EXCEPT !.sets[i][j] = [valid |-> TRUE, tag |-> tag, LRUCounter |-> C.counts],
                  !.counts = @ + 1,
                  !.globalHits = @ + (IF hit THEN 1 ELSE 0) + Again(op),
                  !.globalMiss = @ + (IF hit THEN 0 ELSE 1),
                  !.globalEvictions = @ + (IF stops = {} THEN 1 ELSE 0)]

Start(opt) ==
    /\ options = opt
    /\ cache = EmptyCache(opt)
    /\ operation \in {"?", "I"}   \* uninitialised
    /\ status = "reading"

\* A line that ends in a newline.
Line(op, addr) ==
    /\ status = "reading"
    /\ operation' = op
    /\ cache' = Access(cache, op, addr)
    /\ UNCHANGED <<options, status>>

\* Instruction fetches are skipped, before the end of the file is tested.
Instruction ==
    /\ status = "reading"
    /\ operation' = "I"
    /\ UNCHANGED <<options, cache, status>>

\* The end of the file: fscanf reads nothing and operation stays as it is.
EndOfFile ==
    /\ status = "reading"
    /\ status' = IF operation = "I" THEN "for ever" ELSE "printed"
    /\ UNCHANGED <<options, cache, operation>>

\* A last line without a newline: reading it meets the end of the file, and it is dropped.
LastLine(op) ==
    /\ status = "reading"
    /\ operation' = op
    /\ status' = IF op = "I" THEN "for ever" ELSE "printed"
    /\ UNCHANGED <<options, cache>>

ReadFile ==
    \/ cache.counts < MaxLines /\ \E op \in Operations, addr \in Addresses : Line(op, addr)
    \/ Instruction
    \/ EndOfFile
    \/ \E op \in Operations \cup {"I"} : LastLine(op)

\* The cache as LruSim sees it: the blocks of a set from the oldest to the newest.
ByAge(i) ==
    LET set == cache.sets[i]
        valid == {j \in Ways : set[j].valid}
        Older(j) == Cardinality({k \in valid : set[k].LRUCounter < set[j].LRUCounter})
    IN  [n \in 1..Cardinality(valid) |->
           set[CHOOSE j \in valid : Older(j) = n - 1].tag * 2^options.sets + i]

Lru == INSTANCE LruSim WITH
         geometry <- [S |-> 2^options.sets, E |-> options.associativity, B |-> 2^options.blocks],
         held <- [i \in DOMAIN cache.sets |-> ByAge(i)],
         hits <- cache.globalHits, misses <- cache.globalMiss, evictions <- cache.globalEvictions
=============================================================================
