------------------------------ MODULE MCTrans ------------------------------
(***************************************************************************)
(* The matrices that driver.py has transposed, and short traces of small   *)
(* caches: one set of three blocks, two sets of two, and two sets of one.  *)
(***************************************************************************)
EXTENDS Trans

MCShapes == {[N |-> 32, M |-> 32], [N |-> 64, M |-> 64], [N |-> 67, M |-> 61]}

Opt(s, e, b) == [sets |-> s, associativity |-> e, blocks |-> b]
MCOptionSets == {Opt(0, 3, 2), Opt(1, 2, 1), Opt(1, 1, 1)}
=============================================================================
