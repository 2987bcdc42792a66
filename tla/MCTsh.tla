-------------------------------- MODULE MCTsh --------------------------------
(* Small instances of the shell's job control for TLC.                     *)
EXTENDS Tsh, TLC

Symmetry == Permutations(Pid)
=============================================================================
