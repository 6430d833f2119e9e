------------------------------- MODULE MCMman -------------------------------
(* Values of the constants of Mman for TLC.                                 *)
EXTENDS Mman, TLC

ReadWrite == {"R", "W"}
OneProt == {ReadWrite}
NoneToo == {ReadWrite, {}}

Symmetry == Permutations(Threads) \cup Permutations(Uids)
=============================================================================
