------------------------------ MODULE MCSlice ------------------------------
(* Small instances of Slice for TLC. *)
EXTENDS Slice, TLC

CONSTANTS t1, t2, v1, v2, v3, a1, a2

\* Threads, variables and heap cells are interchangeable.
Symmetry == Permutations(Threads) \cup Permutations(Vars) \cup Permutations(Arrays)
=============================================================================
