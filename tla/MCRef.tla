------------------------------- MODULE MCRef -------------------------------
(* Small instances of Ref for TLC. *)
EXTENDS Ref

CONSTANTS t1, t2, r1, r2, r3, o1, o2
=============================================================================
