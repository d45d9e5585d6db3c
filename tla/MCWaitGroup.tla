---------------------------- MODULE MCWaitGroup ----------------------------
(* Small instances of WaitGroup for TLC: the threads are model values. *)
EXTENDS WaitGroup

CONSTANTS j1, j2, j3, main, w1
=============================================================================
