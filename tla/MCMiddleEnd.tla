---------------------------- MODULE MCMiddleEnd ----------------------------
(***************************************************************************)
(* A small instance of MiddleEnd: package px with three variables, a       *)
(* constant and an init function, package pf with two functions, a method  *)
(* and an init function, and the main package, which uses both.            *)
(***************************************************************************)
EXTENDS MiddleEnd, TLC

CONSTANTS main, f, h, meth, finit, x, y, z, c, xinit, pm, pf, px

MCKind ==
  [d \in Defs |->
     CASE d = main -> "entry"
       [] d \in {f, h} -> "fn"
       [] d = meth -> "method"
       [] d \in {x, y, z} -> "var"
       [] d = c -> "const"
       [] d \in {finit, xinit} -> "init"]

MCOrder == <<pf, px, pm>>
MCWork == (pm :> <<main>>) @@ (pf :> <<finit, f, h>>) @@ (px :> <<x, z, y, c, xinit>>)

\* Every choice of mentions out of those that matter to the outcome.
Some(l) == {SelectSeq(l, LAMBDA e : e \in T) : T \in SUBSET Members(l)}
MCPrograms ==
  {(main :> p1) @@ (f :> p2) @@ (h :> p3) @@ (finit :> p4) @@ (xinit :> p5)
     @@ (x :> p6) @@ (z :> <<x>>) @@ (meth :> p7) @@ [d \in Defs |-> << >>] :
   p1 \in Some(<<f, z>>), p2 \in Some(<<h, x>>), p3 \in Some(<<f, y>>),
   p4 \in Some(<<h, y>>), p5 \in Some(<<y, z>>), p6 \in Some(<<y, c>>),
   p7 \in Some(<<y>>)}
=============================================================================
