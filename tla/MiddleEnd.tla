----------------------------- MODULE MiddleEnd -----------------------------
(***************************************************************************)
(* What compile_command (src/julec/compile.jule) does between analysis and *)
(* code generation: dead code elimination (DeadCode), when it is switched  *)
(* on, and then IR.order (src/julec/obj/ir.jule), which collects the       *)
(* global variables that are left and orders them (Orderer).  A variable's *)
(* depends are the variables and constants its initialiser mentions.       *)
(*                                                                         *)
(* What is ordered comes from the elimination: Collected and Dependencies, *)
(* from which Orderer starts on its own, are not used here.                *)
(***************************************************************************)
EXTENDS DeadCode, Orderer

ASSUME GlobalsAssumption ==
  /\ Globals = {d \in Defs : Kind[d] = "var"}
  /\ Others = {d \in Defs : Kind[d] = "const"}

ir == <<vars, orderVars>>

\* What a list has of the set V.
Only(l, V) ==
  LET only[n \in 0 .. Len(l)] ==
        IF n = 0 THEN << >>
        ELSE IF l[n] \in V THEN Append(only[n - 1], l[n]) ELSE only[n - 1]
  IN  only[Len(l)]

\* A variable's dependencies, as the checker has collected them.
Depends(d) == Only(mentions[d], Globals \cup Others)

\* get_all_variables: of the main package, and of the others in the order in
\* which they were imported, which is the order of elimination reversed.
Gathered(V) ==
  LET gathered[n \in 0 .. Len(Order)] ==
        IF n = 0 THEN << >>
        ELSE gathered[n - 1] \o Only(Work[Order[Len(Order) + 1 - n]], V)
  IN  gathered[Len(Order)]

\* Mutant: the variables of the packages as they were analysed.
AllVariablesAnalysed == Gathered(Globals)

AllVariables == Gathered(Globals \ removed)

InitIR ==
  /\ Init
  /\ depends = [d \in Globals |-> Depends(d)]
  /\ given = << >> /\ s = << >>
  /\ pc = "analysed"
  /\ i = 1 /\ j = 1 /\ k = 1

\* apply_target_independent_optimizations, which does nothing when the option
\* is off, is over, and order() collects the variables.
Collect ==
  /\ pc = "analysed"
  /\ Eliminated \/ (turn = 1 /\ at = 0)
  /\ given' = AllVariables
  /\ s' = given'
  /\ pc' = "front"
  /\ UNCHANGED <<vars, depends, i, j, k>>

Eliminate == pc = "analysed" /\ Next /\ UNCHANGED orderVars
OrderVariables == OrderNext /\ UNCHANGED vars

NextIR == Eliminate \/ Collect \/ OrderVariables

SpecIR == InitIR /\ [][NextIR]_ir /\ WF_ir(NextIR)

-----------------------------------------------------------------------------
(* Properties *)

Ordered == pc = "done"

\* "Otherwise, eliminated definitions may remain in the sorted data": what the
\* generator is given are exactly the variables that are left, each once.
OrderedAreLeft ==
  Ordered =>
    /\ Members(s) = Globals \ removed
    /\ Len(s) = Cardinality(Members(s))

\* When every variable that is left names one other at most, in chains of up to
\* three, each finds the one that it names initialised: that one was not
\* eliminated, and stands before it.  One variable outside such a chain, and
\* nothing is said of the others: it can use up the passes that they need.
InitialisedBefore ==
  Ordered =>
    ((\A d \in Members(s) : ShortChain(d)) =>
       \A d \in Members(s) : \A e \in Members(Depends(d)) : Before(e, d))

\* The middle end ends.
Ends == <>Ordered
=============================================================================
