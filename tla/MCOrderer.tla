----------------------------- MODULE MCOrderer -----------------------------
(* Small instances of Orderer for TLC. *)
EXTENDS Orderer, FiniteSets

CONSTANTS a, b, c, d, x

Lists(n) == UNION {[1 .. m -> Globals \cup Others] : m \in 0 .. n}

\* The checker has refused cycles: some ranking puts all dependencies lower.
Rankings == [Globals -> 1 .. Cardinality(Globals)]
Acyclic(p) ==
  \E rank \in Rankings : \A e \in Globals : \A m \in 1 .. Len(p[e]) :
    p[e][m] \in Globals => rank[p[e][m]] < rank[e]

\* Definitions that mention up to one, or up to two, definitions or constants.
MCMentionOne == {p \in [Globals -> Lists(1)] : Acyclic(p)}
MCMentionTwo == {p \in [Globals -> Lists(2)] : Acyclic(p)}

\* One order of collection is enough: the programs include all renamings.
MCThree == {<<a, b, c>>}
MCFour == {<<a, b, c, d>>}
MCFive == {<<a, b, c, d, x>>}

\* Five definitions, all of which lead to a.
MCOneMentionEach ==
  {p \in [Globals -> {<< >>} \cup {<<e>> : e \in Globals}] :
     p[a] = << >> /\ p[x] = <<a>> /\ Acyclic(p)}
=============================================================================
