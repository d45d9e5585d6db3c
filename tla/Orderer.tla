------------------------------ MODULE Orderer ------------------------------
(***************************************************************************)
(* DefineOrderer.order_common (src/julec/obj/order.jule), by which IR.order*)
(* brings global variables and structures into the order in which the C++  *)
(* generator writes them.                                                  *)
(*                                                                         *)
(* A definition's depends is the list the checker has collected, in the    *)
(* order of mention and with repetitions; for a variable it also names     *)
(* constants, which are not among the definitions that are ordered         *)
(* (IR.append_vars leaves them out).                                       *)
(***************************************************************************)
EXTENDS Integers, Sequences

CONSTANTS
  Globals,      \* the definitions that are ordered: variables, or structures
  Others,       \* what else a definition may depend on: constants
  Collected,    \* the lists that may have to be ordered
  Dependencies  \* the dependencies considered

ASSUME OthersAssumption == Globals \cap Others = {}
ASSUME CollectedAssumption ==
  /\ Collected \subseteq Seq(Globals)
  /\ \A c \in Collected : \A m, n \in 1 .. Len(c) : c[m] = c[n] => m = n
ASSUME DependenciesAssumption == Dependencies \subseteq [Globals -> Seq(Globals \cup Others)]

VARIABLES
  depends,  \* the field depends of each definition
  given,    \* the list that was given
  s,        \* the list being ordered
  pc,       \* "front": the first loop; "back": the two nested ones; "done"
  i,        \* where the definitions without dependencies end
  j,        \* the counter of the first loop, then of the outer one
  k         \* the counter of the inner loop

orderVars == <<depends, given, s, pc, i, j, k>>

N == Len(given)

OrderTypeOK ==
  /\ depends \in [Globals -> Seq(Globals \cup Others)]
  /\ given \in Seq(Globals)
  /\ s \in [1 .. N -> Globals]
  /\ pc \in {"front", "back", "done"}
  /\ i \in 1 .. N + 1
  /\ j \in 1 .. N + 1
  /\ k \in 1 .. N + 1

OrderInit ==
  /\ depends \in Dependencies
  /\ given \in Collected
  /\ s = given
  /\ pc = "front"
  /\ i = 1
  /\ j = 1
  /\ k = 1

\* Mutant: the second half of the swap is missing.
SwapHalf(m, n) == s' = [s EXCEPT ![m] = s[n]]

Swap(m, n) == s' = [s EXCEPT ![m] = s[n], ![n] = s[m]]

\* is_common_ordered: how many of depends(d), in their order, have been met
\* in the first n definitions of the list, before d itself.
Met(d) ==
  LET met[n \in 0 .. N] ==
        IF n = 0 THEN 0
        ELSE LET m == met[n - 1]
             IN  IF /\ m < Len(depends[d])
                    /\ d \notin {s[p] : p \in 1 .. n}
                    /\ s[n] = depends[d][m + 1]
                 THEN m + 1 ELSE m
  IN  met[N]

\* Mutant: every definition counts as ordered.
IsOrderedAlways(d) == TRUE

IsOrdered(d) == Met(d) = Len(depends[d])

\* The first loop: what depends on nothing comes to the front.
Front ==
  /\ pc = "front" /\ j <= N
  /\ IF depends[s[j]] = << >>
     THEN Swap(i, j) /\ i' = i + 1
     ELSE UNCHANGED <<s, i>>
  /\ j' = j + 1
  /\ UNCHANGED <<depends, given, pc, k>>

FrontDone ==
  /\ pc = "front" /\ j > N
  /\ pc' = "back"
  /\ j' = i
  /\ k' = i
  /\ UNCHANGED <<depends, given, s, i>>

\* One turn of the inner loop: a definition that is not ordered moves back.
Compare ==
  /\ pc = "back" /\ j <= N /\ k < N
  /\ IF IsOrdered(s[k]) THEN UNCHANGED s ELSE Swap(k, k + 1)
  /\ k' = k + 1
  /\ UNCHANGED <<depends, given, pc, i, j>>

\* Mutant: the outer loop forgets to count.
NextPassStays ==
  /\ pc = "back" /\ j <= N /\ k >= N
  /\ k' = i
  /\ UNCHANGED <<depends, given, s, pc, i, j>>

\* The outer loop goes on, with the inner one from the start.
NextPass ==
  /\ pc = "back" /\ j <= N /\ k >= N
  /\ j' = j + 1
  /\ k' = i
  /\ UNCHANGED <<depends, given, s, pc, i>>

Finish ==
  /\ pc = "back" /\ j > N
  /\ pc' = "done"
  /\ UNCHANGED <<depends, given, s, i, j, k>>

OrderNext == Front \/ FrontDone \/ Compare \/ NextPass \/ Finish

OrderSpec == OrderInit /\ [][OrderNext]_orderVars

\* One thread runs it to its end.
OrderFairSpec == OrderSpec /\ WF_orderVars(OrderNext)

-----------------------------------------------------------------------------
(* Properties *)

\* Every definition that was given stays in the list, once: nothing is lost or
\* written twice by the swaps of order_common, whatever depends on what.
Permutation == \A m \in 1 .. N : \E n \in 1 .. N : s[n] = given[m]

\* "Checked t should have minimum 1 dependency": is_common_ordered reads
\* depends[0] first, and the inner loop never hands it a definition without one.
HasDependency == pc = "back" /\ j <= N /\ k < N => depends[s[k]] # << >>

Before(d, e) == \E m, n \in 1 .. N : m < n /\ s[m] = d /\ s[n] = e

\* "Type's dependencies always comes first itself": in the finished list every
\* definition stands behind those it depends on.
DependsFirst ==
  pc = "done" =>
    \A m \in 1 .. N : \A n \in 1 .. Len(depends[s[m]]) :
      depends[s[m]][n] \in Globals => Before(depends[s[m]][n], s[m])

\* What d mentions, and the definitions that are ordered.
Mentioned(d) == {depends[d][n] : n \in 1 .. Len(depends[d])}
Listed == {s[m] : m \in 1 .. N}

\* d mentions at most one definition, and no constant.
MentionsOne(d) == depends[d] \in Seq(Globals) /\ Len(depends[d]) <= 1

\* One would expect of order_common that it keeps that promise at least when
\* every definition names at most one other.  It does not: a definition that is
\* moved back jumps over others, which this pass then does not look at, and
\* there are not enough passes for all of them (five definitions show it).
ChainsOrdered ==
  (\A d \in Listed : MentionsOne(d) /\ Mentioned(d) \subseteq Listed) => DependsFirst

\* d mentions at most one definition, which mentions at most one that depends
\* on nothing.
ShortChain(d) ==
  /\ MentionsOne(d)
  /\ \A e \in Mentioned(d) : MentionsOne(e) /\ \A f \in Mentioned(e) : depends[f] = << >>

\* What it does keep: a list made of nothing but chains of up to three
\* definitions, none of which mentions two, or one twice, or a constant, is
\* brought into order, as every pass puts one of them for good behind what it
\* depends on.
ShortChainsOrdered ==
  (\A d \in Listed : ShortChain(d) /\ Mentioned(d) \subseteq Listed) => DependsFirst

\* The two nested loops end.
Terminates == <>(pc = "done")
=============================================================================
