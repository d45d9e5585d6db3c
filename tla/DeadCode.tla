------------------------------ MODULE DeadCode ------------------------------
(***************************************************************************)
(* Dead code elimination (src/julec/deadcode/deadcode.jule): the global    *)
(* variables and functions that nothing alive refers to are taken out of   *)
(* the packages, and an init function stays only when it touches something *)
(* alive.                                                                  *)
(*                                                                         *)
(* is_dead searches backwards, from a definition to those that refer to    *)
(* it, along paths without repetition; its global checking is a parameter  *)
(* here (current is the last of checking), deads and main_current outlive  *)
(* it and are state.                                                       *)
(* A "method" stands for everything that is never eliminated.              *)
(***************************************************************************)
EXTENDS Integers, Sequences, FiniteSets

CONSTANTS
  Defs,
  Nil,      \* no definition
  Kind,     \* "var", "const", "fn", "init", "entry" or "method"
  Order,    \* the packages in the order of elimination: the main package last
  Work,     \* per package, its global variables and then its functions
  Programs  \* which definitions each definition mentions, in order

Members(l) == {l[x] : x \in 1 .. Len(l)}
PackageAt(n) == Members(Work[Order[n]])

ASSUME DefsAssumption == IsFiniteSet(Defs) /\ Nil \notin Defs
ASSUME KindAssumption ==
  Kind \in [Defs -> {"var", "const", "fn", "init", "entry", "method"}]
ASSUME OrderAssumption ==
  /\ Order \in Seq(DOMAIN Work) /\ Order # << >>
  /\ \A m, n \in 1 .. Len(Order) : Order[m] = Order[n] => m = n
\* Everything but the methods stands in one package, at one place.
ASSUME WorkAssumption ==
  /\ \A n \in 1 .. Len(Order) : Work[Order[n]] \in Seq(Defs)
  /\ \A m, n \in 1 .. Len(Order) :
       \A x \in 1 .. Len(Work[Order[m]]), y \in 1 .. Len(Work[Order[n]]) :
         Work[Order[m]][x] = Work[Order[n]][y] => m = n /\ x = y
  /\ \A d \in Defs : Kind[d] # "method" <=> \E n \in 1 .. Len(Order) : d \in PackageAt(n)
\* Only the main package may mention what is eliminated before its own package,
\* and nothing but itself mentions it: imports have no cycles (module Packages).
\* A constant is made of constants.
ASSUME MentionAssumption ==
  /\ Programs \subseteq [Defs -> Seq(Defs)]
  /\ \A p \in Programs : \A m, n \in 1 .. Len(Order) :
       \A d \in PackageAt(m) : \A e \in Members(p[d]) \cap PackageAt(n) :
         m = Len(Order) \/ (m <= n /\ n # Len(Order))
  /\ \A p \in Programs : \A d \in Defs :
       Kind[d] = "const" => \A e \in Members(p[d]) : Kind[e] = "const"

VARIABLES
  mentions,      \* the program
  statically,    \* the entry point and the init functions that must stay
  deads,         \* the dead definitions of the package at hand
  main_current,  \* the definition that was examined last
  removed,       \* what has been taken out of the packages
  turn,          \* the package at hand, as an index of Order
  at             \* what is next in its Work, 0 for its init function

vars == <<mentions, statically, deads, main_current, removed, turn, at>>

TypeOK ==
  /\ mentions \in [Defs -> Seq(Defs)]
  /\ statically \in SUBSET {d \in Defs : Kind[d] \in {"init", "entry"}}
  /\ deads \in SUBSET Defs
  /\ main_current \in Defs \cup {Nil}
  /\ removed \in SUBSET Defs
  /\ turn \in 1 .. Len(Order) + 1
  /\ at \in Nat

\* The field references of d: the definitions that mention it.  What an init
\* function mentions is its field refers, which leaves out functions that mention
\* the init function themselves; that can matter only where an init is called.
References(d) == {e \in Defs : d \in Members(mentions[e])}

InitOf(p) == {d \in Members(Work[p]) : Kind[d] = "init"}
MainPackage == Order[Len(Order)]

\* compile_command has marked the entry point and the main package's init.
Init ==
  /\ mentions \in Programs
  /\ statically = {d \in Members(Work[MainPackage]) : Kind[d] \in {"init", "entry"}}
  /\ deads = {}
  /\ main_current = Nil
  /\ removed = {}
  /\ turn = 1
  /\ at = 0

-----------------------------------------------------------------------------
(* is_dead *)

\* is_dead goes no further and answers yes: d is the definition that asks, the
\* one examined (m), or on the path already.  Init functions are exempt.
DeadEnd(d, m, checking) == Kind[d] # "init" /\ d \in {m} \cup checking

\* is_all_references_are_dead passes over the definition examined, when it is
\* of the same type as the one at hand.
PassedOver(e, m, d) ==
  e = m /\ (Kind[m] \in {"var", "const"} <=> Kind[d] \in {"var", "const"})

\* Mutant: one dead reference suffices.
JudgedByOne(d, deadOnes) ==
  CASE Kind[d] \in {"init", "entry"} -> d \notin statically
    [] Kind[d] = "method" -> FALSE
    [] Kind[d] = "const" -> TRUE
    [] OTHER -> References(d) = {} \/ deadOnes # {}

\* is_fn_dead and is_var_dead, given which of the references to d are dead.
Judged(d, deadOnes) ==
  CASE Kind[d] \in {"init", "entry"} -> d \notin statically
    [] Kind[d] = "method" -> FALSE
    [] Kind[d] = "const" -> TRUE
    [] OTHER -> References(d) = deadOnes

\* Mutant: definitions that refer to each other keep themselves alive.
IsDeadOffCycles(m, known) ==
  LET dead[checking \in SUBSET Defs] ==
        [d \in Defs |->
           \/ d \in known
           \/ /\ ~DeadEnd(d, m, checking)
              /\ Judged(d, {e \in References(d) :
                              PassedOver(e, m, d) \/ dead[checking \cup {d}][e]})]
  IN  dead

\* is_dead while m is examined and the set `known` of this package is dead.
IsDead(m, known) ==
  LET dead[checking \in SUBSET Defs] ==
        [d \in Defs |->
           \/ d \in known
           \/ DeadEnd(d, m, checking)
           \/ Judged(d, {e \in References(d) :
                           PassedOver(e, m, d) \/ dead[checking \cup {d}][e]})]
  IN  dead

-----------------------------------------------------------------------------
(* eliminate *)

Package == Order[turn]
Eliminating == turn <= Len(Order)

\* Mutant: only the package that is eliminated first is looked at.
CatchInitOnce ==
  /\ Eliminating /\ at = 0
  /\ deads' = {}
  /\ statically' = statically \cup
       {d \in InitOf(Package) :
          turn = 1 /\ \E e \in Members(mentions[d]) : ~IsDead(main_current, {})[{}][e]}
  /\ at' = 1
  /\ UNCHANGED <<mentions, main_current, removed, turn>>

\* catch_alive_init: the package's init stays when it touches something alive.
\* main_current still is the last definition of the package before.
CatchInit ==
  /\ Eliminating /\ at = 0
  /\ deads' = {}
  /\ statically' = statically \cup
       {d \in InitOf(Package) :
          \E e \in Members(mentions[d]) : ~IsDead(main_current, {})[{}][e]}
  /\ at' = 1
  /\ UNCHANGED <<mentions, main_current, removed, turn>>

\* eliminate_dead_globals and eliminate_dead_functions, for one definition.
Examine ==
  /\ Eliminating /\ at \in 1 .. Len(Work[Package])
  /\ LET d == Work[Package][at]
         dead == Judged(d, {e \in References(d) : e = d \/ IsDead(d, deads)[{}][e]})
     IN  /\ main_current' = d
         /\ deads' = IF dead THEN deads \cup {d} ELSE deads
         /\ removed' = IF dead THEN removed \cup {d} ELSE removed
  /\ at' = at + 1
  /\ UNCHANGED <<mentions, statically, turn>>

NextPackage ==
  /\ Eliminating /\ at > Len(Work[Package])
  /\ turn' = turn + 1
  /\ at' = 0
  /\ UNCHANGED <<mentions, statically, deads, main_current, removed>>

Next == CatchInit \/ Examine \/ NextPackage

Spec == Init /\ [][Next]_vars

FairSpec == Spec /\ WF_vars(Next)

-----------------------------------------------------------------------------
(* Properties *)

Eliminated == ~Eliminating
Kept == Defs \ removed

\* What the definitions of S mention, directly or not, along paths that avoid
\* what is hidden.
ReachedPast(S, hidden) ==
  LET within[x \in 0 .. Cardinality(Defs)] ==
        IF x = 0 THEN S
        ELSE within[x - 1] \cup
               ((UNION {Members(mentions[d]) : d \in within[x - 1]}) \ hidden)
  IN  within[Cardinality(Defs)]

Reached(S) == ReachedPast(S, {})

NeverRemoved == {d \in Defs : Kind[d] = "method"}
Entry == {d \in Members(Work[MainPackage]) : Kind[d] = "entry"}

\* Whatever a kept definition mentions is kept, constants apart, which the
\* generator writes out in place: the C++ text names nothing undeclared.
Closed ==
  Eliminated =>
    \A d \in Kept : \A e \in Members(mentions[d]) : e \in Kept \/ Kind[e] = "const"

\* What is kept is needed: it can be reached from the entry point, a kept init
\* function or a method.  Cycles of definitions do not keep each other alive.
OnlyNeeded ==
  Eliminated => Kept \subseteq Reached(statically \cup NeverRemoved)

\* The definition that is examined last before the p-th package, if there is one:
\* main_current still is when catch_alive_init looks at the p-th package's init.
LastBefore(p) ==
  {d \in Defs : \E n \in 1 .. p - 1 :
     /\ Work[Order[n]] # << >> /\ d = Work[Order[n]][Len(Work[Order[n]])]
     /\ \A m \in n + 1 .. p - 1 : Work[Order[m]] = << >>}

\* An init function is kept that touches anything the entry point reaches, but
\* for what it reaches only through the definition that was examined last in the
\* packages eliminated before: that one catch_alive_init takes for dead.
InitKept ==
  Eliminated =>
    \A p \in 1 .. Len(Order) : \A d \in InitOf(Order[p]) :
      LET touched == {e \in Members(mentions[d]) : Kind[e] # "const"}
      IN  touched \cap ReachedPast(Entry, LastBefore(p)) # {} => d \in Kept
=============================================================================
