--------------------------- MODULE MiddleEndProofs --------------------------
(***************************************************************************)
(* Proofs about DeadCode, Orderer and MiddleEnd for any packages and any   *)
(* program.  What is said of Orderer is said of MiddleEnd's instance of    *)
(* it, which is given any list of any variables without repetition, and    *)
(* any dependencies.                                                       *)
(*                                                                         *)
(* A set of definitions is dead when nothing outside refers to a member    *)
(* and no member must stay; the greatest such set is Dead.  is_dead finds  *)
(* it, although it stops at cycles, at what it has seen and at what it was *)
(* asked for (IsDeadMeaning).  The invariant DInv says that what has been  *)
(* removed is exactly what is dead of what has been examined.  It survives *)
(* an init function that turns out to stay, because only the packages that *)
(* were eliminated before, and main, can mention what has been removed.    *)
(*                                                                         *)
(* That order_common brings short chains into order (ChainInv) is counted: *)
(* each pass settles a definition that stood before what it depends on.    *)
(***************************************************************************)
EXTENDS MiddleEnd, FiniteSetTheorems, TLAPS

-----------------------------------------------------------------------------
(* Induction over numbers, out of the well-foundedness of finite subsets *)

\* Some member of a family of finite sets includes no other.
LEMMA Minimal ==
  ASSUME NEW S, NEW F, F # {}, \A A \in F : IsFiniteSet(A) /\ A \subseteq S
  PROVE  \E A \in F : \A B \in F : B \subseteq A => B = A
<1>1. IsWellFoundedOn(StrictSubsetOrdering(S), FiniteSubsetsOf(S))
  BY FS_StrictSubsetOrderingWellFounded
<1>2. F \subseteq FiniteSubsetsOf(S)
  BY DEF FiniteSubsetsOf
<1>3. \E A \in F : \A B \in F : ~ (<<B, A>> \in StrictSubsetOrdering(S))
  BY <1>1, <1>2, WFMin
<1>4. \A A, B \in F : B \subseteq A /\ B # A => <<B, A>> \in StrictSubsetOrdering(S)
  BY <1>2 DEF StrictSubsetOrdering, FiniteSubsetsOf
<1> QED
  BY <1>3, <1>4

\* A set of numbers has a least one.
LEMMA Least ==
  ASSUME NEW T \in SUBSET Nat, T # {}
  PROVE  \E x \in T : \A y \in T : x <= y
<1> DEFINE F == {1 .. n : n \in T}
<1>1. F # {}
  OBVIOUS
<1>2. \A A \in F : IsFiniteSet(A) /\ A \subseteq Nat
  <2>1. \A n \in T : IsFiniteSet(1 .. n)
    BY FS_Interval
  <2> QED
    BY <2>1
<1>3. \E A \in F : \A B \in F : B \subseteq A => B = A
  <2> HIDE DEF F
  <2> QED
    BY <1>1, <1>2, Minimal
<1>4. PICK A \in F : \A B \in F : B \subseteq A => B = A
  BY <1>3
<1>5. PICK x \in T : A = 1 .. x
  OBVIOUS
<1>6. ASSUME NEW y \in T, y < x
      PROVE  FALSE
  <2>1. 1 .. y \subseteq 1 .. x
    BY <1>6
  <2>2. 1 .. y = 1 .. x
    BY <1>4, <1>5, <2>1
  <2>3. x \in 1 .. x /\ x \notin 1 .. y
    BY <1>6
  <2> QED
    BY <2>2, <2>3
<1> QED
  BY <1>6

\* Induction, with the numbers a property holds of as a set.
LEMMA CountingUp ==
  ASSUME NEW P, 0 \in P, \A n \in Nat : n \in P => n + 1 \in P
  PROVE  Nat \subseteq P
<1> DEFINE T == {n \in Nat : n \notin P}
<1>1. SUFFICES ASSUME T # {}
               PROVE  FALSE
  OBVIOUS
<1>2. T \in SUBSET Nat
  OBVIOUS
<1>3. \E x \in T : \A y \in T : x <= y
  <2> HIDE DEF T
  <2> QED
    BY <1>1, <1>2, Least
<1>4. PICK x \in T : \A y \in T : x <= y
  BY <1>3
<1>5. x - 1 \in Nat /\ x - 1 \notin T
  BY <1>4
<1> QED
  BY <1>4, <1>5

\* f computes, from b on, n times the next value with step.
Computed(f, n, T, b, step) ==
  f \in [0 .. n -> T] /\ f[0] = b /\ \A m \in 1 .. n : f[m] = step[m][f[m - 1]]

\* Functions that are defined by recursion on their number exist.
LEMMA Computes ==
  ASSUME NEW top \in Nat, NEW T, NEW b \in T, NEW step \in [1 .. top -> [T -> T]]
  PROVE  \E f : Computed(f, top, T, b, step)
<1> DEFINE P == {n \in Nat : n <= top => \E f : Computed(f, n, T, b, step)}
<1>1. 0 \in P
  <2>1. Computed([m \in 0 .. 0 |-> b], 0, T, b, step)
    BY DEF Computed
  <2> QED
    BY <2>1
<1>2. ASSUME NEW n \in Nat, n \in P
      PROVE  n + 1 \in P
  <2> SUFFICES ASSUME n + 1 <= top
               PROVE  \E f : Computed(f, n + 1, T, b, step)
    OBVIOUS
  <2>1. PICK g : Computed(g, n, T, b, step)
    BY <1>2
  <2> DEFINE h == [m \in 0 .. n + 1 |-> IF m = n + 1 THEN step[n + 1][g[n]] ELSE g[m]]
  <2>2. g \in [0 .. n -> T] /\ g[0] = b /\ \A m \in 1 .. n : g[m] = step[m][g[m - 1]]
    BY <2>1 DEF Computed
  <2>3. n + 1 \in 1 .. top /\ n \in 0 .. n
    OBVIOUS
  <2>4. step[n + 1][g[n]] \in T
    BY <2>2, <2>3
  <2>5. h \in [0 .. n + 1 -> T]
    BY <2>2, <2>4
  <2>6. h[0] = b
    BY <2>2
  <2>7. \A m \in 1 .. n + 1 : h[m] = step[m][h[m - 1]]
    <3> TAKE m \in 1 .. n + 1
    <3>1. CASE m = n + 1
      <4>1. h[n + 1] = step[n + 1][g[n]] /\ h[n] = g[n] /\ m - 1 = n
        BY <3>1
      <4> HIDE DEF h
      <4> QED
        BY <3>1, <4>1
    <3>2. CASE m # n + 1
      <4>1. m \in 1 .. n /\ h[m] = g[m] /\ h[m - 1] = g[m - 1]
        BY <3>2
      <4> HIDE DEF h
      <4> QED
        BY <4>1, <2>2
    <3> QED
      BY <3>1, <3>2
  <2> HIDE DEF h
  <2> QED
    BY <2>5, <2>6, <2>7 DEF Computed
<1>3. Nat \subseteq P
  <2> HIDE DEF P
  <2> QED
    BY <1>1, <1>2, CountingUp
<1> QED
  BY <1>3

\* What follows the rule where it is defined stays in T.
LEMMA StaysComputed ==
  ASSUME NEW top \in Nat, NEW T, NEW b \in T, NEW step \in [1 .. top -> [T -> T]],
         NEW w, w = [x \in 0 .. top |-> w[x]], w[0] = b,
         \A n \in 1 .. top : w[n - 1] \in T => w[n] = step[n][w[n - 1]]
  PROVE  Computed(w, top, T, b, step)
<1> DEFINE P == {n \in Nat : n <= top => w[n] \in T}
<1>1. 0 \in P
  OBVIOUS
<1>2. ASSUME NEW n \in Nat, n \in P
      PROVE  n + 1 \in P
  <2> SUFFICES ASSUME n + 1 <= top
               PROVE  w[n + 1] \in T
    OBVIOUS
  <2>1. w[n] \in T /\ n + 1 \in 1 .. top /\ (n + 1) - 1 = n
    BY <1>2
  <2>2. w[n + 1] = step[n + 1][w[n]]
    BY <2>1
  <2> QED
    BY <2>1, <2>2
<1>3. Nat \subseteq P
  <2> HIDE DEF P
  <2> QED
    BY <1>1, <1>2, CountingUp
<1>4. \A x \in 0 .. top : w[x] \in T
  BY <1>3
<1>5. w \in [0 .. top -> T]
  BY <1>4
<1>6. \A n \in 1 .. top : w[n] = step[n][w[n - 1]]
  <2> TAKE n \in 1 .. top
  <2>1. n - 1 \in 0 .. top
    OBVIOUS
  <2> QED
    BY <1>4, <2>1
<1> QED
  BY <1>5, <1>6 DEF Computed

-----------------------------------------------------------------------------
(* What the search finds *)

\* D is dead as far as X is, while m is examined and S must stay: what is in D
\* is referred to only from D and X.
DeadWithin(D, X, m, S) ==
  \A d \in D \ X :
    /\ Kind[d] # "method"
    /\ Kind[d] \in {"init", "entry"} => d \notin S
    /\ Kind[d] \in {"var", "fn"} =>
         \A e \in References(d) : PassedOver(e, m, d) \/ e \in D \cup X

\* What the search takes for dead without looking at it.
Vouched(m, known, checking) == {d \in Defs : d \in known \/ DeadEnd(d, m, checking)}

DeadIn(m, known, checking) ==
  {d \in Defs : \E D \in SUBSET Defs :
     d \in D /\ DeadWithin(D, Vouched(m, known, checking), m, statically)}

\* is_fn_dead and is_var_dead without the order of their cases.
LEMMA JudgedCases ==
  ASSUME NEW d \in Defs, NEW R
  PROVE  Judged(d, R) <=>
           /\ Kind[d] # "method"
           /\ Kind[d] \in {"init", "entry"} => d \notin statically
           /\ Kind[d] \in {"var", "fn"} => References(d) = R
<1>1. Kind[d] \in {"var", "const", "fn", "init", "entry", "method"}
  BY KindAssumption
<1> QED
  BY <1>1 DEF Judged

\* The greatest such set is one itself.
LEMMA DeadInWithin ==
  ASSUME NEW m, NEW known, NEW checking
  PROVE  DeadWithin(DeadIn(m, known, checking), Vouched(m, known, checking), m, statically)
<1> DEFINE X == Vouched(m, known, checking)
           U == DeadIn(m, known, checking)
<1> SUFFICES ASSUME NEW d \in U \ X
             PROVE  /\ Kind[d] # "method"
                    /\ Kind[d] \in {"init", "entry"} => d \notin statically
                    /\ Kind[d] \in {"var", "fn"} =>
                         \A e \in References(d) : PassedOver(e, m, d) \/ e \in U \cup X
  BY DEF DeadWithin
<1>1. PICK D \in SUBSET Defs : d \in D /\ DeadWithin(D, X, m, statically)
  BY DEF DeadIn
<1>2. D \subseteq U
  BY <1>1 DEF DeadIn
<1> HIDE DEF X, U
<1> QED
  BY <1>1, <1>2 DEF DeadWithin

\* It satisfies the equation by which is_dead searches.
LEMMA DeadInUnfold ==
  ASSUME NEW m, NEW known, NEW checking \in SUBSET Defs, NEW d \in Defs
  PROVE  d \in DeadIn(m, known, checking) <=>
           \/ d \in known
           \/ DeadEnd(d, m, checking)
           \/ Judged(d, {e \in References(d) :
                PassedOver(e, m, d) \/ e \in DeadIn(m, known, checking \cup {d})})
<1> DEFINE X == Vouched(m, known, checking)
           Y == Vouched(m, known, checking \cup {d})
           U == DeadIn(m, known, checking \cup {d})
           R == {e \in References(d) : PassedOver(e, m, d) \/ e \in U}
<1>a. References(d) \subseteq Defs
  BY DEF References
<1>b. X \subseteq Y /\ Y \subseteq X \cup {d} /\ Y \subseteq Defs /\ U \subseteq Defs
  BY DEF Vouched, DeadEnd, DeadIn
<1>c. d \in X <=> d \in known \/ DeadEnd(d, m, checking)
  BY DEF Vouched
<1>1. ASSUME d \in DeadIn(m, known, checking), d \notin X
      PROVE  Judged(d, R)
  <2>1. PICK D \in SUBSET Defs : d \in D /\ DeadWithin(D, X, m, statically)
    BY <1>1 DEF DeadIn
  <2>2. DeadWithin(D \cup X, Y, m, statically)
    <3> HIDE DEF X, Y, U
    <3> QED
      BY <2>1, <1>b DEF DeadWithin
  <2>3. D \cup X \subseteq U
    <3>1. D \cup X \in SUBSET Defs
      BY <1>b
    <3> HIDE DEF X
    <3> QED
      BY <2>2, <3>1 DEF DeadIn
  <2>4. /\ Kind[d] # "method"
        /\ Kind[d] \in {"init", "entry"} => d \notin statically
        /\ Kind[d] \in {"var", "fn"} =>
             \A e \in References(d) : PassedOver(e, m, d) \/ e \in D \cup X
    <3> HIDE DEF X
    <3> QED
      BY <2>1, <1>1 DEF DeadWithin
  <2>5. Kind[d] \in {"var", "fn"} => References(d) = R
    <3> HIDE DEF X, U
    <3> QED
      BY <2>3, <2>4
  <2> HIDE DEF X, U, R
  <2> QED
    BY <2>4, <2>5, JudgedCases
<1>2. ASSUME d \in X
      PROVE  d \in DeadIn(m, known, checking)
  <2>1. DeadWithin({d}, X, m, statically)
    <3> HIDE DEF X
    <3> QED
      BY <1>2 DEF DeadWithin
  <2> QED
    BY <2>1 DEF DeadIn
<1>3. ASSUME Judged(d, R)
      PROVE  d \in DeadIn(m, known, checking)
  <2>1. /\ Kind[d] # "method"
        /\ Kind[d] \in {"init", "entry"} => d \notin statically
        /\ Kind[d] \in {"var", "fn"} => References(d) = R
    <3> HIDE DEF R
    <3> QED
      BY <1>3, JudgedCases
  <2>2. Kind[d] \in {"var", "fn"} => \A e \in References(d) : PassedOver(e, m, d) \/ e \in U
    <3> HIDE DEF U
    <3> QED
      BY <2>1
  <2>3. DeadWithin(U, Y, m, statically)
    BY DeadInWithin
  <2>4. DeadWithin(U \cup {d}, X, m, statically)
    <3> HIDE DEF U, Y, X
    <3> QED
      BY <2>1, <2>2, <2>3, <1>b DEF DeadWithin
  <2>5. U \cup {d} \in SUBSET Defs
    BY <1>b
  <2> HIDE DEF U
  <2> QED
    BY <2>4, <2>5 DEF DeadIn
<1> HIDE DEF R, X, U
<1>4. d \in DeadIn(m, known, checking) <=>
        d \in known \/ DeadEnd(d, m, checking) \/ Judged(d, R)
  BY <1>1, <1>2, <1>3, <1>c
<1> QED
  BY <1>4 DEF R, U

\* is_dead finds exactly that set: the search along paths without repetition
\* misses nothing.
LEMMA IsDeadMeaning ==
  ASSUME NEW m, NEW known, NEW d \in Defs
  PROVE  IsDead(m, known)[{}][d] <=> d \in DeadIn(m, known, {})
<1> DEFINE Body(f, checking, x) ==
             \/ x \in known
             \/ DeadEnd(x, m, checking)
             \/ Judged(x, {e \in References(x) :
                             PassedOver(e, m, x) \/ f[checking \cup {x}][e]})
           Step(f) == [checking \in SUBSET Defs |-> [x \in Defs |-> Body(f, checking, x)]]
           g == [checking \in SUBSET Defs |-> [x \in Defs |-> x \in DeadIn(m, known, checking)]]
           dead == CHOOSE f : f = Step(f)
<1>1. \A checking \in SUBSET Defs : \A x \in Defs :
        g[checking][x] <=> x \in DeadIn(m, known, checking)
  OBVIOUS
<1>2. \A checking \in SUBSET Defs : \A x \in Defs : g[checking][x] <=> Body(g, checking, x)
  <2> TAKE checking \in SUBSET Defs
  <2> TAKE x \in Defs
  <2> DEFINE R == {e \in References(x) :
                     PassedOver(e, m, x) \/ e \in DeadIn(m, known, checking \cup {x})}
             Q == {e \in References(x) : PassedOver(e, m, x) \/ g[checking \cup {x}][e]}
  <2>1. R = Q
    <3>1. checking \cup {x} \in SUBSET Defs
      OBVIOUS
    <3>2. References(x) \subseteq Defs
      BY DEF References
    <3> HIDE DEF g
    <3> QED
      BY <3>1, <3>2, <1>1
  <2>2. x \in DeadIn(m, known, checking) <=>
          x \in known \/ DeadEnd(x, m, checking) \/ Judged(x, R)
    BY DeadInUnfold
  <2>3. Body(g, checking, x) <=> x \in known \/ DeadEnd(x, m, checking) \/ Judged(x, Q)
    OBVIOUS
  <2> HIDE DEF g, R, Q, Body
  <2> QED
    BY <2>1, <2>2, <2>3, <1>1
<1>3. g = Step(g)
  <2>1. \A checking \in SUBSET Defs :
          g[checking] = [x \in Defs |-> Body(g, checking, x)]
    <3> TAKE checking \in SUBSET Defs
    <3>1. g[checking] = [x \in Defs |-> x \in DeadIn(m, known, checking)]
      OBVIOUS
    <3>2. \A x \in Defs : (x \in DeadIn(m, known, checking)) = Body(g, checking, x)
      <4> TAKE x \in Defs
      <4>1. Body(g, checking, x) \in BOOLEAN
        OBVIOUS
      <4> HIDE DEF g, Body
      <4> QED
        BY <4>1, <1>1, <1>2
    <3> HIDE DEF g, Body
    <3> QED
      BY <3>1, <3>2
  <2>2. g = [checking \in SUBSET Defs |-> g[checking]]
    OBVIOUS
  <2> HIDE DEF g, Body
  <2> QED
    BY <2>1, <2>2
<1>4. dead = Step(dead)
  <2> HIDE DEF g, Step
  <2> QED
    BY <1>3
<1>5. \A checking \in SUBSET Defs : \A x \in Defs : dead[checking][x] <=> Body(dead, checking, x)
  <2> HIDE DEF dead, Body
  <2>1. \A checking \in SUBSET Defs : \A x \in Defs :
          Step(dead)[checking][x] = Body(dead, checking, x)
    OBVIOUS
  <2> HIDE DEF Step
  <2> QED
    BY <2>1, <1>4
<1> DEFINE Bad == {checking \in SUBSET Defs : \E x \in Defs : ~(dead[checking][x] <=> g[checking][x])}
           F == {Defs \ checking : checking \in Bad}
<1>6. Bad = {}
  <2> SUFFICES ASSUME Bad # {}
               PROVE  FALSE
    OBVIOUS
  <2>1. F # {} /\ \A A \in F : A \in SUBSET Defs
    OBVIOUS
  <2>2. \A A \in F : IsFiniteSet(A) /\ A \subseteq Defs
    <3> HIDE DEF F
    <3> QED
      BY <2>1, DefsAssumption, FS_Subset
  <2>3. \E A \in F : \A B \in F : B \subseteq A => B = A
    <3> HIDE DEF F
    <3> QED
      BY <2>1, <2>2, Minimal
  <2>4. PICK checking \in Bad : \A c \in Bad : Defs \ c \subseteq Defs \ checking => Defs \ c = Defs \ checking
    <3>1. PICK A \in F : \A B \in F : B \subseteq A => B = A
      BY <2>3
    <3>2. PICK checking \in Bad : A = Defs \ checking
      OBVIOUS
    <3>3. \A c \in Bad : Defs \ c \in F
      OBVIOUS
    <3>4. \A c \in Bad : Defs \ c \subseteq Defs \ checking => Defs \ c = Defs \ checking
      <4> TAKE c \in Bad
      <4>1. Defs \ c \in F
        BY <3>3
      <4> HIDE DEF Bad, F
      <4> QED
        BY <4>1, <3>1, <3>2
    <3> HIDE DEF Bad, F
    <3> QED
      BY <3>2, <3>4
  <2>5. PICK x \in Defs : ~(dead[checking][x] <=> g[checking][x])
    BY <2>4
  <2> HIDE DEF dead, g
  <2>6. checking \in SUBSET Defs
    OBVIOUS
  <2>7. ~(Body(dead, checking, x) <=> Body(g, checking, x))
    <3> HIDE DEF Body
    <3> QED
      BY <2>5, <2>6, <1>2, <1>5
  <2> DEFINE Q(f) == {e \in References(x) : PassedOver(e, m, x) \/ f[checking \cup {x}][e]}
  <2>8. ~DeadEnd(x, m, checking) /\ ~(Judged(x, Q(dead)) <=> Judged(x, Q(g)))
    BY <2>7
  <2>9. Kind[x] \in {"var", "fn"} /\ Q(dead) # Q(g)
    <3>1. ~(References(x) = Q(dead) <=> References(x) = Q(g)) /\ Kind[x] \in {"var", "fn"}
      <4> HIDE DEF Q
      <4> QED
        BY <2>8, JudgedCases
    <3> HIDE DEF Q
    <3> QED
      BY <3>1
  <2>10. x \notin checking
    BY <2>8, <2>9 DEF DeadEnd
  <2>11. checking \cup {x} \in SUBSET Defs /\ checking \cup {x} \notin Bad
    <3>1. Defs \ (checking \cup {x}) # Defs \ checking
      BY <2>10
    <3>2. Defs \ (checking \cup {x}) \subseteq Defs \ checking
      OBVIOUS
    <3> QED
      BY <2>4, <2>6, <3>1, <3>2
  <2>12. \A e \in Defs : dead[checking \cup {x}][e] <=> g[checking \cup {x}][e]
    BY <2>11
  <2>13. References(x) \subseteq Defs
    BY DEF References
  <2>14. Q(dead) = Q(g)
    BY <2>12, <2>13
  <2> QED
    BY <2>9, <2>14
<1>7. {} \in SUBSET Defs
  OBVIOUS
<1>8. IsDead(m, known) = dead
  BY DEF IsDead
<1> HIDE DEF g, dead
<1>9. dead[{}][d] <=> g[{}][d]
  BY <1>6, <1>7
<1> QED
  BY <1>1, <1>7, <1>8, <1>9

-----------------------------------------------------------------------------
(* What is dead *)

\* The definitions of D need not stay as long as the init functions and the
\* entry point in S do: only members of D refer to them.
Unneeded(D, S) ==
  \A d \in D :
    /\ Kind[d] # "method"
    /\ Kind[d] \in {"init", "entry"} => d \notin S
    /\ Kind[d] \in {"var", "fn"} => References(d) \subseteq D

Dead(S) == {d \in Defs : \E D \in SUBSET Defs : d \in D /\ Unneeded(D, S)}

\* The greatest set of its kind is of its kind.
LEMMA DeadUnneeded ==
  ASSUME NEW S
  PROVE  Unneeded(Dead(S), S)
<1> SUFFICES ASSUME NEW d \in Dead(S)
             PROVE  /\ Kind[d] # "method"
                    /\ Kind[d] \in {"init", "entry"} => d \notin S
                    /\ Kind[d] \in {"var", "fn"} => References(d) \subseteq Dead(S)
  BY DEF Unneeded
<1>1. PICK D \in SUBSET Defs : d \in D /\ Unneeded(D, S)
  BY DEF Dead
<1>2. D \subseteq Dead(S)
  BY <1>1 DEF Dead
<1> QED
  BY <1>1, <1>2 DEF Unneeded

\* The more must stay, the less is dead.
LEMMA DeadLess ==
  ASSUME NEW S, NEW T, S \subseteq T
  PROVE  Dead(T) \subseteq Dead(S)
<1>1. \A D \in SUBSET Defs : Unneeded(D, T) => Unneeded(D, S)
  BY DEF Unneeded
<1> QED
  BY <1>1 DEF Dead

\* What the search is asked for finds every dead definition.
LEMMA DeadIsFound ==
  ASSUME NEW m, NEW known
  PROVE  \A d \in Dead(statically) : IsDead(m, known)[{}][d]
<1> TAKE d \in Dead(statically)
<1>1. DeadWithin(Dead(statically), Vouched(m, known, {}), m, statically)
  BY DeadUnneeded DEF Unneeded, DeadWithin
<1>2. d \in DeadIn(m, known, {})
  BY <1>1 DEF DeadIn, Dead
<1> QED
  BY <1>2, IsDeadMeaning DEF Dead

\* When eliminate asks of a definition whether it is dead, and what it has
\* marked so far is, the answer is right.
LEMMA ExamineIsRight ==
  ASSUME NEW known, known \subseteq Dead(statically), NEW d \in Defs
  PROVE  Judged(d, {e \in References(d) : e = d \/ IsDead(d, known)[{}][e]})
           <=> d \in Dead(statically)
<1> DEFINE R == {e \in References(d) : e = d \/ IsDead(d, known)[{}][e]}
           X == Vouched(d, known, {})
           U == DeadIn(d, known, {})
           Z == Dead(statically)
<1>a. References(d) \subseteq Defs /\ Z \subseteq Defs /\ U \subseteq Defs
  BY DEF References, Dead, DeadIn
<1>b. X \subseteq Z \cup {d}
  BY DEF Vouched, DeadEnd
<1>1. ASSUME d \in Z
      PROVE  Judged(d, R)
  <2>1. Unneeded(Z, statically)
    BY DeadUnneeded
  <2>2. \A e \in Z : IsDead(d, known)[{}][e]
    BY DeadIsFound
  <2>3. Kind[d] \in {"var", "fn"} => References(d) = R
    <3> HIDE DEF Z
    <3> QED
      BY <1>1, <2>1, <2>2 DEF Unneeded
  <2>4. Kind[d] # "method" /\ (Kind[d] \in {"init", "entry"} => d \notin statically)
    BY <1>1, <2>1 DEF Unneeded
  <2> HIDE DEF R
  <2> QED
    BY <2>3, <2>4, JudgedCases
<1>2. ASSUME Judged(d, R)
      PROVE  d \in Z
  <2>1. /\ Kind[d] # "method"
        /\ Kind[d] \in {"init", "entry"} => d \notin statically
        /\ Kind[d] \in {"var", "fn"} => References(d) = R
    <3> HIDE DEF R
    <3> QED
      BY <1>2, JudgedCases
  <2>2. \A e \in R : e = d \/ e \in U
    BY <1>a, IsDeadMeaning
  <2>3. Kind[d] \in {"var", "fn"} => References(d) \subseteq U \cup {d}
    <3> HIDE DEF R, U
    <3> QED
      BY <2>1, <2>2
  <2>4. DeadWithin(U, X, d, statically)
    BY DeadInWithin
  <2>5. Unneeded(Z, statically)
    BY DeadUnneeded
  <2> DEFINE D == U \cup {d} \cup Z
  <2>6. ASSUME NEW x \in D
        PROVE  /\ Kind[x] # "method"
               /\ Kind[x] \in {"init", "entry"} => x \notin statically
               /\ Kind[x] \in {"var", "fn"} => References(x) \subseteq D
    <3>1. CASE x \in Z
      <4> HIDE DEF Z, U
      <4> QED
        BY <3>1, <2>5 DEF Unneeded
    <3>2. CASE x = d
      <4> HIDE DEF Z, U
      <4> QED
        BY <3>2, <2>1, <2>3
    <3>3. CASE x \in U /\ x \notin X
      <4>1. \A e \in References(x) : PassedOver(e, d, x) => e = d
        BY DEF PassedOver
      <4> HIDE DEF Z, U, X
      <4> QED
        BY <3>3, <4>1, <2>4, <1>b DEF DeadWithin
    <3> HIDE DEF Z, U, X
    <3> QED
      BY <3>1, <3>2, <3>3, <1>b
  <2>7. Unneeded(D, statically)
    <3> HIDE DEF D
    <3> QED
      BY <2>6 DEF Unneeded
  <2>8. D \in SUBSET Defs /\ d \in D
    BY <1>a
  <2> HIDE DEF D
  <2> QED
    BY <2>7, <2>8 DEF Dead
<1> HIDE DEF R, Z
<1>3. Judged(d, R) <=> d \in Z
  BY <1>1, <1>2
<1> QED
  BY <1>3 DEF R, Z

-----------------------------------------------------------------------------
(* The inductive invariant *)

Examined ==
  {d \in Defs : \E n \in 1 .. Len(Order) : \E x \in 1 .. Len(Work[Order[n]]) :
     Work[Order[n]][x] = d /\ (n < turn \/ (n = turn /\ x < at))}

\* What has been removed is what is dead among what has been examined.
DInv ==
  /\ TypeOK
  /\ mentions \in Programs
  /\ deads \subseteq removed
  /\ removed = Examined \cap Dead(statically)
  /\ \A d \in Members(Work[MainPackage]) :
       Kind[d] \in {"init", "entry"} => d \in statically

\* The packages and what stands in them.
LEMMA Places ==
  /\ Len(Order) \in Nat \ {0}
  /\ \A n \in 1 .. Len(Order) : /\ Work[Order[n]] \in Seq(Defs)
                                /\ Len(Work[Order[n]]) \in Nat
                                /\ PackageAt(n) \subseteq Defs
  /\ MainPackage = Order[Len(Order)]
  /\ Members(Work[MainPackage]) = PackageAt(Len(Order))
<1>1. Len(Order) \in Nat \ {0}
  BY OrderAssumption
<1>2. \A n \in 1 .. Len(Order) : Work[Order[n]] \in Seq(Defs)
  BY WorkAssumption
<1>3. \A l \in Seq(Defs) : Len(l) \in Nat /\ Members(l) \subseteq Defs
  BY DEF Members
<1> QED
  BY <1>1, <1>2, <1>3 DEF MainPackage, PackageAt

\* No definition stands in two packages.
LEMMA OnePackage ==
  ASSUME NEW m \in 1 .. Len(Order), NEW n \in 1 .. Len(Order),
         NEW d \in PackageAt(m), d \in PackageAt(n)
  PROVE  m = n
<1>1. PICK x \in 1 .. Len(Work[Order[m]]) : d = Work[Order[m]][x]
  BY DEF PackageAt, Members
<1>2. PICK y \in 1 .. Len(Work[Order[n]]) : d = Work[Order[n]][y]
  BY DEF PackageAt, Members
<1> QED
  BY <1>1, <1>2, WorkAssumption

\* At the start nothing has been examined.
LEMMA InitDead == Init => DInv
<1> SUFFICES ASSUME Init
             PROVE  DInv
  OBVIOUS
<1>1. mentions \in Programs /\ mentions \in [Defs -> Seq(Defs)]
  BY MentionAssumption DEF Init
<1>2. turn = 1 /\ turn \in 1 .. Len(Order) + 1 /\ at = 0 /\ at \in Nat
  BY Places DEF Init
<1>3. Examined = {}
  BY <1>2, Places DEF Examined
<1>4. Members(Work[MainPackage]) \subseteq Defs
  BY Places
<1>5. TypeOK
  BY <1>1, <1>2, <1>4 DEF Init, TypeOK
<1>6. deads = {} /\ removed = {}
  BY DEF Init
<1>7. \A d \in Members(Work[MainPackage]) :
        Kind[d] \in {"init", "entry"} => d \in statically
  BY DEF Init
<1> QED
  BY <1>1, <1>3, <1>5, <1>6, <1>7 DEF DInv

\* A step of eliminate does not change the program, so what is dead depends on
\* the init functions that stay alone.
LEMMA DeadStays ==
  ASSUME UNCHANGED mentions
  PROVE  Dead(statically)' = Dead(statically')
BY DEF Dead, Unneeded, References

\* What has been removed stays dead when another init function must stay: it
\* can be mentioned only from packages before this one and from main.
LEMMA CatchInitDead == DInv /\ CatchInit => DInv'
<1> SUFFICES ASSUME DInv, CatchInit
             PROVE  DInv'
  OBVIOUS
<1> DEFINE Added == {d \in InitOf(Package) :
                       \E e \in Members(mentions[d]) : ~IsDead(main_current, {})[{}][e]}
<1>1. /\ turn \in 1 .. Len(Order) /\ at = 0 /\ at' = 1 /\ deads' = {}
      /\ statically' = statically \cup Added
      /\ UNCHANGED <<mentions, main_current, removed, turn>>
  BY Places DEF CatchInit, DInv, TypeOK, Eliminating
<1>2. PackageAt(turn) \subseteq Defs /\ Package = Order[turn]
  BY <1>1, Places DEF Package
<1>3. Added \subseteq {d \in PackageAt(turn) : Kind[d] = "init"}
  BY <1>2 DEF InitOf, PackageAt
<1> HIDE DEF Added
<1>4. TypeOK'
  <2>1. statically' \in SUBSET {d \in Defs : Kind[d] \in {"init", "entry"}}
    BY <1>1, <1>2, <1>3 DEF DInv, TypeOK
  <2> QED
    BY <1>1, <2>1 DEF DInv, TypeOK
<1>5. Examined' = Examined
  BY <1>1 DEF Examined
<1> DEFINE Early == {d \in Defs : \E n \in 1 .. Len(Order) :
                       d \in PackageAt(n) /\ (n < turn \/ n = Len(Order))}
           D == Early \cap Dead(statically)
<1>6. Examined \subseteq Early
  <2> SUFFICES ASSUME NEW d \in Examined
               PROVE  d \in Early
    OBVIOUS
  <2>1. PICK n \in 1 .. Len(Order) :
          \E x \in 1 .. Len(Work[Order[n]]) : Work[Order[n]][x] = d /\ n < turn
    BY <1>1, Places DEF Examined
  <2>2. d \in PackageAt(n)
    BY <2>1 DEF PackageAt, Members
  <2> QED
    BY <2>1, <2>2 DEF Examined
<1>7. Unneeded(Dead(statically), statically) /\ Dead(statically) \subseteq Defs
  BY DeadUnneeded DEF Dead
<1>8. ASSUME NEW d \in D
      PROVE  /\ Kind[d] # "method"
             /\ Kind[d] \in {"init", "entry"} => d \notin statically'
             /\ Kind[d] \in {"var", "fn"} => References(d) \subseteq D
  <2>1. PICK n \in 1 .. Len(Order) : d \in PackageAt(n) /\ (n < turn \/ n = Len(Order))
    BY <1>8
  <2>2. d \in Dead(statically) /\ d \in Defs
    BY <1>8
  <2>3. d \notin Added
    <3> SUFFICES ASSUME d \in Added
                 PROVE  FALSE
      OBVIOUS
    <3>1. n = turn
      BY <1>1, <1>3, <2>1, OnePackage
    <3>2. d \in Members(Work[MainPackage]) /\ Kind[d] = "init"
      BY <1>1, <1>3, <2>1, <3>1, Places
    <3>3. d \in statically
      BY <3>2 DEF DInv
    <3> QED
      BY <1>7, <2>2, <3>2, <3>3 DEF Unneeded
  <2>4. ASSUME Kind[d] \in {"var", "fn"}, NEW e \in References(d)
        PROVE  e \in D
    <3>1. e \in Dead(statically) /\ e \in Defs
      BY <2>2, <2>4, <1>7 DEF Unneeded
    <3>2. Kind[e] # "method"
      BY <3>1, <1>7 DEF Unneeded
    <3>3. PICK o \in 1 .. Len(Order) : e \in PackageAt(o)
      BY <3>1, <3>2, WorkAssumption
    <3>4. d \in Members(mentions[e])
      BY DEF References
    <3>5. o = Len(Order) \/ (o <= n /\ n # Len(Order))
      BY <2>1, <3>3, <3>4, MentionAssumption DEF DInv
    <3>6. o = Len(Order) \/ o < turn
      BY <1>1, <2>1, <3>5
    <3> QED
      BY <3>1, <3>3, <3>6
  <2> HIDE DEF D, Early
  <2> QED
    BY <1>1, <1>7, <2>2, <2>3, <2>4 DEF Unneeded
<1>9. D \subseteq Dead(statically')
  <2>1. Unneeded(D, statically') /\ D \in SUBSET Defs
    <3>1. D \in SUBSET Defs
      OBVIOUS
    <3> HIDE DEF D
    <3> QED
      BY <1>8, <3>1 DEF Unneeded
  <2> HIDE DEF D
  <2> QED
    BY <2>1 DEF Dead
<1>10. Dead(statically') \subseteq Dead(statically)
  BY <1>1, DeadLess
<1>11. removed' = Examined' \cap Dead(statically)'
  <2>1. Dead(statically)' = Dead(statically')
    BY <1>1, DeadStays
  <2>2. Examined \cap Dead(statically') = Examined \cap Dead(statically)
    <3> HIDE DEF Early
    <3> QED
      BY <1>6, <1>9, <1>10
  <2> QED
    BY <1>1, <1>5, <2>1, <2>2 DEF DInv
<1>12. \A d \in Members(Work[MainPackage]) :
         Kind[d] \in {"init", "entry"} => d \in statically'
  BY <1>1 DEF DInv
<1> QED
  BY <1>1, <1>4, <1>11, <1>12 DEF DInv

\* The definition at hand is removed exactly when it is dead.
LEMMA ExamineDead == DInv /\ Examine => DInv'
<1> SUFFICES ASSUME DInv, Examine
             PROVE  DInv'
  OBVIOUS
<1> DEFINE d == Work[Package][at]
           dead == Judged(d, {e \in References(d) : e = d \/ IsDead(d, deads)[{}][e]})
<1>1. /\ turn \in 1 .. Len(Order) /\ at \in 1 .. Len(Work[Package]) /\ at' = at + 1
      /\ main_current' = d
      /\ deads' = IF dead THEN deads \cup {d} ELSE deads
      /\ removed' = IF dead THEN removed \cup {d} ELSE removed
      /\ UNCHANGED <<mentions, statically, turn>>
  BY Places DEF Examine, DInv, TypeOK, Eliminating
<1>2. d \in Defs
  BY <1>1, Places DEF Package
<1>3. deads \subseteq Dead(statically)
  BY DEF DInv
<1>4. dead <=> d \in Dead(statically)
  BY <1>2, <1>3, ExamineIsRight
<1> HIDE DEF dead
<1>5. Examined' = Examined \cup {d}
  <2>1. ASSUME NEW n \in 1 .. Len(Order), NEW x \in 1 .. Len(Work[Order[n]])
        PROVE  (n < turn \/ (n = turn /\ x < at + 1))
                 <=> (n < turn \/ (n = turn /\ x < at)) \/ (n = turn /\ x = at)
    <3>1. x \in Nat
      BY Places
    <3> QED
      BY <1>1, <3>1 DEF DInv, TypeOK
  <2>2. Examined' = {y \in Defs : \E n \in 1 .. Len(Order) : \E x \in 1 .. Len(Work[Order[n]]) :
                       Work[Order[n]][x] = y /\ (n < turn \/ (n = turn /\ x < at + 1))}
    BY <1>1 DEF Examined
  <2>3. Examined' = {y \in Defs : \E n \in 1 .. Len(Order) : \E x \in 1 .. Len(Work[Order[n]]) :
                       /\ Work[Order[n]][x] = y
                       /\ (n < turn \/ (n = turn /\ x < at)) \/ (n = turn /\ x = at)}
    BY <2>1, <2>2
  <2> QED
    BY <1>1, <1>2, <2>3 DEF Examined, Package
<1> HIDE DEF d
<1>6. TypeOK'
  BY <1>1, <1>2 DEF DInv, TypeOK
<1>7. Dead(statically)' = Dead(statically)
  <2>1. Dead(statically)' = Dead(statically')
    BY <1>1, DeadStays
  <2> QED
    BY <1>1, <2>1
<1>8. removed' = Examined' \cap Dead(statically)'
  BY <1>1, <1>4, <1>5, <1>7 DEF DInv
<1> QED
  BY <1>1, <1>6, <1>8 DEF DInv

\* The end of a package is the beginning of the next.
LEMMA NextPackageDead == DInv /\ NextPackage => DInv'
<1> SUFFICES ASSUME DInv, NextPackage
             PROVE  DInv'
  OBVIOUS
<1>1. /\ turn \in 1 .. Len(Order) /\ at > Len(Work[Order[turn]]) /\ turn' = turn + 1 /\ at' = 0
      /\ UNCHANGED <<mentions, statically, deads, main_current, removed>>
  BY Places DEF NextPackage, DInv, TypeOK, Eliminating, Package
<1>2. TypeOK'
  BY <1>1, Places DEF DInv, TypeOK
<1>3. Examined' = Examined
  <2>1. ASSUME NEW n \in 1 .. Len(Order), NEW x \in 1 .. Len(Work[Order[n]])
        PROVE  (n < turn + 1 \/ (n = turn + 1 /\ x < 0)) <=> (n < turn \/ (n = turn /\ x < at))
    BY <1>1, Places DEF DInv, TypeOK
  <2>2. Examined' = {y \in Defs : \E n \in 1 .. Len(Order) : \E x \in 1 .. Len(Work[Order[n]]) :
                       Work[Order[n]][x] = y /\ (n < turn + 1 \/ (n = turn + 1 /\ x < 0))}
    BY <1>1 DEF Examined
  <2> QED
    BY <2>1, <2>2 DEF Examined
<1>4. Dead(statically)' = Dead(statically)
  <2>1. Dead(statically)' = Dead(statically')
    BY <1>1, DeadStays
  <2> QED
    BY <1>1, <2>1
<1> QED
  BY <1>1, <1>2, <1>3, <1>4 DEF DInv

LEMMA StutterDead == DInv /\ UNCHANGED vars => DInv'
<1> SUFFICES ASSUME DInv, UNCHANGED vars
             PROVE  DInv'
  OBVIOUS
<1>1. Dead(statically)' = Dead(statically)
  <2>1. Dead(statically)' = Dead(statically')
    BY DeadStays DEF vars
  <2> QED
    BY <2>1 DEF vars
<1>2. TypeOK' /\ Examined' = Examined
  BY DEF DInv, TypeOK, Examined, vars
<1> QED
  BY <1>1, <1>2 DEF DInv, vars

LEMMA NextDead == DInv /\ [Next]_vars => DInv'
  BY CatchInitDead, ExamineDead, NextPackageDead, StutterDead DEF Next

-----------------------------------------------------------------------------
(* What is kept *)

\* When the elimination is over every definition but the methods has been
\* examined.
LEMMA AllExamined ==
  ASSUME DInv, Eliminated, NEW d \in Defs, Kind[d] # "method"
  PROVE  d \in Examined
<1>1. turn > Len(Order)
  BY Places DEF DInv, TypeOK, Eliminated, Eliminating
<1>2. PICK n \in 1 .. Len(Order) : d \in PackageAt(n)
  BY WorkAssumption
<1>3. PICK x \in 1 .. Len(Work[Order[n]]) : Work[Order[n]][x] = d
  BY <1>2 DEF PackageAt, Members
<1>4. n < turn
  BY <1>1, Places DEF DInv, TypeOK
<1> QED
  BY <1>3, <1>4 DEF Examined

\* So the dead definitions are gone, and no others.
LEMMA RemovedIsDead ==
  ASSUME DInv, Eliminated
  PROVE  removed = Dead(statically)
<1>1. \A d \in Dead(statically) : d \in Defs /\ Kind[d] # "method"
  BY DeadUnneeded DEF Unneeded, Dead
<1> QED
  BY <1>1, AllExamined DEF DInv

\* A kept definition mentions no removed one, unless it calls an init function
\* (or a function main of another package), which nothing in eliminate keeps.
ClosedButForInit ==
  Eliminated =>
    \A d \in Kept : \A e \in Members(mentions[d]) :
      e \in Kept \/ Kind[e] = "const" \/ (Kind[e] \in {"init", "entry"} /\ e \notin statically)

LEMMA KeptIsClosed ==
  ASSUME DInv
  PROVE  ClosedButForInit
<1> SUFFICES ASSUME Eliminated, NEW d \in Kept, NEW e \in Members(mentions[d]), e \notin Kept
             PROVE  Kind[e] = "const" \/ (Kind[e] \in {"init", "entry"} /\ e \notin statically)
  BY DEF ClosedButForInit
<1>1. d \in Defs /\ e \in Defs
  BY DEF Kept, DInv, TypeOK, Members
<1>2. e \in Dead(statically) /\ d \notin Dead(statically)
  BY <1>1, RemovedIsDead DEF Kept
<1>3. Unneeded(Dead(statically), statically)
  BY DeadUnneeded
<1>4. d \in References(e)
  BY <1>1 DEF References
<1>5. Kind[e] \in {"var", "const", "fn", "init", "entry", "method"}
  BY <1>1, KindAssumption
<1> QED
  BY <1>2, <1>3, <1>4, <1>5 DEF Unneeded

\* No program calls an init function or main.
Uncalled ==
  \A p \in Programs : \A d \in Defs : \A e \in Members(p[d]) : Kind[e] \notin {"init", "entry"}

LEMMA UncalledIsClosed ==
  ASSUME DInv, Uncalled
  PROVE  Closed
<1> SUFFICES ASSUME Eliminated, NEW d \in Kept, NEW e \in Members(mentions[d])
             PROVE  e \in Kept \/ Kind[e] = "const"
  BY DEF Closed
<1>1. Kind[e] \notin {"init", "entry"}
  BY DEF Uncalled, DInv, Kept
<1> QED
  BY <1>1, KeptIsClosed DEF ClosedButForInit

-----------------------------------------------------------------------------
(* What is reached *)

Grown(X, H) == X \cup ((UNION {Members(mentions[d]) : d \in X}) \ H)

\* The function by which ReachedPast is defined exists, and does what it says.
LEMMA ReachedSteps ==
  ASSUME mentions \in [Defs -> Seq(Defs)], NEW S \in SUBSET Defs, NEW H
  PROVE  \E w \in [0 .. Cardinality(Defs) -> SUBSET Defs] :
           /\ w[0] = S
           /\ \A n \in 1 .. Cardinality(Defs) : w[n] = Grown(w[n - 1], H)
           /\ ReachedPast(S, H) = w[Cardinality(Defs)]
<1> DEFINE size == Cardinality(Defs)
           T == SUBSET Defs
           step == [n \in 1 .. size |-> [X \in T |-> Grown(X, H)]]
           Turn(f) == [x \in 0 .. size |->
                         IF x = 0 THEN S
                         ELSE f[x - 1] \cup ((UNION {Members(mentions[d]) : d \in f[x - 1]}) \ H)]
           w == CHOOSE f : f = Turn(f)
<1>1. size \in Nat
  BY DefsAssumption, FS_CardinalityType
<1>2. \A X \in T : Grown(X, H) \in T
  <2> SUFFICES ASSUME NEW X \in T
               PROVE  Grown(X, H) \in T
    OBVIOUS
  <2>1. \A d \in X : Members(mentions[d]) \subseteq Defs
    BY DEF Members
  <2> QED
    BY <2>1 DEF Grown
<1>3. \A f : f \in [0 .. size -> T] /\ f = Turn(f) => Computed(f, size, T, S, step)
  <2> SUFFICES ASSUME NEW f \in [0 .. size -> T], f = Turn(f)
               PROVE  Computed(f, size, T, S, step)
    OBVIOUS
  <2> HIDE DEF size, T
  <2>1. f[0] = S
    BY <1>1
  <2>2. \A n \in 1 .. size : f[n] = step[n][f[n - 1]]
    <3> TAKE n \in 1 .. size
    <3>1. n \in 0 .. size /\ n - 1 \in 0 .. size /\ n # 0
      BY <1>1
    <3>2. f[n] = Grown(f[n - 1], H)
      BY <3>1 DEF Grown
    <3> QED
      BY <3>1, <3>2
  <2> QED
    BY <2>1, <2>2 DEF Computed
<1>4. PICK f : Computed(f, size, T, S, step)
  <2>1. step \in [1 .. size -> [T -> T]] /\ S \in T
    BY <1>2
  <2> HIDE DEF step, size, T
  <2> QED
    BY <2>1, <1>1, Computes
<1>5. f = Turn(f)
  <2> HIDE DEF T, size
  <2>1. f \in [0 .. size -> T] /\ f[0] = S /\ \A n \in 1 .. size : f[n] = step[n][f[n - 1]]
    BY <1>4 DEF Computed
  <2>2. \A x \in 0 .. size : f[x] = Turn(f)[x]
    <3> TAKE x \in 0 .. size
    <3>1. CASE x = 0
      BY <3>1, <2>1
    <3>2. CASE x # 0
      <4>1. x \in 1 .. size /\ x - 1 \in 0 .. size
        BY <3>2, <1>1
      <4>2. f[x] = Grown(f[x - 1], H)
        BY <4>1, <2>1
      <4> QED
        BY <3>2, <4>2 DEF Grown
    <3> QED
      BY <3>1, <3>2
  <2>3. Turn(f) = [x \in 0 .. size |-> Turn(f)[x]]
    OBVIOUS
  <2> HIDE DEF Turn
  <2> QED
    BY <2>1, <2>2, <2>3
<1>6. w = Turn(w)
  <2> HIDE DEF Turn
  <2> QED
    BY <1>5
<1> HIDE DEF w
<1>7. w = [x \in 0 .. size |-> w[x]] /\ w[0] = S
  <2> HIDE DEF size
  <2> QED
    BY <1>1, <1>6
<1>8. ASSUME NEW n \in 1 .. size
      PROVE  w[n] = Grown(w[n - 1], H)
  <2> HIDE DEF size
  <2>1. n \in 0 .. size /\ n # 0
    BY <1>1
  <2> QED
    BY <1>6, <2>1 DEF Grown
<1>9. Computed(w, size, T, S, step)
  <2>1. step \in [1 .. size -> [T -> T]] /\ S \in T
    BY <1>2
  <2>2. \A n \in 1 .. size : w[n - 1] \in T => w[n] = step[n][w[n - 1]]
    <3> HIDE DEF size, T
    <3> QED
      BY <1>8
  <2> HIDE DEF step, size, T
  <2> QED
    BY <2>1, <2>2, <1>1, <1>7, StaysComputed
<1>10. ReachedPast(S, H) = w[size]
  BY DEF ReachedPast, w
<1> HIDE DEF step, Turn
<1> QED
  BY <1>7, <1>8, <1>9, <1>10 DEF Computed

\* As many rounds as there are definitions reach everything.
LEMMA ReachedIsClosed ==
  ASSUME mentions \in [Defs -> Seq(Defs)], NEW S \in SUBSET Defs
  PROVE  /\ Reached(S) \in SUBSET Defs
         /\ S \subseteq Reached(S)
         /\ \A d \in Reached(S) : Members(mentions[d]) \subseteq Reached(S)
<1> DEFINE size == Cardinality(Defs)
<1>1. PICK w \in [0 .. size -> SUBSET Defs] :
           /\ w[0] = S
           /\ \A n \in 1 .. size : w[n] = Grown(w[n - 1], {})
           /\ Reached(S) = w[size]
  BY ReachedSteps DEF Reached
<1>2. \A n \in 0 .. size : IsFiniteSet(w[n]) /\ w[n] \subseteq Defs /\ Cardinality(w[n]) \in Nat
  <2> TAKE n \in 0 .. size
  <2>1. w[n] \subseteq Defs
    BY <1>1
  <2> QED
    BY <2>1, DefsAssumption, FS_Subset, FS_CardinalityType
<1>3. size \in Nat
  BY DefsAssumption, FS_CardinalityType
<1> HIDE DEF size
<1> DEFINE P == {n \in Nat : n <= size =>
                   S \subseteq w[n] /\ (Grown(w[n], {}) = w[n] \/ Cardinality(w[n]) >= n)}
<1>4. 0 \in P
  BY <1>1, <1>2, <1>3
<1>5. ASSUME NEW n \in Nat, n \in P
      PROVE  n + 1 \in P
  <2> SUFFICES ASSUME n + 1 <= size
               PROVE  /\ S \subseteq w[n + 1]
                      /\ Grown(w[n + 1], {}) = w[n + 1] \/ Cardinality(w[n + 1]) >= n + 1
    OBVIOUS
  <2>1. n \in 0 .. size /\ n + 1 \in 0 .. size /\ w[n + 1] = Grown(w[n], {})
    <3>1. n + 1 \in 1 .. size /\ (n + 1) - 1 = n
      BY <1>3
    <3> QED
      BY <1>1, <1>3, <3>1
  <2>2. w[n] \subseteq w[n + 1]
    BY <2>1 DEF Grown
  <2>3. S \subseteq w[n] /\ (Grown(w[n], {}) = w[n] \/ Cardinality(w[n]) >= n)
    BY <1>5, <1>3
  <2>4. CASE w[n + 1] = w[n]
    BY <2>1, <2>3, <2>4
  <2>5. CASE w[n + 1] # w[n]
    <3>1. Cardinality(w[n]) >= n
      BY <2>1, <2>3, <2>5
    <3>2. /\ Cardinality(w[n]) <= Cardinality(w[n + 1])
          /\ Cardinality(w[n + 1]) # Cardinality(w[n])
      BY <2>1, <2>2, <2>5, <1>2, FS_Subset
    <3>3. Cardinality(w[n]) \in Nat /\ Cardinality(w[n + 1]) \in Nat
      BY <2>1, <1>2
    <3> QED
      BY <2>2, <2>3, <3>1, <3>2, <3>3
  <2> QED
    BY <2>4, <2>5
<1>6. S \subseteq w[size] /\ (Grown(w[size], {}) = w[size] \/ Cardinality(w[size]) >= size)
  <2>1. Nat \subseteq P
    <3> HIDE DEF P
    <3> QED
      BY <1>4, <1>5, CountingUp
  <2> QED
    BY <1>3, <2>1
<1>7. size \in 0 .. size /\ w[size] \subseteq Defs
  BY <1>2, <1>3
<1>8. Grown(w[size], {}) = w[size]
  <2>1. CASE Cardinality(w[size]) >= size
    <3>1. w[size] = Defs
      <4> DEFINE X == w[size]
      <4>1. X \subseteq Defs /\ Cardinality(X) \in Nat /\ Cardinality(X) >= size
        BY <2>1, <1>2, <1>7
      <4> HIDE DEF X
      <4>2. Cardinality(X) <= size /\ (size = Cardinality(X) => Defs = X)
        BY <4>1, DefsAssumption, FS_Subset DEF size
      <4>3. X = Defs
        BY <4>1, <4>2, <1>3
      <4> QED
        BY <4>3 DEF X
    <3>2. \A d \in Defs : Members(mentions[d]) \subseteq Defs
      BY DEF Members
    <3> QED
      BY <3>1, <3>2 DEF Grown
  <2> QED
    BY <1>6, <2>1
<1> QED
  BY <1>1, <1>6, <1>7, <1>8 DEF Grown

\* What cannot be reached from what must stay is dead.
LEMMA NeededIsKept ==
  ASSUME DInv
  PROVE  OnlyNeeded
<1> SUFFICES ASSUME Eliminated, NEW d \in Kept, d \notin Reached(statically \cup NeverRemoved)
             PROVE  FALSE
  BY DEF OnlyNeeded
<1> DEFINE R == Reached(statically \cup NeverRemoved)
           D == Defs \ R
<1>1. R \in SUBSET Defs /\ statically \cup NeverRemoved \subseteq R /\ \A e \in R : Members(mentions[e]) \subseteq R
  <2>1. statically \cup NeverRemoved \in SUBSET Defs /\ mentions \in [Defs -> Seq(Defs)]
    BY DEF DInv, TypeOK, NeverRemoved
  <2> QED
    BY <2>1, ReachedIsClosed
<1> HIDE DEF R
<1>2. Unneeded(D, statically)
  <2> SUFFICES ASSUME NEW x \in D
               PROVE  /\ Kind[x] # "method"
                      /\ Kind[x] \in {"init", "entry"} => x \notin statically
                      /\ References(x) \subseteq D
    BY DEF Unneeded
  <2> QED
    BY <1>1 DEF NeverRemoved, References
<1>3. d \in Defs /\ d \notin Dead(statically)
  BY RemovedIsDead DEF Kept
<1>4. d \in D /\ D \in SUBSET Defs
  BY <1>3 DEF R
<1> QED
  BY <1>2, <1>3, <1>4 DEF Dead

\* Nothing that the search takes for dead while m is examined is reached from the
\* entry point past m, unless through a constant: those are written out in place,
\* and count as dead always.
LEMMA ReachedIsAlive ==
  ASSUME DInv, Uncalled, NEW m, NEW H, m \in H \/ m \notin Defs, Entry \cap H = {},
         NEW D \in SUBSET Defs, DeadWithin(D, Vouched(m, {}, {}), m, statically)
  PROVE  \A e \in ReachedPast(Entry, H) : e \in Defs \ H /\ (e \in D => Kind[e] = "const")
<1>1. mentions \in [Defs -> Seq(Defs)] /\ Entry \in SUBSET Defs /\ Entry \subseteq statically
  BY Places DEF DInv, TypeOK, Entry
<1>2. \A d \in Entry : Kind[d] = "entry"
  BY DEF Entry
<1> DEFINE size == Cardinality(Defs)
           X == Vouched(m, {}, {})
           Seen(e) == e \in Defs \ H /\ (e \in D => Kind[e] = "const")
<1>3. PICK w \in [0 .. size -> SUBSET Defs] :
           /\ w[0] = Entry
           /\ \A n \in 1 .. size : w[n] = Grown(w[n - 1], H)
           /\ ReachedPast(Entry, H) = w[size]
  BY <1>1, ReachedSteps
<1>0. size \in Nat
  BY DefsAssumption, FS_CardinalityType
<1>4. \A d \in Defs \ H : d # m /\ d \notin X
  BY DEF Vouched, DeadEnd
<1> HIDE DEF size, X
<1> DEFINE P == {n \in Nat : n <= size => \A e \in w[n] : Seen(e)}
<1>5. 0 \in P
  <2>1. ASSUME NEW e \in Entry PROVE Seen(e)
    <3>1. e \in Defs \ H /\ e \notin X /\ Kind[e] = "entry" /\ e \in statically
      BY <1>1, <1>2, <1>4
    <3> QED
      BY <3>1 DEF DeadWithin, X
  <2> QED
    BY <1>3, <2>1
<1>6. ASSUME NEW n \in Nat, n \in P
      PROVE  n + 1 \in P
  <2> SUFFICES ASSUME n + 1 <= size
               PROVE  \A e \in w[n + 1] : Seen(e)
    OBVIOUS
  <2>0. n \in 0 .. size /\ n <= size /\ w[n + 1] = Grown(w[n], H)
    <3>1. n + 1 \in 1 .. size /\ (n + 1) - 1 = n
      BY <1>0
    <3> QED
      BY <1>0, <1>3, <3>1
  <2>1. ASSUME NEW e \in w[n + 1], e \notin w[n]
        PROVE  Seen(e)
    <3>1. PICK d \in w[n] : e \in Members(mentions[d]) /\ e \notin H
      BY <2>0, <2>1 DEF Grown
    <3>2. Seen(d) /\ d \in Defs /\ e \in Defs
      <4>1. Members(mentions[d]) \subseteq Defs
        BY <1>1, <1>3, <2>0, <3>1 DEF Members
      <4> QED
        BY <1>6, <2>0, <3>1, <4>1
    <3>3. d # m /\ d \notin X /\ e # m /\ e \notin X
      BY <1>4, <3>1, <3>2
    <3>4. Kind[e] \notin {"init", "entry"}
      BY <3>1, <3>2 DEF Uncalled, DInv
    <3>5. ASSUME e \in D, Kind[e] \in {"var", "fn"}
          PROVE  FALSE
      <4>1. d \in References(e) /\ ~PassedOver(d, m, e)
        BY <3>1, <3>2, <3>3 DEF References, PassedOver
      <4>2. d \in D
        BY <3>3, <3>5, <4>1 DEF DeadWithin, X
      <4>3. Kind[d] = "const"
        BY <3>2, <4>2
      <4>4. Kind[e] = "const"
        BY <3>1, <3>2, <4>3, MentionAssumption DEF DInv
      <4> QED
        BY <3>5, <4>4
    <3>6. e \in D => Kind[e] # "method"
      BY <3>3 DEF DeadWithin, X
    <3> QED
      BY <3>1, <3>2, <3>4, <3>5, <3>6, KindAssumption
  <2> QED
    BY <2>0, <2>1, <1>6
<1>7. size \in P
  <2>1. Nat \subseteq P
    <3> HIDE DEF P
    <3> QED
      BY <1>5, <1>6, CountingUp
  <2> QED
    BY <2>1, <1>0
<1> QED
  BY <1>0, <1>3, <1>7

-----------------------------------------------------------------------------
(* Which init functions are kept *)

\* An init function of the p-th package touches what catch_alive_init can tell
\* to be alive.
TouchesAlive(p, d) ==
  LET touched == {e \in Members(mentions[d]) : Kind[e] # "const"}
  IN  touched \cap ReachedPast(Entry, LastBefore(p)) # {}

\* main_current is the definition that was examined last, in this package or
\* before it.
AtExamined ==
  turn \in 1 .. Len(Order) =>
    /\ at <= Len(Work[Order[turn]]) + 1
    /\ IF at > 1 THEN main_current = Work[Order[turn]][at - 1]
       ELSE main_current = Nil \/ main_current \in LastBefore(turn)

\* catch_alive_init has stopped at every init function so far that it must.
KInv ==
  /\ DInv
  /\ AtExamined
  /\ \A p \in 1 .. Len(Order) : p < turn \/ (p = turn /\ at # 0) =>
       \A d \in InitOf(Order[p]) : TouchesAlive(p, d) => d \in statically

LEMMA EntryStays ==
  ASSUME DInv
  PROVE  Entry \subseteq PackageAt(Len(Order)) \cap statically
BY Places DEF Entry, DInv

\* The last definition of a package, and what is last before an empty one.
LEMMA LastIsBefore ==
  ASSUME NEW n \in 1 .. Len(Order), Work[Order[n]] # << >>, Len(Work[Order[n]]) > 0
  PROVE  Work[Order[n]][Len(Work[Order[n]])] \in LastBefore(n + 1)
<1>1. n \in Nat /\ (n + 1) - 1 = n /\ n \in 1 .. n /\ \A m : m \notin n + 1 .. n
  BY Places
<1>2. Work[Order[n]] \in Seq(Defs) /\ Work[Order[n]][Len(Work[Order[n]])] \in Defs
  BY Places
<1> QED
  BY <1>1, <1>2 DEF LastBefore

LEMMA NoneBetween ==
  ASSUME NEW n \in 1 .. Len(Order), Work[Order[n]] = << >>
  PROVE  LastBefore(n) \subseteq LastBefore(n + 1)
<1> SUFFICES ASSUME NEW d \in LastBefore(n)
             PROVE  d \in LastBefore(n + 1)
  OBVIOUS
<1>1. PICK q \in 1 .. n - 1 :
        /\ Work[Order[q]] # << >> /\ d = Work[Order[q]][Len(Work[Order[q]])]
        /\ \A m \in q + 1 .. n - 1 : Work[Order[m]] = << >>
  BY DEF LastBefore
<1>2. n \in Nat /\ (n + 1) - 1 = n /\ q \in 1 .. n
  BY Places
<1>3. \A m \in q + 1 .. n : m \in q + 1 .. n - 1 \/ m = n
  BY <1>2
<1> QED
  BY <1>1, <1>2, <1>3 DEF LastBefore

\* The entry point is not among the definitions before a package.
LEMMA EntryIsNotBefore ==
  ASSUME DInv, NEW p \in 1 .. Len(Order)
  PROVE  Entry \cap LastBefore(p) = {}
<1> SUFFICES ASSUME NEW d \in Entry, d \in LastBefore(p)
             PROVE  FALSE
  OBVIOUS
<1>1. PICK n \in 1 .. p - 1 :
        Work[Order[n]] # << >> /\ d = Work[Order[n]][Len(Work[Order[n]])]
  BY DEF LastBefore
<1>2. n \in 1 .. Len(Order) /\ n < Len(Order) /\ Len(Order) \in 1 .. Len(Order)
  BY Places
<1>3. Work[Order[n]] \in Seq(Defs) /\ Len(Work[Order[n]]) \in 1 .. Len(Work[Order[n]])
  BY <1>1, <1>2, Places
<1>4. d \in PackageAt(n)
  BY <1>1, <1>3 DEF PackageAt, Members
<1>5. d \in PackageAt(Len(Order))
  BY EntryStays
<1> QED
  BY <1>2, <1>4, <1>5, OnePackage, Places

\* catch_alive_init stops at an init function that touches what is reached past
\* the definition it takes for dead.
LEMMA TouchedIsAlive ==
  ASSUME KInv, Uncalled, Eliminating, at = 0,
         NEW d \in InitOf(Package), TouchesAlive(turn, d)
  PROVE  \E e \in Members(mentions[d]) : ~IsDead(main_current, {})[{}][e]
<1>0. DInv /\ turn \in 1 .. Len(Order) /\ mentions \in [Defs -> Seq(Defs)]
  BY Places DEF KInv, DInv, TypeOK, Eliminating
<1>1. PICK e \in Members(mentions[d]) :
        Kind[e] # "const" /\ e \in ReachedPast(Entry, LastBefore(turn))
  BY DEF TouchesAlive
<1>2. main_current \in LastBefore(turn) \/ main_current \notin Defs
  BY <1>0, DefsAssumption DEF KInv, AtExamined
<1>3. Entry \cap LastBefore(turn) = {}
  BY <1>0, EntryIsNotBefore
<1>4. e \in Defs
  <2>1. d \in Defs
    BY <1>0, Places DEF InitOf, Package, PackageAt
  <2> QED
    BY <1>0, <1>1, <2>1 DEF Members
<1>5. ASSUME e \in DeadIn(main_current, {}, {})
      PROVE  FALSE
  <2>1. PICK D \in SUBSET Defs :
          e \in D /\ DeadWithin(D, Vouched(main_current, {}, {}), main_current, statically)
    BY <1>5 DEF DeadIn
  <2> QED
    BY <1>0, <1>1, <1>2, <1>3, <2>1, ReachedIsAlive
<1>6. ~IsDead(main_current, {})[{}][e]
  BY <1>4, <1>5, IsDeadMeaning
<1> QED
  BY <1>1, <1>6

LEMMA InitCaught == Init => KInv
<1> SUFFICES ASSUME Init
             PROVE  KInv
  OBVIOUS
<1>1. DInv
  BY InitDead
<1>2. turn = 1 /\ at = 0 /\ main_current = Nil
  BY DEF Init
<1>3. \A p \in 1 .. Len(Order) : ~(p < turn \/ (p = turn /\ at # 0))
  BY <1>2, Places
<1>4. AtExamined
  BY <1>2, Places DEF AtExamined
<1> QED
  BY <1>1, <1>3, <1>4 DEF KInv

\* The program is the same after a step, and so is what an init function touches.
LEMMA TouchesStays ==
  ASSUME UNCHANGED mentions, NEW p, NEW d
  PROVE  TouchesAlive(p, d)' <=> TouchesAlive(p, d)
BY DEF TouchesAlive, ReachedPast, Entry, MainPackage

LEMMA NextCaught == KInv /\ Uncalled /\ [Next]_vars => KInv'
<1> SUFFICES ASSUME KInv, Uncalled, [Next]_vars
             PROVE  KInv'
  OBVIOUS
<1> USE DEF InitOf
<1>1. DInv /\ DInv'
  BY NextDead DEF KInv
<1>2. turn \in Nat /\ at \in Nat
  BY <1>1, Places DEF DInv, TypeOK
<1>3. CASE CatchInit
  <2>1. /\ Eliminating /\ at = 0 /\ at' = 1
        /\ UNCHANGED <<mentions, main_current, removed, turn>>
        /\ statically' = statically \cup
             {d \in InitOf(Package) :
                \E e \in Members(mentions[d]) : ~IsDead(main_current, {})[{}][e]}
    BY <1>3 DEF CatchInit
  <2>2. AtExamined'
    <3>1. Len(Work[Order[turn]]) \in Nat
      BY <2>1, <1>1, Places DEF Eliminating, DInv, TypeOK
    <3> QED
      BY <2>1, <3>1 DEF AtExamined, KInv
  <2>3. ASSUME NEW p \in 1 .. Len(Order), p < turn \/ p = turn,
               NEW d \in InitOf(Order[p]), TouchesAlive(p, d)
        PROVE  d \in statically'
    <3>1. CASE p < turn
      BY <2>1, <2>3, <3>1 DEF KInv
    <3>2. CASE p = turn
      <4>1. d \in InitOf(Package) /\ TouchesAlive(turn, d)
        BY <2>3, <3>2 DEF Package
      <4>2. d \in statically \/ \E e \in Members(mentions[d]) : ~IsDead(main_current, {})[{}][e]
        BY <4>1, <2>1, TouchedIsAlive
      <4> QED
        BY <4>1, <4>2, <2>1
    <3> QED
      BY <2>3, <3>1, <3>2
  <2>4. \A p \in 1 .. Len(Order) : p < turn' \/ (p = turn' /\ at' # 0) =>
          \A d \in InitOf(Order[p]) : TouchesAlive(p, d)' => d \in statically'
    BY <2>1, <2>3, TouchesStays
  <2> QED
    BY <1>1, <2>2, <2>4 DEF KInv
<1>4. CASE Examine
  <2>1. /\ turn \in 1 .. Len(Order) /\ at \in 1 .. Len(Work[Order[turn]]) /\ at' = at + 1
        /\ main_current' = Work[Order[turn]][at]
        /\ UNCHANGED <<mentions, statically, turn>>
    BY <1>1, <1>4, Places DEF Examine, Package, Eliminating, DInv, TypeOK
  <2>2. AtExamined'
    <3>1. at' <= Len(Work[Order[turn]]) + 1 /\ at' > 1 /\ at' - 1 = at
      BY <1>2, <2>1, Places
    <3> QED
      BY <2>1, <3>1 DEF AtExamined
  <2>3. at # 0 /\ at' # 0
    BY <1>2, <2>1, Places
  <2>4. \A p \in 1 .. Len(Order) : p < turn' \/ (p = turn' /\ at' # 0) =>
          \A d \in InitOf(Order[p]) : TouchesAlive(p, d)' => d \in statically'
    BY <2>1, <2>3, TouchesStays DEF KInv
  <2> QED
    BY <1>1, <2>2, <2>3, <2>4 DEF KInv
<1>5. CASE NextPackage
  <2>1. /\ turn \in 1 .. Len(Order) /\ at > Len(Work[Order[turn]]) /\ turn' = turn + 1 /\ at' = 0
        /\ UNCHANGED <<mentions, statically, deads, main_current, removed>>
    BY <1>1, <1>5, Places DEF NextPackage, Package, Eliminating, DInv, TypeOK
  <2>2. at # 0 /\ turn' # 1
    BY <1>2, <2>1, Places
  <2>3. AtExamined'
    <3>1. Len(Work[Order[turn]]) \in Nat /\ Work[Order[turn]] \in Seq(Defs)
      BY <2>1, Places
    <3>2. CASE Work[Order[turn]] = << >>
      <4>1. ~(at > 1)
        BY <1>2, <2>1, <3>1, <3>2 DEF AtExamined, KInv
      <4>2. main_current = Nil \/ main_current \in LastBefore(turn)
        BY <2>1, <4>1 DEF AtExamined, KInv
      <4>3. LastBefore(turn) \subseteq LastBefore(turn + 1)
        BY <2>1, <3>2, NoneBetween
      <4> QED
        BY <2>1, <4>2, <4>3 DEF AtExamined
    <3>3. CASE Work[Order[turn]] # << >>
      <4>1. Len(Work[Order[turn]]) > 0
        BY <3>1, <3>3
      <4>2. at = Len(Work[Order[turn]]) + 1 /\ at > 1
        BY <1>2, <2>1, <3>1, <4>1 DEF AtExamined, KInv
      <4>3. main_current = Work[Order[turn]][Len(Work[Order[turn]])]
        BY <2>1, <3>1, <4>2 DEF AtExamined, KInv
      <4>4. main_current \in LastBefore(turn + 1)
        BY <2>1, <3>3, <4>1, <4>3, LastIsBefore
      <4> QED
        BY <2>1, <4>4 DEF AtExamined
    <3> QED
      BY <3>2, <3>3
  <2>4. \A p \in 1 .. Len(Order) : p < turn' => p < turn \/ p = turn
    BY <1>2, <2>1, Places
  <2>5. \A p \in 1 .. Len(Order) : p < turn' \/ (p = turn' /\ at' # 0) =>
          \A d \in InitOf(Order[p]) : TouchesAlive(p, d)' => d \in statically'
    BY <2>1, <2>2, <2>4, TouchesStays DEF KInv
  <2> QED
    BY <1>1, <2>3, <2>5 DEF KInv
<1>6. CASE UNCHANGED vars
  <2>1. UNCHANGED <<mentions, statically, main_current, turn, at>> /\ AtExamined'
    BY <1>6 DEF vars, AtExamined, KInv
  <2>2. \A p \in 1 .. Len(Order) : p < turn' \/ (p = turn' /\ at' # 0) =>
          \A d \in InitOf(Order[p]) : TouchesAlive(p, d)' => d \in statically'
    BY <2>1, TouchesStays DEF KInv
  <2> QED
    BY <1>1, <2>1, <2>2 DEF KInv
<1> QED
  BY <1>3, <1>4, <1>5, <1>6 DEF Next

LEMMA CaughtIsKept ==
  ASSUME KInv
  PROVE  InitKept
<1> SUFFICES ASSUME Eliminated, NEW p \in 1 .. Len(Order), NEW d \in InitOf(Order[p]),
                    TouchesAlive(p, d)
             PROVE  d \in Kept
  BY DEF InitKept, TouchesAlive
<1>1. DInv /\ p < turn
  BY Places DEF KInv, DInv, TypeOK, Eliminated, Eliminating
<1>2. d \in statically /\ Kind[d] = "init" /\ d \in Defs
  BY <1>1, Places DEF KInv, InitOf, PackageAt
<1>3. d \notin Dead(statically)
  BY <1>2, DeadUnneeded DEF Unneeded
<1> QED
  BY <1>1, <1>2, <1>3, RemovedIsDead DEF Kept

-----------------------------------------------------------------------------

LEMMA DeadInvariance == Spec => []DInv
  BY InitDead, NextDead, PTL DEF Spec

\* The counters stay within the packages, whatever is removed.
THEOREM EliminationTypeCorrect == Spec => []TypeOK
<1>1. DInv => TypeOK
  BY DEF DInv
<1> QED
  BY <1>1, DeadInvariance, PTL

\* What a kept definition mentions is kept: the generated text names nothing that
\* is gone, unless the program calls an init function.
THEOREM NothingUsedIsRemoved == Spec => []ClosedButForInit
<1>1. DInv => ClosedButForInit
  BY KeptIsClosed
<1> QED
  BY <1>1, DeadInvariance, PTL

\* In a program that calls none, the generated text names nothing that is gone.
THEOREM MentionedIsKept ==
  ASSUME Uncalled
  PROVE  Spec => []Closed
<1>1. DInv => Closed
  BY UncalledIsClosed
<1> QED
  BY <1>1, DeadInvariance, PTL

\* Everything that is kept is reached from the entry point, an init function
\* that stays or a method, however the rest refers to itself in cycles.
THEOREM OnlyNeededIsKept == Spec => []OnlyNeeded
<1>1. DInv => OnlyNeeded
  BY NeededIsKept
<1> QED
  BY <1>1, DeadInvariance, PTL

\* catch_alive_init keeps, in every package, an init function that touches what
\* the entry point reaches past the definition that was examined last before.
THEOREM TouchingInitIsKept ==
  ASSUME Uncalled
  PROVE  Spec => []InitKept
<1>1. Init => KInv
  BY InitCaught
<1>2. KInv /\ [Next]_vars => KInv'
  BY NextCaught
<1>3. KInv => InitKept
  BY CaughtIsKept
<1> QED
  BY <1>1, <1>2, <1>3, PTL DEF Spec

-----------------------------------------------------------------------------
(* The lists that IR.order is given *)

Distinct(l) == \A m, n \in 1 .. Len(l) : l[m] = l[n] => m = n

\* What is appended to a list without repetition, and is not in it, does not
\* repeat anything.
LEMMA AppendDistinct ==
  ASSUME NEW T, NEW l \in Seq(T), NEW e \in T
  PROVE  /\ Members(Append(l, e)) = Members(l) \cup {e}
         /\ Distinct(l) /\ e \notin Members(l) => Distinct(Append(l, e))
<1> DEFINE a == Append(l, e)
<1>1. /\ Len(l) \in Nat /\ Len(a) = Len(l) + 1 /\ a[Len(l) + 1] = e
      /\ \A x \in 1 .. Len(l) : a[x] = l[x]
  OBVIOUS
<1> HIDE DEF a
<1>2. 1 .. Len(a) = 1 .. Len(l) \cup {Len(l) + 1}
  BY <1>1
<1>3. Members(a) = Members(l) \cup {e}
  BY <1>1, <1>2 DEF Members
<1>4. ASSUME Distinct(l), e \notin Members(l)
      PROVE  Distinct(a)
  BY <1>1, <1>2, <1>4 DEF Distinct, Members
<1> QED
  BY <1>3, <1>4 DEF a

LEMMA ConcatDistinct ==
  ASSUME NEW T, NEW l \in Seq(T), NEW r \in Seq(T)
  PROVE  /\ l \o r \in Seq(T)
         /\ Members(l \o r) = Members(l) \cup Members(r)
         /\ Distinct(l) /\ Distinct(r) /\ Members(l) \cap Members(r) = {} => Distinct(l \o r)
<1> DEFINE c == l \o r
<1>1. /\ Len(l) \in Nat /\ Len(r) \in Nat /\ Len(c) = Len(l) + Len(r) /\ c \in Seq(T)
      /\ \A x \in 1 .. Len(l) : c[x] = l[x]
      /\ \A x \in 1 .. Len(r) : c[Len(l) + x] = r[x]
  OBVIOUS
<1> HIDE DEF c
<1>2. \A x \in 1 .. Len(c) :
        \/ x \in 1 .. Len(l) /\ c[x] = l[x]
        \/ x - Len(l) \in 1 .. Len(r) /\ c[x] = r[x - Len(l)]
  <2> TAKE x \in 1 .. Len(c)
  <2>1. CASE x <= Len(l)
    <3>1. x \in 1 .. Len(l)
      BY <2>1, <1>1
    <3> QED
      BY <3>1, <1>1
  <2>2. CASE x > Len(l)
    <3>1. x - Len(l) \in 1 .. Len(r) /\ x = Len(l) + (x - Len(l))
      BY <2>2, <1>1
    <3> QED
      BY <3>1, <1>1
  <2> QED
    BY <2>1, <2>2, <1>1
<1>3. Members(c) = Members(l) \cup Members(r)
  <2>1. Members(c) \subseteq Members(l) \cup Members(r)
    BY <1>2 DEF Members
  <2>2. Members(l) \cup Members(r) \subseteq Members(c)
    <3>1. 1 .. Len(l) \subseteq 1 .. Len(c) /\ \A x \in 1 .. Len(r) : Len(l) + x \in 1 .. Len(c)
      BY <1>1
    <3> QED
      BY <3>1, <1>1 DEF Members
  <2> QED
    BY <2>1, <2>2
<1>4. ASSUME Distinct(l), Distinct(r), Members(l) \cap Members(r) = {}
      PROVE  Distinct(c)
  <2> SUFFICES ASSUME NEW m \in 1 .. Len(c), NEW n \in 1 .. Len(c), c[m] = c[n]
               PROVE  m = n
    BY DEF Distinct
  <2>1. m \in Nat /\ n \in Nat
    OBVIOUS
  <2>2. CASE m \in 1 .. Len(l) /\ c[m] = l[m] /\ n \in 1 .. Len(l) /\ c[n] = l[n]
    BY <2>2, <1>4 DEF Distinct
  <2>3. CASE m \in 1 .. Len(l) /\ c[m] = l[m] /\ n - Len(l) \in 1 .. Len(r) /\ c[n] = r[n - Len(l)]
    BY <2>3, <1>4 DEF Members
  <2>4. CASE m - Len(l) \in 1 .. Len(r) /\ c[m] = r[m - Len(l)] /\ n \in 1 .. Len(l) /\ c[n] = l[n]
    BY <2>4, <1>4 DEF Members
  <2>5. CASE /\ m - Len(l) \in 1 .. Len(r) /\ c[m] = r[m - Len(l)]
             /\ n - Len(l) \in 1 .. Len(r) /\ c[n] = r[n - Len(l)]
    <3>1. m - Len(l) = n - Len(l)
      BY <2>5, <1>4 DEF Distinct
    <3> QED
      BY <3>1, <2>1, <1>1
  <2> QED
    BY <1>2, <2>2, <2>3, <2>4, <2>5
<1> QED
  BY <1>1, <1>3, <1>4 DEF c

\* The function by which Only is defined.
Picks(w, T, l, V) ==
  /\ w \in [0 .. Len(l) -> Seq(T)]
  /\ w[0] = << >>
  /\ \A n \in 1 .. Len(l) :
       w[n] = IF l[n] \in V THEN Append(w[n - 1], l[n]) ELSE w[n - 1]
  /\ Only(l, V) = w[Len(l)]

LEMMA OnlySteps ==
  ASSUME NEW T, NEW l \in Seq(T), NEW V
  PROVE  \E w : Picks(w, T, l, V)
<1> DEFINE size == Len(l)
           U == Seq(T)
           More(a, n) == IF l[n] \in V THEN Append(a, l[n]) ELSE a
           step == [n \in 1 .. size |-> [a \in U |-> More(a, n)]]
           Turn(f) == [n \in 0 .. size |->
                         IF n = 0 THEN << >>
                         ELSE IF l[n] \in V THEN Append(f[n - 1], l[n]) ELSE f[n - 1]]
           w == CHOOSE f : f = Turn(f)
<1>1. size \in Nat /\ << >> \in U
  OBVIOUS
<1>2. step \in [1 .. size -> [U -> U]]
  <2>1. \A n \in 1 .. size : \A a \in U : More(a, n) \in U
    OBVIOUS
  <2> HIDE DEF More, U, size
  <2> QED
    BY <2>1
<1>3. PICK f : Computed(f, size, U, << >>, step)
  <2> HIDE DEF step, size, U
  <2> QED
    BY <1>1, <1>2, Computes
<1>4. f = Turn(f)
  <2> HIDE DEF U, size
  <2>1. f \in [0 .. size -> U] /\ f[0] = << >> /\ \A n \in 1 .. size : f[n] = step[n][f[n - 1]]
    BY <1>3 DEF Computed
  <2>2. \A x \in 0 .. size : f[x] = Turn(f)[x]
    <3> TAKE x \in 0 .. size
    <3>1. CASE x = 0
      BY <3>1, <2>1
    <3>2. CASE x # 0
      <4>1. x \in 1 .. size /\ x - 1 \in 0 .. size
        BY <3>2, <1>1
      <4>2. f[x] = More(f[x - 1], x)
        <5> HIDE DEF More
        <5> QED
          BY <4>1, <2>1
      <4> QED
        BY <3>2, <4>2
    <3> QED
      BY <3>1, <3>2
  <2>3. Turn(f) = [x \in 0 .. size |-> Turn(f)[x]]
    OBVIOUS
  <2> HIDE DEF Turn
  <2> QED
    BY <2>1, <2>2, <2>3
<1>5. w = Turn(w)
  <2> HIDE DEF Turn
  <2> QED
    BY <1>4
<1> HIDE DEF w
<1>6. w = [x \in 0 .. size |-> w[x]] /\ w[0] = << >>
  <2> HIDE DEF size
  <2> QED
    BY <1>1, <1>5
<1>7. ASSUME NEW n \in 1 .. size
      PROVE  w[n] = More(w[n - 1], n)
  <2> HIDE DEF size
  <2>1. n \in 0 .. size /\ n # 0
    BY <1>1
  <2> QED
    BY <1>5, <2>1
<1>8. Computed(w, size, U, << >>, step)
  <2>1. \A n \in 1 .. size : w[n - 1] \in U => w[n] = step[n][w[n - 1]]
    <3> HIDE DEF size, U, More
    <3> QED
      BY <1>7
  <2> HIDE DEF step, size, U
  <2> QED
    BY <2>1, <1>1, <1>2, <1>6, StaysComputed
<1>9. Only(l, V) = w[size]
  BY DEF Only, w
<1> HIDE DEF step, Turn
<1>10. Picks(w, T, l, V)
  BY <1>6, <1>7, <1>8, <1>9 DEF Computed, Picks
<1> QED
  BY <1>10

\* Only keeps what is in V, in its order and as often as it was there.
LEMMA OnlyIs ==
  ASSUME NEW T, NEW l \in Seq(T), NEW V
  PROVE  /\ Only(l, V) \in Seq(T)
         /\ Members(Only(l, V)) = Members(l) \cap V
         /\ Distinct(l) => Distinct(Only(l, V))
<1>0. PICK w : Picks(w, T, l, V)
  BY OnlySteps
<1>1. /\ w \in [0 .. Len(l) -> Seq(T)]
      /\ w[0] = << >>
      /\ \A n \in 1 .. Len(l) :
           w[n] = IF l[n] \in V THEN Append(w[n - 1], l[n]) ELSE w[n - 1]
      /\ Only(l, V) = w[Len(l)]
  BY <1>0 DEF Picks
<1> DEFINE Upto(n) == {l[x] : x \in 1 .. n}
           P == {n \in Nat : n <= Len(l) => /\ Members(w[n]) = Upto(n) \cap V
                                            /\ Distinct(l) => Distinct(w[n])}
<1>2. 0 \in P
  <2>1. Members(w[0]) = {} /\ Distinct(w[0]) /\ Upto(0) = {}
    BY <1>1 DEF Members, Distinct
  <2> HIDE DEF Upto
  <2> QED
    BY <2>1
<1>3. ASSUME NEW n \in Nat, n \in P
      PROVE  n + 1 \in P
  <2> SUFFICES ASSUME n + 1 <= Len(l)
               PROVE  /\ Members(w[n + 1]) = Upto(n + 1) \cap V
                      /\ Distinct(l) => Distinct(w[n + 1])
    OBVIOUS
  <2>1. /\ n + 1 \in 1 .. Len(l) /\ (n + 1) - 1 = n /\ n \in 0 .. Len(l) /\ n <= Len(l)
        /\ Len(l) \in Nat
    OBVIOUS
  <2> DEFINE e == l[n + 1]
             a == w[n]
  <2>2. e \in T /\ a \in Seq(T)
    BY <2>1, <1>1
  <2>3. w[n + 1] = IF e \in V THEN Append(a, e) ELSE a
    BY <2>1, <1>1
  <2>4. Upto(n + 1) = Upto(n) \cup {e}
    <3>1. 1 .. n + 1 = 1 .. n \cup {n + 1}
      OBVIOUS
    <3> QED
      BY <3>1
  <2>5. Distinct(l) => e \notin Upto(n)
    BY <2>1 DEF Distinct
  <2>6. Members(a) = Upto(n) \cap V /\ (Distinct(l) => Distinct(a))
    BY <1>3, <2>1
  <2> HIDE DEF e, a, Upto
  <2>7. /\ Members(Append(a, e)) = Members(a) \cup {e}
        /\ Distinct(a) /\ e \notin Members(a) => Distinct(Append(a, e))
    BY <2>2, AppendDistinct
  <2>8. CASE e \in V
    <3>1. w[n + 1] = Append(a, e)
      BY <2>3, <2>8
    <3>2. Members(Append(a, e)) = Upto(n + 1) \cap V
      BY <2>4, <2>6, <2>7, <2>8
    <3>3. Distinct(l) => Distinct(Append(a, e))
      BY <2>5, <2>6, <2>7
    <3> QED
      BY <3>1, <3>2, <3>3
  <2>9. CASE e \notin V
    <3>1. w[n + 1] = a
      BY <2>3, <2>9
    <3>2. Members(a) = Upto(n + 1) \cap V
      BY <2>4, <2>6, <2>9
    <3> QED
      BY <2>6, <3>1, <3>2
  <2> QED
    BY <2>8, <2>9
<1>4. Len(l) \in P
  <2>1. Nat \subseteq P
    <3> HIDE DEF P
    <3> QED
      BY <1>2, <1>3, CountingUp
  <2>2. Len(l) \in Nat
    OBVIOUS
  <2> QED
    BY <2>1, <2>2
<1>5. Upto(Len(l)) = Members(l)
  BY DEF Members
<1>6. w[Len(l)] \in Seq(T)
  BY <1>1
<1> HIDE DEF Upto
<1> QED
  BY <1>1, <1>4, <1>5, <1>6

\* The n-th package of which the variables are collected.
Nth(n) == Len(Order) + 1 - n

LEMMA NthPackage ==
  ASSUME NEW n \in 1 .. Len(Order)
  PROVE  /\ Nth(n) \in 1 .. Len(Order)
         /\ Work[Order[Nth(n)]] \in Seq(Defs)
         /\ Members(Work[Order[Nth(n)]]) = PackageAt(Nth(n))
         /\ Distinct(Work[Order[Nth(n)]])
<1>1. Nth(n) \in 1 .. Len(Order)
  BY Places DEF Nth
<1> QED
  BY <1>1, Places, WorkAssumption DEF PackageAt, Distinct

\* The function by which Gathered is defined.
LEMMA GatheredSteps ==
  ASSUME NEW V
  PROVE  \E w \in [0 .. Len(Order) -> Seq(Defs)] :
           /\ w[0] = << >>
           /\ \A n \in 1 .. Len(Order) : w[n] = w[n - 1] \o Only(Work[Order[Nth(n)]], V)
           /\ Gathered(V) = w[Len(Order)]
<1> DEFINE size == Len(Order)
           U == Seq(Defs)
           Part(n) == Only(Work[Order[Nth(n)]], V)
           step == [n \in 1 .. size |-> [a \in U |-> a \o Part(n)]]
           Turn(f) == [n \in 0 .. size |->
                         IF n = 0 THEN << >>
                         ELSE f[n - 1] \o Only(Work[Order[Len(Order) + 1 - n]], V)]
           w == CHOOSE f : f = Turn(f)
<1>1. size \in Nat /\ << >> \in U
  BY Places
<1>2. step \in [1 .. size -> [U -> U]]
  <2>1. \A n \in 1 .. size : Part(n) \in Seq(Defs)
    BY NthPackage, OnlyIs
  <2> HIDE DEF Part
  <2>2. \A n \in 1 .. size : \A a \in U : a \o Part(n) \in U
    BY <2>1
  <2> HIDE DEF U, size
  <2> QED
    BY <2>2
<1>3. PICK f : Computed(f, size, U, << >>, step)
  <2> HIDE DEF step, size, U
  <2> QED
    BY <1>1, <1>2, Computes
<1>4. f = Turn(f)
  <2> HIDE DEF U
  <2>1. f \in [0 .. size -> U] /\ f[0] = << >> /\ \A n \in 1 .. size : f[n] = step[n][f[n - 1]]
    BY <1>3 DEF Computed
  <2>2. \A x \in 0 .. size : f[x] = Turn(f)[x]
    <3> TAKE x \in 0 .. size
    <3>1. CASE x = 0
      BY <3>1, <2>1
    <3>2. CASE x # 0
      <4>1. x \in 1 .. size /\ x - 1 \in 0 .. size
        BY <3>2, <1>1
      <4>2. f[x] = f[x - 1] \o Part(x)
        <5> HIDE DEF Part, size
        <5> QED
          BY <4>1, <2>1
      <4> QED
        BY <3>2, <4>2 DEF Nth
    <3> QED
      BY <3>1, <3>2
  <2>3. Turn(f) = [x \in 0 .. size |-> Turn(f)[x]]
    OBVIOUS
  <2> HIDE DEF Turn
  <2> QED
    BY <2>1, <2>2, <2>3
<1>5. w = Turn(w)
  <2> HIDE DEF Turn
  <2> QED
    BY <1>4
<1> HIDE DEF w
<1>6. w = [x \in 0 .. size |-> w[x]] /\ w[0] = << >>
  BY <1>1, <1>5
<1>7. ASSUME NEW n \in 1 .. size
      PROVE  w[n] = w[n - 1] \o Part(n)
  <2>1. n \in 0 .. size /\ n # 0
    BY <1>1
  <2> QED
    BY <1>5, <2>1 DEF Nth
<1>8. Computed(w, size, U, << >>, step)
  <2>1. \A n \in 1 .. size : w[n - 1] \in U => w[n] = step[n][w[n - 1]]
    <3> HIDE DEF size, U, Part
    <3> QED
      BY <1>7
  <2> HIDE DEF step, size, U
  <2> QED
    BY <2>1, <1>1, <1>2, <1>6, StaysComputed
<1>9. Gathered(V) = w[size]
  BY DEF Gathered, w
<1> HIDE DEF step, Turn
<1> QED
  BY <1>6, <1>7, <1>8, <1>9 DEF Computed

\* The variables that are collected are those of the packages that are in V,
\* each once.
LEMMA GatheredIs ==
  ASSUME NEW V, V \subseteq {d \in Defs : Kind[d] # "method"}
  PROVE  /\ Gathered(V) \in Seq(V)
         /\ Members(Gathered(V)) = V
         /\ Distinct(Gathered(V))
<1>1. PICK w \in [0 .. Len(Order) -> Seq(Defs)] :
           /\ w[0] = << >>
           /\ \A n \in 1 .. Len(Order) : w[n] = w[n - 1] \o Only(Work[Order[Nth(n)]], V)
           /\ Gathered(V) = w[Len(Order)]
  BY GatheredSteps
<1> DEFINE Upto(n) == {d \in V : \E x \in 1 .. n : d \in PackageAt(Nth(x))}
           P == {n \in Nat : n <= Len(Order) => Members(w[n]) = Upto(n) /\ Distinct(w[n])}
<1>2. Len(Order) \in Nat
  BY Places
<1>3. 0 \in P
  <2>1. Members(w[0]) = {} /\ Distinct(w[0]) /\ Upto(0) = {}
    BY <1>1 DEF Members, Distinct
  <2> HIDE DEF Upto
  <2> QED
    BY <2>1
<1>4. ASSUME NEW n \in Nat, n \in P
      PROVE  n + 1 \in P
  <2> SUFFICES ASSUME n + 1 <= Len(Order)
               PROVE  Members(w[n + 1]) = Upto(n + 1) /\ Distinct(w[n + 1])
    OBVIOUS
  <2>1. n + 1 \in 1 .. Len(Order) /\ (n + 1) - 1 = n /\ n \in 0 .. Len(Order) /\ n <= Len(Order)
    BY <1>2
  <2> DEFINE l == Work[Order[Nth(n + 1)]]
             r == Only(l, V)
             a == w[n]
  <2>2. w[n + 1] = a \o r /\ a \in Seq(Defs)
    BY <2>1, <1>1
  <2>3. l \in Seq(Defs) /\ Members(l) = PackageAt(Nth(n + 1)) /\ Distinct(l)
    BY <2>1, NthPackage
  <2>4. r \in Seq(Defs) /\ Members(r) = PackageAt(Nth(n + 1)) \cap V /\ Distinct(r)
    <3> HIDE DEF l
    <3> QED
      BY <2>3, OnlyIs
  <2>5. Members(a) = Upto(n) /\ Distinct(a)
    BY <1>4, <2>1
  <2>6. Upto(n + 1) = Upto(n) \cup (PackageAt(Nth(n + 1)) \cap V)
    <3>1. 1 .. n + 1 = 1 .. n \cup {n + 1}
      OBVIOUS
    <3> QED
      BY <3>1
  <2>7. Upto(n) \cap PackageAt(Nth(n + 1)) = {}
    <3> SUFFICES ASSUME NEW x \in 1 .. n, NEW d \in PackageAt(Nth(x)), d \in PackageAt(Nth(n + 1))
                 PROVE  FALSE
      OBVIOUS
    <3>1. x \in 1 .. Len(Order)
      BY <2>1, <1>2
    <3>2. Nth(x) = Nth(n + 1)
      BY <3>1, <2>1, NthPackage, OnePackage
    <3>3. x = n + 1
      BY <3>1, <3>2, <1>2 DEF Nth
    <3> QED
      BY <3>3
  <2> HIDE DEF a, r, l, Upto
  <2>8. /\ Members(a \o r) = Members(a) \cup Members(r)
        /\ Distinct(a) /\ Distinct(r) /\ Members(a) \cap Members(r) = {} => Distinct(a \o r)
    BY <2>2, <2>4, ConcatDistinct
  <2>9. Members(a) \cap Members(r) = {}
    BY <2>4, <2>5, <2>7
  <2> QED
    BY <2>2, <2>4, <2>5, <2>6, <2>8, <2>9
<1>5. Len(Order) \in P
  <2>1. Nat \subseteq P
    <3> HIDE DEF P
    <3> QED
      BY <1>3, <1>4, CountingUp
  <2> QED
    BY <1>2, <2>1
<1>6. Upto(Len(Order)) = V
  <2> SUFFICES ASSUME NEW d \in V
               PROVE  \E x \in 1 .. Len(Order) : d \in PackageAt(Nth(x))
    OBVIOUS
  <2>1. PICK m \in 1 .. Len(Order) : d \in PackageAt(m)
    BY WorkAssumption
  <2>2. Nth(m) \in 1 .. Len(Order) /\ Nth(Nth(m)) = m
    BY <1>2 DEF Nth
  <2> QED
    BY <2>1, <2>2
<1>7. Members(w[Len(Order)]) = V /\ Distinct(w[Len(Order)])
  <2> HIDE DEF Upto
  <2> QED
    BY <1>2, <1>5, <1>6
<1>8. w[Len(Order)] \in Seq(V)
  <2> DEFINE g == w[Len(Order)]
  <2>1. g \in Seq(Defs) /\ Members(g) = V
    BY <1>1, <1>2, <1>7
  <2> HIDE DEF g
  <2>2. Len(g) \in Nat /\ g = [x \in 1 .. Len(g) |-> g[x]] /\ \A x \in 1 .. Len(g) : g[x] \in V
    BY <2>1 DEF Members
  <2>3. g \in Seq(V)
    BY <2>2
  <2> QED
    BY <2>3 DEF g
<1> QED
  BY <1>1, <1>7, <1>8

\* How far the first loop is: what it has met lies in front of i when it
\* depends on nothing, and from there to j otherwise.
Sorted ==
  /\ pc = "front" =>
       /\ i <= j
       /\ \A n \in 1 .. N : n < i => depends[s[n]] = << >>
       /\ \A n \in 1 .. N : (i <= n /\ n < j) => depends[s[n]] # << >>
  /\ pc # "front" =>
       /\ i <= k
       /\ \A n \in 1 .. N : n < i <=> depends[s[n]] = << >>

OrderInv == OrderTypeOK /\ Permutation /\ Sorted

LEMMA ListSize == OrderTypeOK => N \in Nat
  BY DEF OrderTypeOK, N

\* A swap keeps the list in its range and loses nothing.
LEMMA SwapPermutes ==
  ASSUME OrderTypeOK, Permutation, given' = given,
         NEW m \in 1 .. N, NEW n \in 1 .. N, Swap(m, n)
  PROVE  /\ s' \in [1 .. N -> Globals]
         /\ Permutation'
         /\ s'[n] = s[m] /\ s'[m] = s[n]
         /\ \A q \in 1 .. N : q # m /\ q # n => s'[q] = s[q]
<1>1. s \in [1 .. N -> Globals]
  BY DEF OrderTypeOK
<1>2. /\ s' \in [1 .. N -> Globals]
      /\ s'[n] = s[m] /\ s'[m] = s[n]
      /\ \A q \in 1 .. N : q # m /\ q # n => s'[q] = s[q]
  BY <1>1 DEF Swap
<1>3. ASSUME NEW p \in 1 .. N
      PROVE  \E q \in 1 .. N : s'[q] = given[p]
  <2>1. PICK q \in 1 .. N : s[q] = given[p]
    BY DEF Permutation
  <2>2. CASE q = m
    BY <2>1, <2>2, <1>2
  <2>3. CASE q = n
    BY <2>1, <2>3, <1>2
  <2>4. CASE q # m /\ q # n
    BY <2>1, <2>4, <1>2
  <2> QED
    BY <2>2, <2>3, <2>4
<1>4. Permutation'
  BY <1>3 DEF Permutation, N
<1> QED
  BY <1>2, <1>4

\* The ordering begins with a list that repeats nothing, whoever gives it.
Begun ==
  /\ depends \in [Globals -> Seq(Globals \cup Others)]
  /\ given \in Seq(Globals) /\ Distinct(given)
  /\ s = given
  /\ pc = "front"
  /\ i = 1 /\ j = 1 /\ k = 1

LEMMA InitBegins == OrderInit => Begun
BY CollectedAssumption, DependenciesAssumption DEF OrderInit, Begun, Distinct

LEMMA BeginOrder == Begun => OrderInv
<1> SUFFICES ASSUME Begun PROVE OrderInv
  OBVIOUS
<1>1. s \in [1 .. N -> Globals] /\ Permutation /\ N \in Nat
  BY DEF Begun, Permutation, N
<1>2. OrderTypeOK
  BY <1>1 DEF Begun, OrderTypeOK
<1>3. Sorted
  BY <1>1 DEF Begun, Sorted
<1> QED
  BY <1>1, <1>2, <1>3 DEF OrderInv

LEMMA FrontOrder == OrderInv /\ Front => OrderInv'
<1> SUFFICES ASSUME OrderInv, Front PROVE OrderInv'
  OBVIOUS
<1>a. N \in Nat /\ N' = N /\ given' = given
  BY ListSize DEF OrderInv, N, Front
<1> USE <1>a
<1>1. /\ OrderTypeOK /\ Permutation /\ Sorted
      /\ pc = "front" /\ j \in 1 .. N /\ i \in 1 .. j
      /\ j' = j + 1 /\ depends' = depends /\ pc' = pc /\ k' = k
  BY DEF OrderInv, Sorted, OrderTypeOK, Front
<1>2. CASE depends[s[j]] = << >>
  <2>1. Swap(i, j) /\ i' = i + 1
    BY <1>2 DEF Front
  <2>2. /\ s' \in [1 .. N -> Globals]
        /\ Permutation'
        /\ s'[j] = s[i] /\ s'[i] = s[j]
        /\ \A q \in 1 .. N : q # i /\ q # j => s'[q] = s[q]
    BY <1>1, <2>1, SwapPermutes
  <2>3. OrderTypeOK'
    BY <1>1, <2>1, <2>2 DEF OrderTypeOK
  <2>4. Permutation'
    BY <2>2
  <2>5. ASSUME NEW n \in 1 .. N, n < i + 1
        PROVE  depends[s'[n]] = << >>
    <3>1. CASE n = i
      BY <3>1, <2>2, <1>2
    <3>2. CASE n < i
      BY <3>2, <2>2, <1>1 DEF Sorted
    <3> QED
      BY <3>1, <3>2, <2>5, <1>1
  <2>6. ASSUME NEW n \in 1 .. N, i + 1 <= n, n < j + 1
        PROVE  depends[s'[n]] # << >>
    <3>1. CASE n = j
      BY <3>1, <2>2, <2>6, <1>1 DEF Sorted
    <3>2. CASE n < j
      BY <3>2, <2>2, <2>6, <1>1 DEF Sorted
    <3> QED
      BY <3>1, <3>2, <2>6, <1>1
  <2>7. Sorted'
    BY <2>5, <2>6, <2>1, <1>1 DEF Sorted
  <2> QED
    BY <2>3, <2>4, <2>7 DEF OrderInv
<1>3. CASE depends[s[j]] # << >>
  <2>1. s' = s /\ i' = i
    BY <1>3 DEF Front
  <2>2. OrderTypeOK' /\ Permutation'
    BY <2>1, <1>1 DEF OrderTypeOK, Permutation
  <2>3. Sorted'
    BY <2>1, <1>1, <1>3 DEF Sorted
  <2> QED
    BY <2>2, <2>3 DEF OrderInv
<1> QED
  BY <1>2, <1>3

LEMMA CompareOrder == OrderInv /\ Compare => OrderInv'
<1> SUFFICES ASSUME OrderInv, Compare PROVE OrderInv'
  OBVIOUS
<1>a. N \in Nat /\ N' = N /\ given' = given
  BY ListSize DEF OrderInv, N, Compare
<1> USE <1>a
<1>1. /\ OrderTypeOK /\ Permutation /\ Sorted
      /\ pc = "back" /\ k \in 1 .. N - 1 /\ i <= k /\ i \in 1 .. N + 1
      /\ depends' = depends /\ pc' = pc /\ i' = i /\ j' = j /\ k' = k + 1
  BY DEF OrderInv, Sorted, OrderTypeOK, Compare
<1>2. CASE IsOrdered(s[k])
  <2>1. s' = s
    BY <1>2 DEF Compare
  <2> QED
    BY <2>1, <1>1 DEF OrderInv, OrderTypeOK, Permutation, Sorted
<1>3. CASE ~IsOrdered(s[k])
  <2>1. Swap(k, k + 1)
    BY <1>3 DEF Compare
  <2>2. /\ s' \in [1 .. N -> Globals]
        /\ Permutation'
        /\ s'[k + 1] = s[k] /\ s'[k] = s[k + 1]
        /\ \A q \in 1 .. N : q # k /\ q # k + 1 => s'[q] = s[q]
    BY <1>1, <2>1, SwapPermutes
  <2>3. OrderTypeOK' /\ Permutation'
    <3>1. k + 1 \in 1 .. N + 1
      BY <1>1
    <3>2. OrderTypeOK'
      BY <1>1, <2>2, <3>1 DEF OrderTypeOK
    <3>3. Permutation'
      BY <2>2
    <3> QED
      BY <3>2, <3>3
  <2>4. ASSUME NEW n \in 1 .. N
        PROVE  n < i <=> depends[s'[n]] = << >>
    <3>1. CASE n = k
      BY <3>1, <2>2, <1>1 DEF Sorted
    <3>2. CASE n = k + 1
      BY <3>2, <2>2, <1>1 DEF Sorted
    <3>3. CASE n # k /\ n # k + 1
      BY <3>3, <2>2, <1>1 DEF Sorted
    <3> QED
      BY <3>1, <3>2, <3>3
  <2>5. Sorted'
    BY <2>4, <1>1 DEF Sorted
  <2> QED
    BY <2>3, <2>5 DEF OrderInv
<1> QED
  BY <1>2, <1>3

LEMMA NextOrder == OrderInv /\ [OrderNext]_orderVars => OrderInv'
<1> SUFFICES ASSUME OrderInv, [OrderNext]_orderVars PROVE OrderInv'
  OBVIOUS
<1>a. N \in Nat /\ N' = N /\ given' = given
  BY ListSize DEF OrderInv, N, OrderNext, Front, FrontDone, Compare, NextPass, Finish, orderVars
<1> USE <1>a
<1>1. CASE Front
  BY <1>1, FrontOrder
<1>2. CASE FrontDone
  <2>1. j = N + 1 /\ i \in 1 .. N + 1
    BY <1>2 DEF FrontDone, OrderInv, OrderTypeOK
  <2>2. OrderTypeOK' /\ Permutation'
    BY <1>2, <2>1 DEF FrontDone, OrderInv, OrderTypeOK, Permutation
  <2>3. Sorted'
    BY <1>2, <2>1 DEF FrontDone, OrderInv, Sorted
  <2> QED
    BY <2>2, <2>3 DEF OrderInv
<1>3. CASE Compare
  BY <1>3, CompareOrder
<1>4. CASE NextPass
  <2>1. OrderTypeOK' /\ Permutation'
    BY <1>4 DEF NextPass, OrderInv, OrderTypeOK, Permutation
  <2>2. Sorted'
    BY <1>4 DEF NextPass, OrderInv, OrderTypeOK, Sorted
  <2> QED
    BY <2>1, <2>2 DEF OrderInv
<1>5. CASE Finish
  BY <1>5 DEF Finish, OrderInv, OrderTypeOK, Permutation, Sorted
<1>6. CASE UNCHANGED orderVars
  BY <1>6 DEF orderVars, OrderInv, OrderTypeOK, Permutation, Sorted
<1> QED
  BY <1>1, <1>2, <1>3, <1>4, <1>5, <1>6 DEF OrderNext

LEMMA OrderInvariance == OrderSpec => []OrderInv
  BY InitBegins, BeginOrder, NextOrder, PTL DEF OrderSpec

\* The state of order_common is well-typed: no loop counter leaves its list.
THEOREM OrdererTypeCorrect == OrderSpec => []OrderTypeOK
<1>1. OrderInv => OrderTypeOK
  BY DEF OrderInv
<1> QED
  BY <1>1, OrderInvariance, PTL

\* order_common loses and doubles no definition, however many there are and
\* whatever they depend on.
THEOREM NothingLost == OrderSpec => []Permutation
<1>1. OrderInv => Permutation
  BY DEF OrderInv
<1> QED
  BY <1>1, OrderInvariance, PTL

\* is_common_ordered is never asked about a definition without dependencies,
\* whose depends[0] it would read.
THEOREM PreconditionKept == OrderSpec => []HasDependency
<1>1. OrderInv => HasDependency
  BY ListSize DEF OrderInv, OrderTypeOK, Sorted, HasDependency
<1> QED
  BY <1>1, OrderInvariance, PTL

-----------------------------------------------------------------------------
(* Chains *)

\* e stands in front of the first d.
Settles(e, d) == \E p \in 1 .. N : s[p] = e /\ \A q \in 1 .. p : s[q] # d

\* is_common_ordered about a definition that mentions one other.
LEMMA MetOne ==
  ASSUME N \in Nat, NEW d, NEW e, depends[d] = <<e>>
  PROVE  IsOrdered(d) <=> Settles(e, d)
<1> DEFINE Step(met, n) ==
             IF n = 0 THEN 0
             ELSE LET m == met[n - 1]
                  IN  IF /\ m < Len(depends[d])
                         /\ d \notin {s[p] : p \in 1 .. n}
                         /\ s[n] = depends[d][m + 1]
                      THEN m + 1 ELSE m
           Seen(n) == \E p \in 1 .. n : s[p] = e /\ \A q \in 1 .. p : s[q] # d
           g == [n \in 0 .. N |-> IF Seen(n) THEN 1 ELSE 0]
           f == CHOOSE met : met = [n \in 0 .. N |-> Step(met, n)]
<1>1. Len(depends[d]) = 1 /\ depends[d][1] = e
  OBVIOUS
<1>2. \A n \in 1 .. N : Seen(n) <=> Seen(n - 1) \/ (s[n] = e /\ \A q \in 1 .. n : s[q] # d)
  OBVIOUS
<1>3. g = [n \in 0 .. N |-> Step(g, n)]
  <2>1. \A n \in 0 .. N : g[n] = Step(g, n)
    <3> TAKE n \in 0 .. N
    <3>1. CASE n = 0
      BY <3>1
    <3>2. CASE n # 0
      <4>1. n \in 1 .. N /\ n - 1 \in 0 .. N
        BY <3>2
      <4>2. g[n] = IF Seen(n) THEN 1 ELSE 0
        OBVIOUS
      <4>3. g[n - 1] = IF Seen(n - 1) THEN 1 ELSE 0
        BY <4>1
      <4>4. Seen(n) <=> Seen(n - 1) \/ (s[n] = e /\ \A q \in 1 .. n : s[q] # d)
        BY <4>1, <1>2
      <4>5. Step(g, n) = IF g[n - 1] < 1 /\ (\A q \in 1 .. n : s[q] # d) /\ s[n] = depends[d][g[n - 1] + 1]
                         THEN g[n - 1] + 1 ELSE g[n - 1]
        BY <3>2, <1>1
      <4> HIDE DEF g, Seen, Step
      <4> QED
        BY <4>2, <4>3, <4>4, <4>5, <1>1
    <3> QED
      BY <3>1, <3>2
  <2>2. g = [n \in 0 .. N |-> g[n]]
    OBVIOUS
  <2> HIDE DEF g, Step
  <2> QED
    BY <2>1, <2>2
<1>4. f = [n \in 0 .. N |-> Step(f, n)]
  <2> HIDE DEF g, Step
  <2> QED
    BY <1>3
<1>5. \A n \in 0 .. N : f[n] = g[n]
  <2> DEFINE P == {n \in Nat : n <= N => f[n] = g[n]}
  <2>1. 0 \in P
    <3>1. Step(f, 0) = Step(g, 0) /\ 0 \in 0 .. N
      OBVIOUS
    <3>2. f[0] = g[0]
      <4> HIDE DEF f, g, Step
      <4> QED
        BY <3>1, <1>3, <1>4
    <3> HIDE DEF f, g
    <3> QED
      BY <3>2
  <2>2. ASSUME NEW n \in Nat, n \in P
        PROVE  n + 1 \in P
    <3>1. CASE n + 1 <= N
      <4>1. f[n] = g[n]
        BY <2>2, <3>1
      <4>2. Step(f, n + 1) = Step(g, n + 1)
        BY <4>1
      <4>3. n + 1 \in 0 .. N
        BY <3>1
      <4> HIDE DEF f, g, Step
      <4> QED
        BY <4>2, <4>3, <1>3, <1>4
    <3>2. CASE ~(n + 1 <= N)
      BY <3>2
    <3> QED
      BY <3>1, <3>2
  <2>3. Nat \subseteq P
    <3> HIDE DEF P
    <3> QED
      BY <2>1, <2>2, CountingUp
  <2> HIDE DEF f, g
  <2> QED
    BY <2>3
<1>6. Met(d) = f[N]
  BY DEF Met
<1>7. Met(d) = IF Seen(N) THEN 1 ELSE 0
  BY <1>5, <1>6
<1>8. Seen(N) <=> Settles(e, d)
  BY DEF Settles
<1> QED
  BY <1>1, <1>7, <1>8 DEF IsOrdered

\* d depends on nothing, or stands behind what it depends on.
Settled(d) == depends[d] = << >> \/ Settles(depends[d][1], d)

Unsettled == {d \in Listed : ~Settled(d)}

Short == \A d \in Listed : ShortChain(d) /\ Mentioned(d) \subseteq Listed

NoneTwice == \A m, n \in 1 .. N : s[m] = s[n] => m = n

\* While the inner loop is on its way, this pass has done its share already, or
\* everything up to k is settled, or the definition at k is being moved back.
Progress ==
  /\ pc # "front" => Cardinality(Unsettled) <= N + 1 - j
  /\ pc = "back" /\ j <= N =>
       \/ Cardinality(Unsettled) <= N - j
       \/ \A m \in 1 .. k - 1 : Settled(s[m])
       \/ s[k] \in Unsettled

ChainInv ==
  /\ OrderInv
  /\ NoneTwice
  /\ pc = "back" /\ j <= N => k <= N
  /\ pc = "done" => j = N + 1
  /\ Short => Progress

\* What a chain of up to three looks like from its end.
LEMMA ShortLink ==
  ASSUME Short, NEW d \in Listed, depends[d] # << >>
  PROVE  \E e \in Listed :
           /\ depends[d] = <<e>> /\ d # e
           /\ depends[e] # << >> => \E f \in Listed : depends[e] = <<f>> /\ depends[f] = << >>
<1>1. \A x \in Listed : depends[x] # << >> =>
        \E y \in Listed : depends[x] = <<y>> /\ y \in Mentioned(x)
  <2> TAKE x \in Listed
  <2> HAVE depends[x] # << >>
  <2>1. depends[x] \in Seq(Globals) /\ Len(depends[x]) = 1
    <3>1. depends[x] \in Seq(Globals) /\ Len(depends[x]) <= 1
      BY DEF Short, ShortChain, MentionsOne
    <3>2. Len(depends[x]) \in Nat /\ Len(depends[x]) # 0
      BY <3>1
    <3>3. \A n \in Nat : n # 0 /\ n <= 1 => n = 1
      OBVIOUS
    <3> QED
      BY <3>1, <3>2, <3>3
  <2>2. depends[x] = <<depends[x][1]>> /\ depends[x][1] \in Mentioned(x)
    BY <2>1 DEF Mentioned
  <2> QED
    BY <2>2 DEF Short
<1>2. PICK e \in Listed : depends[d] = <<e>> /\ e \in Mentioned(d)
  BY <1>1
<1>3. \A f \in Mentioned(e) : depends[f] = << >>
  BY <1>2 DEF Short, ShortChain
<1>4. depends[e] # << >> => \E f \in Listed : depends[e] = <<f>> /\ depends[f] = << >>
  BY <1>1, <1>3
<1>5. d # e
  <2> SUFFICES ASSUME d = e
               PROVE  FALSE
    OBVIOUS
  <2>1. depends[d] = << >>
    BY <1>2, <1>3
  <2> QED
    BY <2>1
<1> QED
  BY <1>2, <1>4, <1>5

\* What depends on nothing stands in front of i, so that whoever mentions only
\* that is settled from the start.
LEMMA RootsFirst ==
  ASSUME OrderTypeOK, Sorted, pc = "back", NEW m \in i .. N, depends[s[m]] # << >>,
         NEW f \in Listed, depends[s[m]] = <<f>>, depends[f] = << >>
  PROVE  Settled(s[m])
<1>a. N \in Nat /\ i \in 1 .. N + 1
  BY ListSize DEF OrderTypeOK
<1>1. PICK p \in 1 .. N : s[p] = f
  BY DEF Listed
<1>2. p < i
  BY <1>a, <1>1 DEF Sorted
<1>3. \A q \in 1 .. p : depends[s[q]] = << >>
  BY <1>a, <1>2 DEF Sorted
<1>4. \A q \in 1 .. p : s[q] # s[m]
  BY <1>3
<1>5. Settles(f, s[m])
  BY <1>1, <1>4 DEF Settles
<1>6. depends[s[m]][1] = f
  OBVIOUS
<1> QED
  BY <1>5, <1>6 DEF Settled

\* is_common_ordered is right about chains.
LEMMA OrderedIsSettled ==
  ASSUME N \in Nat, Short, NEW d \in Listed, depends[d] # << >>
  PROVE  IsOrdered(d) <=> Settled(d)
<1>1. PICK e \in Listed : depends[d] = <<e>>
  BY ShortLink
<1>2. depends[d][1] = e
  BY <1>1
<1> QED
  BY <1>1, <1>2, MetOne DEF Settled

\* Moving a definition back that is not settled unsettles nothing else.
LEMMA MoveKeepsSettled ==
  ASSUME OrderTypeOK, Sorted, Short, pc = "back", NEW m \in i .. N - 1,
         s[m] \in Unsettled, Swap(m, m + 1), depends' = depends, given' = given,
         NEW d \in Listed, Settled(d)
  PROVE  Settled(d)'
<1>a. N \in Nat /\ N' = N /\ i \in 1 .. N + 1 /\ m \in 1 .. N /\ m + 1 \in 1 .. N
  BY ListSize DEF OrderTypeOK, N
<1>b. /\ s'[m + 1] = s[m] /\ s'[m] = s[m + 1]
      /\ \A q \in 1 .. N : q # m /\ q # m + 1 => s'[q] = s[q]
  BY <1>a DEF OrderTypeOK, Swap
<1> USE <1>a
<1>1. CASE depends[d] = << >>
  BY <1>1 DEF Settled
<1>2. CASE depends[d] # << >>
  <2>1. PICK e \in Listed :
          /\ depends[d] = <<e>>
          /\ depends[e] # << >> => \E f \in Listed : depends[e] = <<f>> /\ depends[f] = << >>
    BY <1>2, ShortLink
  <2>2. depends[d][1] = e /\ Settles(e, d)
    BY <1>2, <2>1 DEF Settled
  <2>3. e # s[m]
    <3> SUFFICES ASSUME e = s[m]
                 PROVE  FALSE
      OBVIOUS
    <3>1. ~Settled(s[m]) /\ depends[s[m]] # << >>
      BY DEF Unsettled, Settled
    <3>2. PICK f \in Listed : depends[s[m]] = <<f>> /\ depends[f] = << >>
      BY <2>1, <3>1
    <3>3. m \in i .. N
      OBVIOUS
    <3> QED
      BY <3>1, <3>2, <3>3, RootsFirst
  <2>4. PICK p \in 1 .. N : s[p] = e /\ \A q \in 1 .. p : s[q] # d
    BY <2>2 DEF Settles
  <2>5. p # m
    BY <2>3, <2>4
  <2>6. CASE p < m
    <3>1. s'[p] = e /\ \A q \in 1 .. p : s'[q] # d
      BY <1>b, <2>4, <2>6
    <3> QED
      BY <3>1, <2>2 DEF Settled, Settles
  <2>7. CASE p = m + 1
    <3>1. s'[m] = e
      BY <1>b, <2>4, <2>7
    <3>2. \A q \in 1 .. m : s'[q] # d
      BY <1>b, <2>4, <2>7
    <3> QED
      BY <3>1, <3>2, <2>2 DEF Settled, Settles
  <2>8. CASE p > m + 1
    <3>1. s'[p] = e
      BY <1>b, <2>4, <2>8
    <3>2. \A q \in 1 .. p : s'[q] # d
      BY <1>b, <2>4, <2>8
    <3> QED
      BY <3>1, <3>2, <2>2 DEF Settled, Settles
  <2> QED
    BY <2>5, <2>6, <2>7, <2>8
<1> QED
  BY <1>1, <1>2

LEMMA ListFinite ==
  ASSUME OrderTypeOK
  PROVE  /\ IsFiniteSet(Unsettled) /\ Cardinality(Unsettled) \in Nat
         /\ IsFiniteSet(Listed)
<1>a. N \in Nat /\ s \in [1 .. N -> Globals]
  BY ListSize DEF OrderTypeOK
<1>1. s \in Surjection(1 .. N, Listed)
  BY <1>a DEF Surjection, Listed
<1>2. IsFiniteSet(1 .. N)
  BY <1>a, FS_Interval
<1>3. IsFiniteSet(Listed)
  BY <1>1, <1>2, FS_Surjection
<1>4. Unsettled \in SUBSET Listed
  BY DEF Unsettled
<1> QED
  BY <1>3, <1>4, FS_Subset, FS_CardinalityType

LEMMA CompareChains == ChainInv /\ Compare => ChainInv'
<1> SUFFICES ASSUME ChainInv, Compare
             PROVE  ChainInv'
  OBVIOUS
<1>1. OrderInv' /\ OrderTypeOK /\ Permutation /\ Sorted /\ NoneTwice
  BY CompareOrder DEF ChainInv, OrderInv
<1>a. N \in Nat /\ N' = N /\ given' = given
  BY <1>1, ListSize DEF N, Compare
<1> USE <1>a
<1>2. /\ pc = "back" /\ j \in 1 .. N /\ k \in 1 .. N - 1 /\ i <= k /\ i \in 1 .. N + 1
      /\ depends' = depends /\ pc' = pc /\ i' = i /\ j' = j /\ k' = k + 1
      /\ k \in i .. N - 1
  BY <1>1 DEF Sorted, OrderTypeOK, Compare
<1>3. s \in [1 .. N -> Globals] /\ s[k] \in Listed /\ depends[s[k]] # << >>
  BY <1>1, <1>2 DEF OrderTypeOK, Listed, Sorted
<1>4. CASE IsOrdered(s[k])
  <2>1. s' = s
    BY <1>4 DEF Compare
  <2>2. \A d : Settled(d)' <=> Settled(d)
    BY <2>1, <1>2 DEF Settled, Settles
  <2>3. Listed' = Listed /\ Unsettled' = Unsettled
    BY <2>1, <2>2 DEF Listed, Unsettled
  <2>4. Short' <=> Short
    BY <2>3, <1>2 DEF Short, ShortChain, MentionsOne, Mentioned
  <2>5. ASSUME Short
        PROVE  Progress'
    <3>1. Progress /\ Settled(s[k])
      BY <2>5, <1>3, <1>4, OrderedIsSettled DEF ChainInv
    <3>2. CASE Cardinality(Unsettled) <= N - j
      BY <3>2, <2>3, <1>2, <1>1, ListFinite DEF Progress
    <3>3. CASE \A m \in 1 .. k - 1 : Settled(s[m])
      <4>1. \A m \in 1 .. k : Settled(s[m])
        BY <3>1, <3>3, <1>2
      <4>2. \A m \in 1 .. k' - 1 : Settled(s[m])'
        BY <4>1, <2>1, <2>2, <1>2
      <4> QED
        BY <4>2, <3>1, <2>3, <1>2 DEF Progress
    <3>4. CASE s[k] \in Unsettled
      BY <3>1, <3>4 DEF Unsettled
    <3> QED
      BY <3>1, <3>2, <3>3, <3>4, <1>2 DEF Progress
  <2>6. NoneTwice'
    BY <2>1, <1>1 DEF NoneTwice
  <2> QED
    BY <2>4, <2>5, <2>6, <1>1, <1>2 DEF ChainInv
<1>5. CASE ~IsOrdered(s[k])
  <2>1. Swap(k, k + 1)
    BY <1>5 DEF Compare
  <2>2. k \in 1 .. N /\ k + 1 \in 1 .. N
    BY <1>2
  <2>3. /\ s' \in [1 .. N -> Globals]
        /\ s'[k + 1] = s[k] /\ s'[k] = s[k + 1]
        /\ \A q \in 1 .. N : q # k /\ q # k + 1 => s'[q] = s[q]
    BY <1>1, <2>1, <2>2, SwapPermutes
  <2>4. Listed' = Listed
    <3>1. \A q \in 1 .. N : \E p \in 1 .. N : s'[q] = s[p]
      BY <2>2, <2>3
    <3>2. \A q \in 1 .. N : \E p \in 1 .. N : s[q] = s'[p]
      BY <2>2, <2>3
    <3> QED
      BY <3>1, <3>2 DEF Listed
  <2>5. Short' <=> Short
    BY <2>4, <1>2 DEF Short, ShortChain, MentionsOne, Mentioned
  <2>6. NoneTwice'
    BY <2>2, <2>3, <1>1 DEF NoneTwice
  <2>7. ASSUME Short
        PROVE  Progress'
    <3>1. Progress /\ s[k] \in Unsettled
      BY <2>7, <1>3, <1>5, OrderedIsSettled DEF ChainInv, Unsettled
    <3>2. Unsettled' \subseteq Unsettled
      <4>1. \A d \in Listed : Settled(d) => Settled(d)'
        BY <3>1, <2>1, <2>7, <1>1, <1>2, MoveKeepsSettled
      <4> QED
        BY <4>1, <2>4 DEF Unsettled
    <3>3. /\ IsFiniteSet(Unsettled) /\ Cardinality(Unsettled) \in Nat
          /\ Cardinality(Unsettled') \in Nat
          /\ Cardinality(Unsettled') <= Cardinality(Unsettled)
          /\ Cardinality(Unsettled') = Cardinality(Unsettled) => Unsettled' = Unsettled
      BY <3>2, <1>1, ListFinite, FS_Subset, FS_CardinalityType
    <3>4. CASE s[k] \in Unsettled'
      BY <3>1, <3>3, <3>4, <2>3, <1>2 DEF Progress
    <3>5. CASE s[k] \notin Unsettled'
      <4>1. Cardinality(Unsettled') <= Cardinality(Unsettled) - 1
        BY <3>1, <3>3, <3>5
      <4> QED
        BY <4>1, <3>1, <3>3, <1>2 DEF Progress
    <3> QED
      BY <3>4, <3>5
  <2> QED
    BY <2>5, <2>6, <2>7, <1>1, <1>2 DEF ChainInv
<1> QED
  BY <1>4, <1>5

\* At its end a pass has settled one definition at least, if one was left.
LEMMA PassSettlesOne ==
  ASSUME ChainInv, Short, pc = "back", j <= N, k >= N
  PROVE  Cardinality(Unsettled) <= N - j
<1>1. OrderTypeOK /\ Permutation /\ Sorted /\ NoneTwice /\ Progress /\ k = N /\ N \in Nat
  BY ListSize DEF ChainInv, OrderInv, OrderTypeOK
<1>2. /\ j \in 1 .. N /\ N \in 1 .. N /\ s \in [1 .. N -> Globals]
      /\ s[N] \in Listed
  BY <1>1 DEF OrderTypeOK, Listed
<1>3. Settled(s[N])
  <2>1. CASE depends[s[N]] = << >>
    BY <2>1 DEF Settled
  <2>2. CASE depends[s[N]] # << >>
    <3>1. PICK e \in Listed : depends[s[N]] = <<e>> /\ s[N] # e
      BY <2>2, <1>2, ShortLink
    <3>2. PICK p \in 1 .. N : s[p] = e
      BY DEF Listed
    <3>3. p < N
      BY <3>1, <3>2, <1>1
    <3>4. \A q \in 1 .. p : s[q] # s[N]
      BY <3>3, <1>1, <1>2 DEF NoneTwice
    <3>5. depends[s[N]][1] = e
      BY <3>1
    <3> QED
      BY <3>2, <3>4, <3>5 DEF Settled, Settles
  <2> QED
    BY <2>1, <2>2
<1>4. CASE \A m \in 1 .. k - 1 : Settled(s[m])
  <2>1. \A m \in 1 .. N : Settled(s[m])
    BY <1>1, <1>3, <1>4
  <2>2. Unsettled = {}
    BY <2>1 DEF Unsettled, Listed
  <2>3. Cardinality(Unsettled) = 0
    BY <2>2, FS_EmptySet
  <2> QED
    BY <2>3, <1>2
<1> QED
  BY <1>1, <1>3, <1>4 DEF Progress, Unsettled

\* There are no more definitions to settle than passes to come.
LEMMA FirstPass ==
  ASSUME ChainInv, FrontDone
  PROVE  Cardinality(Unsettled) <= N + 1 - i
<1>1. OrderTypeOK /\ Sorted /\ N \in Nat /\ s \in [1 .. N -> Globals] /\ i \in 1 .. N + 1
      /\ pc = "front" /\ j > N
  BY ListSize DEF ChainInv, OrderInv, OrderTypeOK, FrontDone
<1> DEFINE Rest == {s[m] : m \in i .. N}
           f == [m \in i .. N |-> s[m]]
<1>2. f \in Surjection(i .. N, Rest)
  BY DEF Surjection
<1>3. IsFiniteSet(i .. N) /\ Cardinality(i .. N) = N + 1 - i
  <2>1. Cardinality(i .. N) = IF i > N THEN 0 ELSE N - i + 1
    BY <1>1, FS_Interval
  <2>2. IsFiniteSet(i .. N)
    BY <1>1, FS_Interval
  <2> QED
    BY <1>1, <2>1, <2>2
<1>4. IsFiniteSet(Rest) /\ Cardinality(Rest) <= N + 1 - i
  <2> HIDE DEF f, Rest
  <2> QED
    BY <1>2, <1>3, FS_Surjection
<1>5. Unsettled \in SUBSET Rest
  <2> SUFFICES ASSUME NEW d \in Unsettled
               PROVE  d \in Rest
    OBVIOUS
  <2>1. PICK m \in 1 .. N : d = s[m]
    BY DEF Unsettled, Listed
  <2>2. depends[s[m]] # << >>
    BY <2>1 DEF Unsettled, Settled
  <2>3. m >= i
    BY <1>1, <2>2 DEF Sorted
  <2> QED
    BY <2>1, <2>3, <1>1
<1>6. Cardinality(Unsettled) <= Cardinality(Rest)
  <2> HIDE DEF Rest
  <2> QED
    BY <1>4, <1>5, FS_Subset
<1>7. Cardinality(Unsettled) \in Nat /\ Cardinality(Rest) \in Nat
  <2> HIDE DEF Rest
  <2> QED
    BY <1>1, <1>4, ListFinite, FS_CardinalityType
<1> HIDE DEF Rest
<1> QED
  BY <1>1, <1>4, <1>6, <1>7

LEMMA BeginChains == Begun => ChainInv
<1> SUFFICES ASSUME Begun
             PROVE  ChainInv
  OBVIOUS
<1>1. NoneTwice
  BY DEF Begun, Distinct, NoneTwice, N
<1> QED
  BY <1>1, BeginOrder DEF ChainInv, Begun, Progress

LEMMA FrontChains == ChainInv /\ Front => ChainInv'
<1> SUFFICES ASSUME ChainInv, Front
             PROVE  ChainInv'
  OBVIOUS
<1>1. OrderInv' /\ OrderTypeOK /\ Sorted /\ NoneTwice
  BY FrontOrder DEF ChainInv, OrderInv
<1>a. N \in Nat /\ N' = N
  BY <1>1, ListSize DEF N, Front
<1>2. pc = "front" /\ pc' = "front" /\ j \in 1 .. N /\ i \in 1 .. N /\ s \in [1 .. N -> Globals]
  BY <1>1, <1>a DEF OrderTypeOK, Front, Sorted
<1>3. NoneTwice'
  <2>1. CASE s' = s
    BY <2>1, <1>1, <1>a DEF NoneTwice
  <2>2. CASE Swap(i, j)
    BY <2>2, <1>1, <1>2, <1>a DEF NoneTwice, Swap
  <2> QED
    BY <2>1, <2>2 DEF Front
<1>4. Progress'
  BY <1>2 DEF Progress
<1> QED
  BY <1>1, <1>2, <1>3, <1>4 DEF ChainInv

\* What a step does that leaves the list alone.
LEMMA ListStays ==
  ASSUME s' = s, given' = given, depends' = depends
  PROVE  /\ Unsettled' = Unsettled
         /\ Short' <=> Short
         /\ NoneTwice' <=> NoneTwice
         /\ \A d : Settled(d)' <=> Settled(d)
<1>1. N' = N
  BY DEF N
<1>2. \A d : Settled(d)' <=> Settled(d)
  BY <1>1 DEF Settled, Settles
<1>3. Listed' = Listed
  BY <1>1 DEF Listed
<1>4. Short' <=> Short
  BY <1>3 DEF Short, ShortChain, MentionsOne, Mentioned
<1>5. NoneTwice' <=> NoneTwice
  BY <1>1 DEF NoneTwice
<1> QED
  BY <1>2, <1>3, <1>4, <1>5 DEF Unsettled

LEMMA NextChains == ChainInv /\ [OrderNext]_orderVars => ChainInv'
<1> SUFFICES ASSUME ChainInv, [OrderNext]_orderVars
             PROVE  ChainInv'
  OBVIOUS
<1>1. OrderInv' /\ OrderTypeOK /\ Sorted /\ NoneTwice
  BY NextOrder DEF ChainInv, OrderInv
<1>a. N \in Nat /\ N' = N
  BY <1>1, ListSize DEF N, OrderNext, Front, FrontDone, Compare, NextPass, Finish, orderVars
<1>b. i \in 1 .. N + 1 /\ j \in 1 .. N + 1 /\ k \in 1 .. N + 1
  BY <1>1 DEF OrderTypeOK
<1>c. Cardinality(Unsettled) \in Nat
  BY <1>1, ListFinite
<1>2. CASE Front
  BY <1>2, FrontChains
<1>3. CASE FrontDone
  <2>1. /\ pc' = "back" /\ j' = i /\ k' = i /\ i' = i
        /\ s' = s /\ given' = given /\ depends' = depends
    BY <1>3 DEF FrontDone
  <2>2. ASSUME Short
        PROVE  Progress'
    <3>1. Cardinality(Unsettled) <= N + 1 - i
      BY <1>3, FirstPass
    <3>2. \A m \in 1 .. i - 1 : Settled(s[m])
      <4>1. \A m \in 1 .. i - 1 : depends[s[m]] = << >>
        <5> TAKE m \in 1 .. i - 1
        <5>1. m \in 1 .. N /\ m < i /\ i <= j /\ pc = "front"
          BY <1>a, <1>b, <1>3, <1>1 DEF FrontDone, Sorted
        <5> QED
          BY <5>1, <1>1 DEF Sorted
      <4> QED
        BY <4>1 DEF Settled
    <3>3. \A m \in 1 .. k' - 1 : Settled(s[m])'
      BY <3>2, <2>1, ListStays
    <3> QED
      BY <3>1, <3>3, <2>1, <1>a, ListStays DEF Progress
  <2> QED
    BY <2>1, <2>2, <1>1, <1>a, <1>b, ListStays DEF ChainInv
<1>4. CASE Compare
  BY <1>4, CompareChains
<1>5. CASE NextPass
  <2>1. /\ pc = "back" /\ pc' = "back" /\ j <= N /\ k >= N
        /\ j' = j + 1 /\ k' = i /\ i' = i
        /\ s' = s /\ given' = given /\ depends' = depends
    BY <1>5 DEF NextPass
  <2>2. ASSUME Short
        PROVE  Progress'
    <3>1. Cardinality(Unsettled) <= N - j
      BY <2>1, <2>2, PassSettlesOne
    <3>2. \A m \in 1 .. i - 1 : Settled(s[m])
      <4>1. \A m \in 1 .. i - 1 : depends[s[m]] = << >>
        BY <1>a, <1>b, <2>1, <1>1 DEF Sorted
      <4> QED
        BY <4>1 DEF Settled
    <3>3. \A m \in 1 .. k' - 1 : Settled(s[m])'
      BY <3>2, <2>1, ListStays
    <3>4. Cardinality(Unsettled)' <= N' + 1 - j'
      BY <3>1, <2>1, <1>a, <1>b, <1>c, ListStays
    <3> QED
      BY <3>3, <3>4, <2>1 DEF Progress
  <2>3. i <= k /\ k <= N
    BY <2>1, <1>1 DEF ChainInv, Sorted
  <2> QED
    BY <2>1, <2>2, <2>3, <1>1, <1>a, <1>b, ListStays DEF ChainInv
<1>6. CASE Finish
  <2>1. /\ pc = "back" /\ pc' = "done" /\ j > N /\ j' = j
        /\ s' = s /\ given' = given /\ depends' = depends
    BY <1>6 DEF Finish
  <2>2. Short => Progress'
    BY <2>1, <1>a, ListStays DEF ChainInv, Progress
  <2> QED
    BY <2>1, <2>2, <1>1, <1>a, <1>b, ListStays DEF ChainInv
<1>7. CASE UNCHANGED orderVars
  <2>1. /\ pc' = pc /\ j' = j /\ k' = k
        /\ s' = s /\ given' = given /\ depends' = depends
    BY <1>7 DEF orderVars
  <2>2. Short => Progress'
    BY <2>1, <1>a, ListStays DEF ChainInv, Progress
  <2> QED
    BY <2>1, <2>2, <1>1, <1>a, ListStays DEF ChainInv
<1> QED
  BY <1>2, <1>3, <1>4, <1>5, <1>6, <1>7 DEF OrderNext

LEMMA ChainsAreOrdered == ChainInv => ShortChainsOrdered
<1> SUFFICES ASSUME ChainInv, Short, pc = "done",
                    NEW m \in 1 .. N, NEW n \in 1 .. Len(depends[s[m]]),
                    depends[s[m]][n] \in Globals
             PROVE  Before(depends[s[m]][n], s[m])
  BY DEF ShortChainsOrdered, DependsFirst, Short
<1>1. OrderTypeOK /\ Progress /\ j = N + 1 /\ N \in Nat
  BY ListSize DEF ChainInv, OrderInv
<1>2. Unsettled = {}
  <2>1. /\ IsFiniteSet(Unsettled) /\ Cardinality(Unsettled) \in Nat
        /\ Cardinality(Unsettled) <= 0
    BY <1>1, ListFinite DEF Progress
  <2>2. Cardinality(Unsettled) = 0
    BY <2>1
  <2> QED
    BY <2>1, <2>2, FS_EmptySet
<1>3. s[m] \in Listed /\ Settled(s[m])
  BY <1>2 DEF Unsettled, Listed
<1>4. depends[s[m]] # << >>
  OBVIOUS
<1>5. PICK e \in Listed : depends[s[m]] = <<e>>
  BY <1>3, <1>4, ShortLink
<1>6. n = 1 /\ depends[s[m]][n] = e
  BY <1>5
<1>7. PICK p \in 1 .. N : s[p] = e /\ \A q \in 1 .. p : s[q] # s[m]
  BY <1>3, <1>4, <1>6 DEF Settled, Settles
<1>8. p < m
  BY <1>1, <1>7
<1> QED
  BY <1>6, <1>7, <1>8 DEF Before

\* Definitions all of which are in chains of up to three are in order when
\* order_common is done, however many there are and however they were given.
THEOREM ChainsComeInOrder == OrderSpec => []ShortChainsOrdered
  BY InitBegins, BeginChains, NextChains, ChainsAreOrdered, PTL DEF OrderSpec

-----------------------------------------------------------------------------
(* The middle end *)

\* The list was collected when the elimination was over, or had not been asked
\* for; nothing is removed from then on.
MInv ==
  /\ DInv
  /\ depends = [d \in Globals |-> Depends(d)]
  /\ pc \in {"analysed", "front", "back", "done"}
  /\ pc = "analysed" => i = 1 /\ j = 1 /\ k = 1
  /\ pc # "analysed" => /\ Eliminated \/ (turn = 1 /\ at = 0)
                        /\ given = AllVariables
                        /\ ChainInv

LEMMA DependsIs ==
  ASSUME mentions \in [Defs -> Seq(Defs)], NEW d \in Defs
  PROVE  /\ Depends(d) \in Seq(Globals \cup Others)
         /\ Members(Depends(d)) = Members(mentions[d]) \cap (Globals \cup Others)
<1> DEFINE V == Globals \cup Others
           g == Only(mentions[d], V)
<1>1. g \in Seq(Defs) /\ Members(g) = Members(mentions[d]) \cap V
  <2> HIDE DEF V
  <2>1. mentions[d] \in Seq(Defs)
    OBVIOUS
  <2> QED
    BY <2>1, OnlyIs
<1> HIDE DEF g, V
<1>2. Len(g) \in Nat /\ g = [x \in 1 .. Len(g) |-> g[x]] /\ \A x \in 1 .. Len(g) : g[x] \in V
  BY <1>1 DEF Members
<1>3. g \in Seq(V)
  BY <1>2
<1> QED
  BY <1>1, <1>3 DEF Depends, g, V

LEMMA VariablesLeft ==
  /\ AllVariables \in Seq(Globals \ removed)
  /\ AllVariables \in Seq(Globals)
  /\ Members(AllVariables) = Globals \ removed
  /\ Distinct(AllVariables)
<1> DEFINE V == Globals \ removed
<1>1. V \subseteq {d \in Defs : Kind[d] # "method"}
  BY GlobalsAssumption
<1>2. /\ Gathered(V) \in Seq(V) /\ Members(Gathered(V)) = V /\ Distinct(Gathered(V))
  <2> HIDE DEF V
  <2> QED
    BY <1>1, GatheredIs
<1>3. Gathered(V) \in Seq(Globals)
  <2> DEFINE g == Gathered(V)
  <2>1. g \in Seq(V) /\ V \subseteq Globals
    BY <1>2
  <2> HIDE DEF g, V
  <2> QED
    BY <2>1 DEF g
<1> QED
  BY <1>2, <1>3 DEF AllVariables

LEMMA InitMiddle == InitIR => MInv
<1> SUFFICES ASSUME InitIR
             PROVE  MInv
  OBVIOUS
<1>1. DInv
  BY InitDead DEF InitIR
<1> QED
  BY <1>1 DEF InitIR, MInv

LEMMA VariablesStay ==
  ASSUME UNCHANGED vars
  PROVE  /\ AllVariables' = AllVariables
         /\ Eliminated' = Eliminated
         /\ \A d \in Globals : Depends(d)' = Depends(d)
BY DEF vars, AllVariables, Eliminated, Eliminating, Depends

LEMMA NextMiddle == MInv /\ [NextIR]_ir => MInv'
<1> SUFFICES ASSUME MInv, [NextIR]_ir
             PROVE  MInv'
  OBVIOUS
<1>1. DInv'
  <2>1. [Next]_vars
    BY DEF NextIR, Eliminate, Collect, OrderVariables, ir
  <2> QED
    BY <2>1, NextDead DEF MInv
<1>2. CASE Eliminate
  <2>1. pc = "analysed" /\ UNCHANGED <<depends, given, s, pc, i, j, k>>
    BY <1>2 DEF Eliminate, orderVars
  <2>2. mentions' = mentions
    BY <1>2 DEF Eliminate, Next, CatchInit, Examine, NextPackage
  <2>3. depends' = [d \in Globals |-> Depends(d)']
    BY <2>1, <2>2 DEF MInv, Depends
  <2> QED
    BY <1>1, <2>1, <2>3 DEF MInv
<1>3. CASE Collect
  <2>1. /\ pc = "analysed" /\ pc' = "front" /\ given' = AllVariables /\ s' = given'
        /\ Eliminated \/ (turn = 1 /\ at = 0)
        /\ UNCHANGED <<vars, depends, i, j, k>>
    BY <1>3 DEF Collect
  <2>2. /\ AllVariables' = AllVariables /\ Eliminated' = Eliminated /\ UNCHANGED <<turn, at>>
        /\ \A d \in Globals : Depends(d)' = Depends(d)
    BY <2>1, VariablesStay DEF vars
  <2>3. depends' = [d \in Globals |-> Depends(d)']
    BY <2>1, <2>2 DEF MInv
  <2>4. Begun'
    <3>1. given' \in Seq(Globals) /\ Distinct(given)'
      BY <2>1, VariablesLeft DEF Distinct
    <3>2. depends' \in [Globals -> Seq(Globals \cup Others)]
      <4>1. \A d \in Globals : Depends(d) \in Seq(Globals \cup Others)
        BY DependsIs, GlobalsAssumption DEF MInv, DInv, TypeOK
      <4> QED
        BY <4>1, <2>1 DEF MInv
    <3>3. i' = 1 /\ j' = 1 /\ k' = 1
      BY <2>1 DEF MInv
    <3> QED
      BY <2>1, <3>1, <3>2, <3>3 DEF Begun
  <2>5. ChainInv'
    <3>1. (Begun => ChainInv)'
      BY BeginChains, PTL
    <3> QED
      BY <2>4, <3>1
  <2> QED
    BY <1>1, <2>1, <2>2, <2>3, <2>5 DEF MInv
<1>4. CASE OrderVariables
  <2>1. OrderNext /\ UNCHANGED vars
    BY <1>4 DEF OrderVariables
  <2>2. pc \in {"front", "back"} /\ pc' \in {"front", "back", "done"} /\ given' = given /\ depends' = depends
    BY <2>1 DEF OrderNext, Front, FrontDone, Compare, NextPass, Finish
  <2>3. ChainInv'
    BY <2>1, <2>2, NextChains DEF MInv
  <2>4. /\ AllVariables' = AllVariables /\ Eliminated' = Eliminated /\ UNCHANGED <<turn, at>>
        /\ \A d \in Globals : Depends(d)' = Depends(d)
    BY <2>1, VariablesStay DEF vars
  <2>5. depends' = [d \in Globals |-> Depends(d)']
    BY <2>2, <2>4 DEF MInv
  <2> QED
    BY <1>1, <2>2, <2>3, <2>4, <2>5 DEF MInv
<1>5. CASE UNCHANGED ir
  <2>1. UNCHANGED vars /\ UNCHANGED <<depends, given, s, pc, i, j, k>>
    BY <1>5 DEF ir, orderVars
  <2>2. ChainInv => ChainInv'
    BY <2>1, NextChains DEF orderVars
  <2>3. /\ AllVariables' = AllVariables /\ Eliminated' = Eliminated /\ UNCHANGED <<turn, at>>
        /\ \A d \in Globals : Depends(d)' = Depends(d)
    BY <2>1, VariablesStay DEF vars
  <2>4. depends' = [d \in Globals |-> Depends(d)']
    BY <2>1, <2>3 DEF MInv
  <2> QED
    BY <1>1, <2>1, <2>2, <2>3, <2>4 DEF MInv
<1> QED
  BY <1>2, <1>3, <1>4, <1>5 DEF NextIR

\* Two lists without repetition that are as long as each other have the same
\* members when the one has those of the other.
LEMMA SameMembers ==
  ASSUME NEW T, NEW l \in Seq(T), NEW r \in Seq(T), Len(l) = Len(r),
         Distinct(l), Distinct(r), Members(l) \subseteq Members(r)
  PROVE  Members(l) = Members(r) /\ Len(r) = Cardinality(Members(r))
<1>1. ASSUME NEW q \in Seq(T), Distinct(q)
      PROVE  IsFiniteSet(Members(q)) /\ Cardinality(Members(q)) = Len(q)
  <2>1. Len(q) \in Nat
    OBVIOUS
  <2>2. ExistsBijection(1 .. Len(q), Members(q))
    <3> DEFINE h == [x \in 1 .. Len(q) |-> q[x]]
    <3>a. DOMAIN h = 1 .. Len(q) /\ \A x \in 1 .. Len(q) : h[x] = q[x]
      OBVIOUS
    <3> HIDE DEF h
    <3>b. h \in [1 .. Len(q) -> Members(q)]
      <4>1. h = [x \in 1 .. Len(q) |-> h[x]] /\ \A x \in 1 .. Len(q) : h[x] \in Members(q)
        BY <3>a DEF Members, h
      <4> QED
        BY <4>1
    <3>c. \A x, y \in 1 .. Len(q) : h[x] = h[y] => x = y
      BY <1>1, <3>a DEF Distinct
    <3>d. \A e \in Members(q) : \E x \in 1 .. Len(q) : h[x] = e
      BY <3>a DEF Members
    <3>1. h \in Bijection(1 .. Len(q), Members(q))
      BY <3>a, <3>b, <3>c, <3>d DEF Bijection, Injection, Surjection, IsInjective
    <3> QED
      BY <3>1 DEF ExistsBijection
  <2>3. IsFiniteSet(1 .. Len(q))
    BY <2>1, FS_Interval
  <2> QED
    BY <2>1, <2>2, <2>3, FS_Bijection, FS_CountingElements
<1>2. /\ IsFiniteSet(Members(l)) /\ Cardinality(Members(l)) = Len(l)
      /\ IsFiniteSet(Members(r)) /\ Cardinality(Members(r)) = Len(r)
  BY <1>1
<1> QED
  BY <1>2, FS_Subset

LEMMA LeftAreOrdered ==
  ASSUME MInv
  PROVE  OrderedAreLeft
<1> SUFFICES ASSUME Ordered
             PROVE  Members(s) = Globals \ removed /\ Len(s) = Cardinality(Members(s))
  BY DEF OrderedAreLeft
<1>1. ChainInv /\ given = AllVariables
  BY DEF MInv, Ordered
<1>2. given \in Seq(Globals) /\ Members(given) = Globals \ removed /\ Distinct(given)
  BY <1>1, VariablesLeft
<1>3. /\ s \in [1 .. Len(given) -> Globals]
      /\ \A m \in 1 .. Len(given) : \E n \in 1 .. Len(given) : s[n] = given[m]
      /\ \A m, n \in 1 .. Len(given) : s[m] = s[n] => m = n
  BY <1>1 DEF ChainInv, OrderInv, OrderTypeOK, Permutation, NoneTwice, N
<1>4. s \in Seq(Globals) /\ Len(s) = Len(given)
  <2> DEFINE n == Len(given)
  <2>1. n \in Nat /\ s \in [1 .. n -> Globals]
    BY <1>2, <1>3
  <2> HIDE DEF n
  <2>2. s \in Seq(Globals) /\ Len(s) = n
    BY <2>1
  <2> QED
    BY <2>2 DEF n
<1>5. Distinct(s) /\ Members(given) \subseteq Members(s)
  BY <1>3, <1>4 DEF Distinct, Members
<1> QED
  BY <1>2, <1>4, <1>5, SameMembers

\* What a variable that is left mentions is left.
LEMMA LeftIsClosed ==
  ASSUME MInv, Ordered, NEW d \in Globals \ removed, NEW e \in Members(mentions[d]), e \in Globals
  PROVE  e \notin removed
<1>1. DInv /\ (Eliminated \/ (turn = 1 /\ at = 0))
  BY DEF MInv, Ordered
<1>2. CASE Eliminated
  BY <1>1, <1>2, KeptIsClosed, GlobalsAssumption DEF ClosedButForInit, Kept
<1>3. CASE turn = 1 /\ at = 0
  BY <1>1, <1>3, Places DEF DInv, Examined
<1> QED
  BY <1>1, <1>2, <1>3

LEMMA LeftAreInitialised ==
  ASSUME MInv
  PROVE  InitialisedBefore
<1> SUFFICES ASSUME Ordered, \A d \in Members(s) : ShortChain(d),
                    NEW d \in Members(s), NEW e \in Members(Depends(d))
             PROVE  Before(e, d)
  BY DEF InitialisedBefore
<1>1. ChainInv /\ given = AllVariables /\ DInv /\ depends = [x \in Globals |-> Depends(x)]
      /\ mentions \in [Defs -> Seq(Defs)] /\ pc = "done"
  BY DEF MInv, Ordered, DInv, TypeOK
<1>2. /\ given \in Seq(Globals) /\ s \in [1 .. Len(given) -> Globals] /\ Len(given) \in Nat
      /\ N = Len(given) /\ Len(s) = Len(given)
  <2>1. given \in Seq(Globals) /\ s \in [1 .. Len(given) -> Globals] /\ N = Len(given)
    BY <1>1, VariablesLeft DEF ChainInv, OrderInv, OrderTypeOK, N
  <2>2. Len(given) \in Nat
    BY <2>1
  <2> QED
    BY <2>1, <2>2
<1>3. Members(s) = Globals \ removed /\ Members(s) = Listed
  BY <1>2, LeftAreOrdered DEF OrderedAreLeft, Listed, Members
<1>4. \A x \in Listed : ShortChain(x) /\ Mentioned(x) \subseteq Listed
  <2> TAKE x \in Listed
  <2>1. ShortChain(x) /\ x \in Globals \ removed /\ x \in Defs
    BY <1>3, GlobalsAssumption
  <2>2. ShortChain(x)
    BY <2>1 DEF ShortChain, MentionsOne,
                Mentioned
  <2>3. Mentioned(x) = Members(Depends(x))
    BY <1>1, <2>1 DEF Mentioned, Members
  <2>4. Mentioned(x) \subseteq Globals
    <3>1. depends[x] \in Seq(Globals)
      BY <2>2 DEF ShortChain, MentionsOne
    <3> QED
      BY <3>1 DEF Mentioned
  <2>5. Mentioned(x) \subseteq Globals \ removed
    BY <1>1, <2>1, <2>3, <2>4, DependsIs, LeftIsClosed
  <2> QED
    BY <1>3, <2>2, <2>5
<1>5. DependsFirst
  BY <1>1, <1>4, ChainsAreOrdered DEF ShortChainsOrdered
<1>6. PICK m \in 1 .. Len(given) : s[m] = d
  BY <1>2 DEF Members
<1>7. PICK n \in 1 .. Len(depends[d]) : depends[d][n] = e
  BY <1>1, <1>3 DEF Members
<1>8. e \in Globals
  <2>1. Mentioned(d) \subseteq Listed
    BY <1>3, <1>4
  <2> QED
    BY <1>3, <1>7, <2>1 DEF Mentioned
<1>9. Before(e, d)
  BY <1>1, <1>2, <1>5, <1>6, <1>7, <1>8 DEF DependsFirst
<1> QED
  BY <1>9 DEF Before, N

-----------------------------------------------------------------------------

LEMMA MiddleInvariance == SpecIR => []MInv
  BY InitMiddle, NextMiddle, PTL DEF SpecIR

\* compile_command eliminates as eliminate does, if at all: what the theorems
\* above say of Spec, is true of SpecIR.
THEOREM MiddleEndEliminates == SpecIR => Spec
<1>1. InitIR => Init
  BY DEF InitIR
<1>2. [NextIR]_ir => [Next]_vars
  BY DEF NextIR, Eliminate, Collect, OrderVariables, ir
<1> QED
  BY <1>1, <1>2, PTL DEF SpecIR, Spec

\* The list that the generator is given has exactly the variables that were not
\* removed, each once.
THEOREM WhatIsLeftIsOrdered == SpecIR => []OrderedAreLeft
<1>1. MInv => OrderedAreLeft
  BY LeftAreOrdered
<1> QED
  BY <1>1, MiddleInvariance, PTL

\* When all variables that are left name one other at most, in chains of up to
\* three, each finds it initialised: it was not removed, and it comes first.
THEOREM WhatIsLeftIsInitialised == SpecIR => []InitialisedBefore
<1>1. MInv => InitialisedBefore
  BY LeftAreInitialised
<1> QED
  BY <1>1, MiddleInvariance, PTL

-----------------------------------------------------------------------------
(* Why the middle end ends *)

\* How many of the numbers from x to n there are.
UpTo(n, x) == IF x <= n THEN n + 1 - x ELSE 0

\* What lies before it: stages; then packages, or turns of the loop at hand;
\* and definitions of the package, or turns of the inner loop.
Stages == CASE pc = "analysed" -> 3 [] pc = "front" -> 2 [] pc = "back" -> 1 [] OTHER -> 0
Turns == IF pc = "analysed" THEN UpTo(Len(Order), turn) ELSE UpTo(N, j)
Steps ==
  IF pc = "analysed" THEN IF Eliminating THEN UpTo(Len(Work[Package]), at) ELSE 0
  ELSE UpTo(N, k)

\* The lexicographic order of the three, which descends only finitely often.
Descends ==
  /\ Stages \in Nat /\ Turns \in Nat /\ Steps \in Nat
  /\ \/ Stages' < Stages
     \/ /\ Stages' = Stages
        /\ \/ Turns' < Turns
           \/ Turns' = Turns /\ Steps' < Steps

LEMMA AmountsTyped ==
  ASSUME MInv
  PROVE  /\ Stages \in Nat /\ Turns \in Nat /\ Steps \in Nat
         /\ turn \in Nat /\ at \in Nat
         /\ Eliminating => Len(Work[Package]) \in Nat
         /\ pc # "analysed" => N \in Nat /\ i \in Nat /\ j \in Nat /\ k \in Nat
<1>1. turn \in Nat /\ at \in Nat /\ Len(Order) \in Nat /\ turn >= 1
  BY Places DEF MInv, DInv, TypeOK
<1>2. Eliminating => Len(Work[Package]) \in Nat
  BY <1>1, Places DEF Eliminating, Package
<1>3. ASSUME pc # "analysed"
      PROVE  N \in Nat /\ i \in Nat /\ j \in Nat /\ k \in Nat
  <2>1. OrderTypeOK
    BY <1>3 DEF MInv, ChainInv, OrderInv
  <2> QED
    BY <2>1, ListSize DEF OrderTypeOK
<1>4. \A m, x \in Nat : UpTo(m, x) \in Nat
  BY DEF UpTo
<1> QED
  BY <1>1, <1>2, <1>3, <1>4 DEF Stages, Turns, Steps

LEMMA EliminationDescends ==
  ASSUME MInv, Eliminate
  PROVE  Descends
<1>1. pc = "analysed" /\ pc' = pc
  BY DEF Eliminate, orderVars
<1>2. Stages' = Stages
  BY <1>1 DEF Stages
<1>3. Eliminating /\ turn <= Len(Order) /\ Len(Order) \in Nat
  BY Places DEF Eliminate, Next, CatchInit, Examine, NextPackage, Eliminating
<1>4. CASE CatchInit \/ Examine
  <2>1. /\ turn' = turn /\ at' = at + 1 /\ at <= Len(Work[Package])
    BY <1>3, <1>4, AmountsTyped DEF CatchInit, Examine
  <2>2. Eliminating' = Eliminating /\ Package' = Package
    BY <2>1 DEF Eliminating, Package
  <2>3. Turns' = Turns
    BY <1>1, <2>1 DEF Turns
  <2>4. Steps' < Steps
    BY <1>1, <1>3, <2>1, <2>2, AmountsTyped DEF Steps, UpTo
  <2> QED
    BY <1>2, <2>3, <2>4, AmountsTyped DEF Descends
<1>5. CASE NextPackage
  <2>1. turn' = turn + 1
    BY <1>5 DEF NextPackage
  <2>2. Turns' < Turns
    BY <1>1, <1>3, <2>1, AmountsTyped DEF Turns, UpTo
  <2> QED
    BY <1>2, <2>2, AmountsTyped DEF Descends
<1> QED
  BY <1>4, <1>5 DEF Eliminate, Next

LEMMA OrderingDescends ==
  ASSUME MInv, OrderNext
  PROVE  Descends
<1>1. pc \in {"front", "back"} /\ N' = N
  BY DEF OrderNext, Front, FrontDone, Compare, NextPass, Finish, N
<1>2. N \in Nat /\ i \in Nat /\ j \in Nat /\ k \in Nat
  BY <1>1, AmountsTyped
<1>3. CASE FrontDone \/ Finish
  <2>1. Stages' < Stages
    BY <1>3 DEF FrontDone, Finish, Stages
  <2> QED
    BY <2>1, AmountsTyped DEF Descends
<1>4. CASE Front \/ NextPass
  <2>1. pc' = pc /\ j <= N /\ j' = j + 1
    BY <1>4 DEF Front, NextPass
  <2>2. Stages' = Stages /\ Turns' < Turns
    BY <1>1, <1>2, <2>1 DEF Stages, Turns, UpTo
  <2> QED
    BY <2>2, AmountsTyped DEF Descends
<1>5. CASE Compare
  <2>1. pc' = pc /\ j' = j /\ k < N /\ k' = k + 1
    BY <1>5 DEF Compare
  <2>2. Stages' = Stages /\ Turns' = Turns /\ Steps' < Steps
    BY <1>1, <1>2, <2>1 DEF Stages, Turns, Steps, UpTo
  <2> QED
    BY <2>2, AmountsTyped DEF Descends
<1> QED
  BY <1>3, <1>4, <1>5 DEF OrderNext

\* Every step of the middle end brings it nearer to its end, in a well-founded
\* order: eliminate and order_common go through their nested loops only once,
\* whatever the swaps do to the list and however many packages there are.
THEOREM MiddleEndDescends == SpecIR => [][Descends]_ir
<1>1. ASSUME MInv, NextIR
      PROVE  Descends
  <2>1. CASE Eliminate
    BY <1>1, <2>1, EliminationDescends
  <2>2. CASE Collect
    <3>1. Stages' < Stages
      BY <2>2 DEF Collect, Stages
    <3> QED
      BY <1>1, <3>1, AmountsTyped DEF Descends
  <2>3. CASE OrderVariables
    BY <1>1, <2>3, OrderingDescends DEF OrderVariables
  <2> QED
    BY <1>1, <2>1, <2>2, <2>3 DEF NextIR
<1>2. MInv /\ [NextIR]_ir => [Descends]_ir
  BY <1>1
<1> QED
  BY <1>2, MiddleInvariance, PTL DEF SpecIR
=============================================================================
