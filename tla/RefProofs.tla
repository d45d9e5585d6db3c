----------------------------- MODULE RefProofs -----------------------------
(***************************************************************************)
(* Proofs about Ref for every number of threads, variables and objects,    *)
(* for programs that do not assign to a handle from inside the object it   *)
(* holds (InnerSource = FALSE): counters are exact, nothing dangles, every *)
(* object is released with its last holder, and Ref implements Lifetime.   *)
(***************************************************************************)
EXTENDS Ref, FiniteSetTheorems, TLAPS

\* What the call stacks of drop() look like.
Shape ==
  \A t \in Threads :
    /\ pc[t] = "idle" <=> Len(drops[t]) = 0
    /\ pc[t] = "idle" => src[t] = Nil
    /\ pc[t] = "copy" => Len(drops[t]) = 1 /\ src[t] # Nil

\* Below the destination a stack holds the fields of dying objects, no handle
\* is on two stacks or twice on one, and every dying object is on a stack.
Chain ==
  /\ \A t \in Threads : \A i \in 2 .. Len(drops[t]) :
       drops[t][i] \in Objects /\ object[drops[t][i]] = "dying"
  /\ \A t, u \in Threads : \A i \in 1 .. Len(drops[t]), j \in 1 .. Len(drops[u]) :
       drops[t][i] = drops[u][j] => t = u /\ i = j
  /\ \A o \in Objects : object[o] = "dying" =>
       \E t \in Threads : \E i \in 2 .. Len(drops[t]) : drops[t][i] = o

\* A handle whose object is dying points to it but is no longer counted; every
\* other handle has its two fields in step.
Links ==
  /\ \A t \in Threads : \A i \in 1 .. Len(drops[t]) - 1 : ref[drops[t][i]] = Nil
  /\ \A h \in Handles : alloc[h] # ref[h] =>
       \E t \in Threads : \E i \in 1 .. Len(drops[t]) - 1 : drops[t][i] = h
  /\ \A t \in Threads : pc[t] \in {"dropped", "copy"} => ref[Top(t)] = Nil
  /\ \A t \in Threads : pc[t] = "destroy" => ref[Top(t)] # Nil

\* Counters and objects against the handles.
Cells ==
  /\ CountExact
  /\ NoDanglingHandle
  /\ \A t \in Threads : pc[t] = "destroy" =>
       counter[ref[Top(t)]] = "live" /\ count[ref[Top(t)]] = 0
  /\ \A t, u \in Threads : pc[t] = "destroy" /\ pc[u] = "destroy" /\ ref[Top(t)] = ref[Top(u)]
       => t = u
  /\ \A o \in Objects : counter[o] = "live" =>
       Holders(o) # {} \/ \E t \in Threads : pc[t] = "destroy" /\ ref[Top(t)] = o
  /\ \A o \in Objects : /\ object[o] = "none" <=> counter[o] = "none"
                        /\ object[o] = "live" <=> counter[o] = "live"

\* The operands of an operation belong to its thread, or are fields of objects
\* the thread holds by a variable the operation leaves alone.
Claims ==
  /\ \A t \in Threads : pc[t] # "idle" =>
       /\ Dst(t) \in Roots => owner[Dst(t)] = t
       /\ src[t] \in Roots => owner[src[t]] = t
       /\ Dst(t) \in Objects => \E g \in Roots : owner[g] = t /\ ref[g] = Dst(t)
       /\ src[t] \in Objects =>
            \E g \in Roots : g # Dst(t) /\ owner[g] = t /\ ref[g] = src[t]
  /\ \A t, u \in Threads : t # u /\ pc[t] # "idle" /\ pc[u] # "idle" /\ Dst(t) \in Objects
       => Dst(t) # Dst(u) /\ Dst(t) # src[u]

IInv == TypeOK /\ Shape /\ Chain /\ Links /\ Cells /\ Claims

LEMMA HoldersFinite ==
  ASSUME NEW o
  PROVE  IsFiniteSet(Holders(o)) /\ Cardinality(Holders(o)) \in Nat
<1>1. Holders(o) \subseteq Handles
  BY DEF Holders
<1> QED
  BY <1>1, SetsAssumption, FS_Subset, FS_CardinalityType

LEMMA InitInv == Init => IInv
<1> SUFFICES ASSUME Init PROVE IInv
  OBVIOUS
<1>1. TypeOK
  BY DEF Init, TypeOK
<1>2. \A o \in Objects : Holders(o) = {}
  BY NilAssumption DEF Init, Holders, Handles
<1>3. Shape /\ Chain /\ Links /\ Claims
  BY DEF Init, Shape, Chain, Links, Claims
<1>4. Cells
  BY <1>2 DEF Init, Cells, CountExact, NoDanglingHandle
<1> QED
  BY <1>1, <1>3, <1>4 DEF IInv

-----------------------------------------------------------------------------
(* Steps of Lifetime *)

LifeStep == [Life!Next]_(Life!vars)

\* No holder comes or goes.
LEMMA LifeStutter ==
  ASSUME \A p \in Objects : Holders(p)' = Holders(p) /\ Fate(p)' = Fate(p)
  PROVE  LifeStep
BY DEF LifeStep, Life!vars

LEMMA LifeCreate ==
  ASSUME NEW o \in Objects, NEW h \in Handles,
         Fate(o) = "unborn", Fate(o)' = "alive", Holders(o)' = {h},
         \A p \in Objects : h \notin Holders(p),
         \A p \in Objects : p # o => Holders(p)' = Holders(p) /\ Fate(p)' = Fate(p)
  PROVE  LifeStep
BY DEF LifeStep, Life!Next, Life!Create, Life!Free

LEMMA LifeShare ==
  ASSUME NEW o \in Objects, NEW h \in Handles,
         Fate(o) = "alive", Holders(o)' = Holders(o) \cup {h},
         \A p \in Objects : h \notin Holders(p) /\ Fate(p)' = Fate(p),
         \A p \in Objects : p # o => Holders(p)' = Holders(p)
  PROVE  LifeStep
BY DEF LifeStep, Life!Next, Life!Share, Life!Free

LEMMA LifeLeave ==
  ASSUME NEW o \in Objects, NEW h \in Handles,
         h \in Holders(o), Holders(o)' = Holders(o) \ {h},
         Fate(o)' = IF Holders(o) = {h} THEN "gone" ELSE Fate(o),
         \A p \in Objects : p # o => Holders(p)' = Holders(p) /\ Fate(p)' = Fate(p)
  PROVE  LifeStep
<1>1. Life!Leave(o, h)
  BY DEF Life!Leave
<1> QED
  BY <1>1 DEF LifeStep, Life!Next

-----------------------------------------------------------------------------
(* Consequences of the invariant used by the steps *)

\* The top of a non-empty stack is a handle on it.
LEMMA TopOnStack ==
  ASSUME TypeOK, Shape, NEW t \in Threads, pc[t] # "idle"
  PROVE  /\ Len(drops[t]) \in Nat \ {0}
         /\ Top(t) \in Handles /\ Dst(t) \in Handles
         /\ Top(t) = drops[t][Len(drops[t])] /\ Dst(t) = drops[t][1]
BY DEF TypeOK, Shape, Top, Dst

\* A variable is on the stack of its owner only, at the bottom.
LEMMA RootOnStack ==
  ASSUME IInv, NEW g \in Roots, NEW t \in Threads, NEW i \in 1 .. Len(drops[t]),
         drops[t][i] = g
  PROVE  i = 1 /\ Dst(t) = g /\ owner[g] = t /\ pc[t] # "idle"
<1>1. i = 1
  BY SetsAssumption DEF IInv, Chain
<1>2. pc[t] # "idle"
  BY <1>1 DEF IInv, Shape
<1> QED
  BY <1>1, <1>2 DEF IInv, Claims, Dst

\* A variable that its thread's operation does not write has its two fields in
\* step and is counted: what it holds is alive.
LEMMA HeldAlive ==
  ASSUME IInv, NEW t \in Threads, NEW g \in Roots, owner[g] = t,
         pc[t] # "idle" => g # Dst(t)
  PROVE  /\ alloc[g] = ref[g]
         /\ \A o \in Objects : ref[g] = o => /\ g \in Holders(o)
                                             /\ counter[o] = "live" /\ object[o] = "live"
<1>1. \A u \in Threads : \A i \in 1 .. Len(drops[u]) : drops[u][i] # g
  BY RootOnStack
<1>2. alloc[g] = ref[g]
  <2>1. \A u \in Threads : \A i \in 1 .. Len(drops[u]) - 1 : i \in 1 .. Len(drops[u])
    BY DEF IInv, TypeOK
  <2>2. g \in Handles
    BY DEF Handles
  <2> QED
    BY <1>1, <2>1, <2>2 DEF IInv, Links
<1>3. ~Condemned(g)
  BY <1>1, TopOnStack DEF IInv, Condemned
<1>4. \A o \in Objects : ref[g] = o => g \in Holders(o)
  BY <1>3 DEF Holders, Handles
<1> QED
  BY <1>2, <1>4 DEF IInv, Cells, NoDanglingHandle

\* The source of a copy is counted, so its object is alive.
LEMMA SourceAlive ==
  ASSUME IInv, NEW t \in Threads, pc[t] = "copy"
  PROVE  /\ src[t] \in Handles /\ Dst(t) \in Handles /\ ~Condemned(src[t])
         /\ ref[Dst(t)] = Nil
         /\ \A u \in Threads : u # t => \A i \in 1 .. Len(drops[u]) : drops[u][i] # src[t]
         /\ alloc[src[t]] = ref[src[t]]
         /\ \A o \in Objects : ref[src[t]] = o =>
              src[t] \in Holders(o) /\ counter[o] = "live" /\ object[o] = "live"
<1>1. src[t] \in Handles /\ pc[t] # "idle" /\ Len(drops[t]) = 1 /\ Top(t) = Dst(t)
  BY DEF IInv, Shape, TypeOK, Top, Dst
<1>2. ref[Dst(t)] = Nil /\ Dst(t) \in Handles
  BY <1>1, TopOnStack DEF IInv, Links
<1>3. ASSUME NEW u \in Threads, u # t, NEW i \in 1 .. Len(drops[u]), drops[u][i] = src[t]
      PROVE  FALSE
  <2>1. CASE src[t] \in Roots
    BY <1>1, <1>3, <2>1, RootOnStack DEF IInv, Claims
  <2>2. CASE src[t] \in Objects
    <3>1. PICK g \in Roots : g # Dst(t) /\ owner[g] = t /\ ref[g] = src[t]
      BY <1>1, <2>2 DEF IInv, Claims
    <3>2. object[src[t]] = "live"
      BY <2>2, <3>1, HeldAlive
    <3>3. i = 1 /\ pc[u] # "idle"
      BY <1>3, <2>2, <3>2 DEF IInv, Chain, Shape
    <3>4. Dst(u) = src[t]
      BY <1>3, <3>3 DEF Dst
    <3> QED
      BY <1>1, <1>3, <2>2, <3>3, <3>4 DEF IInv, Claims
  <2> QED
    BY <1>1, <2>1, <2>2 DEF Handles
<1>4. ~Condemned(src[t])
  <2> SUFFICES ASSUME NEW u \in Threads, pc[u] = "destroy", Top(u) = src[t] PROVE FALSE
    BY DEF Condemned
  <2>1. u # t /\ Len(drops[u]) \in 1 .. Len(drops[u]) /\ drops[u][Len(drops[u])] = src[t]
    BY TopOnStack DEF IInv
  <2> QED
    BY <1>3, <2>1
<1>5. alloc[src[t]] = ref[src[t]]
  <2>1. \A u \in Threads : \A i \in 1 .. Len(drops[u]) - 1 : i \in 1 .. Len(drops[u])
    BY DEF IInv, TypeOK
  <2>2. \A i \in 1 .. Len(drops[t]) - 1 : FALSE
    BY <1>1
  <2>3. \A u \in Threads : \A i \in 1 .. Len(drops[u]) - 1 : drops[u][i] # src[t]
    BY <1>3, <2>1, <2>2
  <2> QED
    BY <1>1, <2>3 DEF IInv, Links
<1>6. \A o \in Objects : ref[src[t]] = o => src[t] \in Holders(o)
  BY <1>1, <1>4 DEF Holders
<1> QED
  BY <1>1, <1>2, <1>3, <1>4, <1>5, <1>6 DEF IInv, Cells, NoDanglingHandle

-----------------------------------------------------------------------------
(* The steps *)

\* Ref::make: a fresh object with one counted handle.
LEMMA StepNew ==
  ASSUME IInv, NEW t \in Threads, NEW h \in Roots, New(t, h)
  PROVE  IInv' /\ LifeStep /\ CellStep
<1>1. PICK o \in Objects :
        /\ object[o] = "none"
        /\ object' = [object EXCEPT ![o] = "live"]
        /\ counter' = [counter EXCEPT ![o] = "live"]
        /\ count' = [count EXCEPT ![o] = 1]
        /\ alloc' = [alloc EXCEPT ![h] = o]
        /\ ref' = [ref EXCEPT ![h] = o]
  BY DEF New
<1>2. /\ pc[t] = "idle" /\ owner[h] = t /\ alloc[h] = Nil /\ ref[h] = Nil
      /\ UNCHANGED <<owner, pc, drops, src>> /\ h \in Handles
  BY DEF New, Handles
<1>3. \A u \in Threads : \A i \in 1 .. Len(drops[u]) : drops[u][i] # h
  BY <1>2, RootOnStack
<1>4. ~Condemned(h) /\ \A g \in Handles : Condemned(g)' <=> Condemned(g)
  BY <1>2, <1>3, TopOnStack DEF IInv, Condemned, Top
<1>5. counter[o] = "none" /\ Holders(o) = {}
  BY <1>1 DEF IInv, Cells, NoDanglingHandle
<1>6. Holders(o)' = {h}
  BY <1>1, <1>2, <1>4, <1>5 DEF Holders, IInv, TypeOK
<1>7. \A p \in Objects : p # o => Holders(p)' = Holders(p)
  BY <1>1, <1>2, <1>4, NilAssumption DEF Holders, IInv, TypeOK, Handles
<1>8. TypeOK'
  BY <1>1, <1>2 DEF IInv, TypeOK
<1>9. Shape' /\ Chain'
  BY <1>1, <1>2 DEF IInv, Shape, Chain, TypeOK
<1>10. \A u \in Threads : pc[u] # "idle" => Top(u)' = Top(u) /\ Top(u) # h /\ Dst(u)' = Dst(u)
  BY <1>2, <1>3, TopOnStack DEF IInv, Top, Dst
<1>11. Links'
  <2>1. \A u \in Threads : \A i \in 1 .. Len(drops[u]) - 1 :
          i \in 1 .. Len(drops[u]) /\ drops[u][i] \in Handles
    BY DEF IInv, TypeOK
  <2>2. \A u \in Threads : pc[u] # "idle" => ref'[Top(u)] = ref[Top(u)]
    BY <1>1, <1>10, TopOnStack DEF IInv, TypeOK
  <2>3. \A u \in Threads : \A i \in 1 .. Len(drops'[u]) - 1 : ref'[drops'[u][i]] = Nil
    BY <1>1, <1>2, <1>3, <2>1 DEF IInv, Links, TypeOK
  <2>4. \A g \in Handles : alloc'[g] # ref'[g] => g # h /\ alloc[g] # ref[g]
    BY <1>1, <1>2 DEF IInv, TypeOK
  <2> QED
    BY <1>2, <1>10, <2>2, <2>3, <2>4 DEF IInv, Links
<1>12. Cells'
  <2>1. \A u \in Threads : pc[u] = "destroy" =>
          ref'[Top(u)] = ref[Top(u)] /\ ref[Top(u)] # o /\ ref[Top(u)] \in Objects
    BY <1>1, <1>5, <1>10, TopOnStack DEF IInv, TypeOK, Cells, Links
  <2>2. /\ counter'[o] = "live" /\ object'[o] = "live" /\ count'[o] = 1
        /\ \A p \in Objects : p # o => /\ counter'[p] = counter[p] /\ object'[p] = object[p]
                                       /\ count'[p] = count[p]
    BY <1>1 DEF IInv, TypeOK
  <2>3. CountExact' /\ NoDanglingHandle'
    <3>1. Cardinality(Holders(o)') = 1
      BY <1>6, FS_Singleton
    <3> QED
      BY <1>7, <2>2, <3>1 DEF IInv, Cells, CountExact, NoDanglingHandle
  <2>4. ASSUME NEW p \in Objects, counter'[p] = "live", Holders(p)' = {}
        PROVE  \E u \in Threads : pc'[u] = "destroy" /\ ref'[Top(u)'] = p
    <3>1. p # o /\ counter[p] = "live" /\ Holders(p) = {}
      BY <1>6, <1>7, <2>2, <2>4
    <3>2. PICK u \in Threads : pc[u] = "destroy" /\ ref[Top(u)] = p
      BY <3>1 DEF IInv, Cells
    <3> QED
      BY <1>2, <1>10, <2>1, <3>2
  <2>5. \A u \in Threads : pc'[u] = "destroy" =>
          counter'[ref'[Top(u)']] = "live" /\ count'[ref'[Top(u)']] = 0
    BY <1>2, <1>10, <2>1, <2>2 DEF IInv, Cells
  <2>6. \A u, v \in Threads :
          pc'[u] = "destroy" /\ pc'[v] = "destroy" /\ ref'[Top(u)'] = ref'[Top(v)'] => u = v
    BY <1>2, <1>10, <2>1 DEF IInv, Cells
  <2>7. \A p \in Objects : /\ object'[p] = "none" <=> counter'[p] = "none"
                           /\ object'[p] = "live" <=> counter'[p] = "live"
    BY <2>2 DEF IInv, Cells
  <2> QED
    BY <2>3, <2>4, <2>5, <2>6, <2>7 DEF Cells
<1>13. Claims'
  <2>1. \A g \in Roots : g # h => ref'[g] = ref[g]
    BY <1>1 DEF IInv, TypeOK, Handles
  <2>2. \A u \in Threads : pc[u] # "idle" => u # t
    BY <1>2
  <2> QED
    BY <1>2, <1>10, <2>1, <2>2 DEF IInv, Claims
<1>l. LifeStep /\ CellStep
  <2>1. Fate(o) = "unborn" /\ Fate(o)' = "alive"
    BY <1>1, <1>6 DEF Fate, IInv, TypeOK
  <2>2. \A p \in Objects : p # o => Fate(p)' = Fate(p) /\ object'[p] = object[p]
    BY <1>1, <1>7 DEF Fate, IInv, TypeOK
  <2>3. \A p \in Objects : h \notin Holders(p)
    BY <1>2, NilAssumption DEF Holders, Handles
  <2>4. CellStep
    BY <1>1, <2>2 DEF CellStep, IInv, TypeOK
  <2> QED
    BY <1>2, <1>6, <1>7, <2>1, <2>2, <2>3, <2>4, LifeCreate
<1> QED
  BY <1>8, <1>9, <1>11, <1>12, <1>13, <1>l DEF IInv

\* A step that leaves handles, counters and stacks alone.
LEMMA SameHolders ==
  ASSUME UNCHANGED <<ref, pc, drops>>
  PROVE  (\A o : Holders(o)' = Holders(o)) /\ \A t : Top(t)' = Top(t) /\ Dst(t)' = Dst(t)
BY DEF Holders, Condemned, Top, Dst

\* A variable changes hands while its owner is idle.
LEMMA StepGive ==
  ASSUME IInv, NEW t \in Threads, NEW h \in Roots, Give(t, h)
  PROVE  IInv' /\ LifeStep /\ CellStep
<1>1. PICK u \in Threads \ {t} : owner' = [owner EXCEPT ![h] = u]
  BY DEF Give
<1>2. /\ pc[t] = "idle" /\ owner[h] = t
      /\ UNCHANGED <<alloc, ref, count, counter, object, pc, drops, src>>
  BY DEF Give, cells
<1>3. TypeOK' /\ Shape' /\ Chain'
  BY <1>1, <1>2 DEF IInv, TypeOK, Shape, Chain
<1>4. (\A o : Holders(o)' = Holders(o)) /\ \A v : Top(v)' = Top(v) /\ Dst(v)' = Dst(v)
  BY <1>2, SameHolders
<1>5. Links' /\ Cells'
  BY <1>2, <1>4 DEF IInv, Links, Cells, CountExact, NoDanglingHandle
<1>6. Claims'
  <2>1. ASSUME NEW v \in Threads, pc[v] # "idle", NEW g \in Roots, owner[g] = v
        PROVE  owner'[g] = v
    BY <1>1, <1>2, <2>1 DEF IInv, TypeOK
  <2> QED
    BY <1>2, <1>4, <2>1 DEF IInv, Claims
<1>l. LifeStep /\ CellStep
  BY <1>2, <1>4, LifeStutter DEF Fate, CellStep
<1> QED
  BY <1>3, <1>5, <1>6, <1>l DEF IInv

\* An assignment or a destructor begins: its destination is on no stack yet.
LEMMA StepBegin ==
  ASSUME IInv, NEW t \in Threads, pc[t] = "idle", NEW d \in Handles,
         NEW s \in Handles \cup {Nil}, Begin(t, d, s),
         \A u \in Threads : \A i \in 1 .. Len(drops[u]) : drops[u][i] # d,
         d \in Roots => owner[d] = t,
         s \in Roots => owner[s] = t,
         d \in Objects => /\ \E g \in Roots : owner[g] = t /\ ref[g] = d
                          /\ FieldFree(t, d),
         s \in Objects => /\ \E g \in Roots : g # d /\ owner[g] = t /\ ref[g] = s
                          /\ FieldFree(t, s)
  PROVE  IInv' /\ LifeStep /\ CellStep
<1>1. /\ pc' = [pc EXCEPT ![t] = "drop"] /\ drops' = [drops EXCEPT ![t] = <<d>>]
      /\ src' = [src EXCEPT ![t] = s]
      /\ UNCHANGED <<alloc, ref, count, counter, object, owner>>
  BY DEF Begin, cells
<1>2. /\ pc'[t] = "drop" /\ drops'[t] = <<d>> /\ src'[t] = s /\ Dst(t)' = d /\ Top(t)' = d
      /\ \A u \in Threads : u # t => /\ pc'[u] = pc[u] /\ drops'[u] = drops[u]
                                     /\ src'[u] = src[u]
                                     /\ Dst(u)' = Dst(u) /\ Top(u)' = Top(u)
  BY <1>1 DEF IInv, TypeOK, Dst, Top
<1>3. Len(drops[t]) = 0 /\ Len(drops'[t]) = 1 /\ drops'[t][1] = d
  BY <1>2 DEF IInv, Shape
<1>4. TypeOK'
  BY <1>1 DEF IInv, TypeOK
<1>5. Shape'
  BY <1>2, <1>3 DEF IInv, Shape
<1>6. Chain'
  <2>1. \A i \in 2 .. Len(drops'[t]) : FALSE
    BY <1>3
  <2>2. \A u \in Threads : \A i \in 2 .. Len(drops'[u]) :
          drops'[u][i] \in Objects /\ object'[drops'[u][i]] = "dying"
    BY <1>1, <1>2, <2>1 DEF IInv, Chain
  <2>3. \A u, v \in Threads : \A i \in 1 .. Len(drops'[u]), j \in 1 .. Len(drops'[v]) :
          drops'[u][i] = drops'[v][j] => u = v /\ i = j
    BY <1>2, <1>3 DEF IInv, Chain
  <2>4. \A o \in Objects : object'[o] = "dying" =>
          \E u \in Threads : \E i \in 2 .. Len(drops'[u]) : drops'[u][i] = o
    BY <1>1, <1>2, <1>3 DEF IInv, Chain
  <2> QED
    BY <2>2, <2>3, <2>4 DEF Chain
<1>7. Links'
  <2>1. \A i \in 1 .. Len(drops'[t]) - 1 : FALSE
    BY <1>3
  <2>2. \A i \in 1 .. Len(drops[t]) - 1 : FALSE
    BY <1>3
  <2> QED
    BY <1>1, <1>2, <2>1, <2>2 DEF IInv, Links
<1>8. Cells'
  <2>1. \A h : Condemned(h)' <=> Condemned(h)
    BY <1>2 DEF Condemned
  <2>2. \A o : Holders(o)' = Holders(o)
    BY <1>1, <2>1 DEF Holders
  <2>3. \A u \in Threads : pc'[u] = "destroy" <=> pc[u] = "destroy"
    BY <1>2
  <2>4. \A u \in Threads : pc[u] = "destroy" => Top(u)' = Top(u)
    BY <1>2
  <2> QED
    BY <1>1, <2>2, <2>3, <2>4 DEF IInv, Cells, CountExact, NoDanglingHandle
<1>9. Claims'
  <2>1. ASSUME NEW u \in Threads, pc'[u] # "idle"
        PROVE  /\ Dst(u)' \in Roots => owner'[Dst(u)'] = u
               /\ src'[u] \in Roots => owner'[src'[u]] = u
               /\ Dst(u)' \in Objects => \E g \in Roots : owner'[g] = u /\ ref'[g] = Dst(u)'
               /\ src'[u] \in Objects =>
                    \E g \in Roots : g # Dst(u)' /\ owner'[g] = u /\ ref'[g] = src'[u]
    BY <1>1, <1>2, <2>1 DEF IInv, Claims
  <2>2. ASSUME NEW u \in Threads, NEW v \in Threads, u # v, pc'[u] # "idle",
               pc'[v] # "idle", Dst(u)' \in Objects
        PROVE  Dst(u)' # Dst(v)' /\ Dst(u)' # src'[v]
    <3>1. CASE u = t
      BY <1>2, <2>2, <3>1 DEF FieldFree
    <3>2. CASE v = t
      BY <1>2, <2>2, <3>2, SetsAssumption, NilAssumption DEF FieldFree, Handles
    <3>3. CASE u # t /\ v # t
      BY <1>2, <2>2, <3>3 DEF IInv, Claims
    <3> QED
      BY <3>1, <3>2, <3>3
  <2> QED
    BY <2>1, <2>2 DEF Claims
<1>l. LifeStep /\ CellStep
  <2>1. \A h : Condemned(h)' <=> Condemned(h)
    BY <1>2 DEF Condemned
  <2>2. \A o : Holders(o)' = Holders(o)
    BY <1>1, <2>1 DEF Holders
  <2> QED
    BY <1>1, <2>2, LifeStutter DEF Fate, CellStep
<1> QED
  BY <1>4, <1>5, <1>6, <1>7, <1>8, <1>9, <1>l DEF IInv

LEMMA StepAssign ==
  ASSUME IInv, ~InnerSource, NEW t \in Threads, NEW d \in Handles, NEW s \in Handles,
         Assign(t, d, s)
  PROVE  IInv' /\ LifeStep /\ CellStep
<1>1. pc[t] = "idle" /\ d # s /\ CanWrite(t, d) /\ CanRead(t, s, d) /\ Begin(t, d, s)
  BY DEF Assign
<1>2. \A g \in Roots : owner[g] = t => alloc[g] = ref[g]
  BY <1>1, HeldAlive
<1>3. d \in Roots => owner[d] = t
  BY <1>1, SetsAssumption DEF CanWrite
<1>4. s \in Roots => owner[s] = t
  BY <1>1, SetsAssumption DEF CanRead
<1>5. d \in Objects => /\ \E g \in Roots : owner[g] = t /\ ref[g] = d
                       /\ FieldFree(t, d)
  BY <1>1, <1>2, SetsAssumption DEF CanWrite, HeldBeside
<1>6. s \in Objects => /\ \E g \in Roots : g # d /\ owner[g] = t /\ ref[g] = s
                       /\ FieldFree(t, s)
  BY <1>1, <1>2, SetsAssumption DEF CanRead, HeldBeside
<1>7. ASSUME NEW u \in Threads, NEW i \in 1 .. Len(drops[u]), drops[u][i] = d PROVE FALSE
  <2>1. CASE d \in Roots
    BY <1>1, <1>3, <1>7, <2>1, RootOnStack
  <2>2. CASE d \in Objects
    <3>1. object[d] = "live"
      BY <1>1, <1>5, <2>2, HeldAlive
    <3>2. i = 1 /\ pc[u] # "idle"
      BY <1>7, <2>2, <3>1 DEF IInv, Chain, Shape
    <3>3. u # t /\ Dst(u) = d
      BY <1>1, <1>7, <3>2 DEF Dst
    <3> QED
      BY <1>5, <2>2, <3>2, <3>3 DEF FieldFree
  <2> QED
    BY <2>1, <2>2 DEF Handles
<1> QED
  BY <1>1, <1>3, <1>4, <1>5, <1>6, <1>7, StepBegin

LEMMA StepDestruct ==
  ASSUME IInv, NEW t \in Threads, NEW h \in Roots, Destruct(t, h)
  PROVE  IInv' /\ LifeStep /\ CellStep
<1>1. pc[t] = "idle" /\ owner[h] = t /\ Begin(t, h, Nil) /\ h \in Handles
  BY DEF Destruct, Handles
<1>2. \A u \in Threads : \A i \in 1 .. Len(drops[u]) : drops[u][i] # h
  BY <1>1, RootOnStack
<1>3. h \notin Objects /\ Nil \notin Roots /\ Nil \notin Objects
  BY SetsAssumption, NilAssumption DEF Handles
<1> QED
  BY <1>1, <1>2, <1>3, StepBegin

\* A step of t that changes no handle but the top of its stack takes nothing
\* from the variables that the operations rely on.
LEMMA ClaimsKept ==
  ASSUME IInv, NEW t \in Threads, pc[t] # "idle",
         \A g \in Handles : g # Top(t) => ref'[g] = ref[g],
         UNCHANGED owner,
         \A u \in Threads : pc'[u] # "idle" =>
           pc[u] # "idle" /\ Dst(u)' = Dst(u) /\ src'[u] = src[u]
  PROVE  Claims'
<1>1. Top(t) \in Roots => Dst(t) = Top(t) /\ owner[Top(t)] = t
  BY TopOnStack, RootOnStack DEF IInv
<1>2. ASSUME NEW u \in Threads, pc'[u] # "idle", Dst(u) \in Objects
      PROVE  \E g \in Roots : owner'[g] = u /\ ref'[g] = Dst(u)
  <2>1. PICK g \in Roots : owner[g] = u /\ ref[g] = Dst(u)
    BY <1>2 DEF IInv, Claims
  <2>2. g # Top(t)
    BY <1>1, <1>2, <2>1, SetsAssumption
  <2> QED
    BY <2>1, <2>2 DEF Handles
<1>3. ASSUME NEW u \in Threads, pc'[u] # "idle", src[u] \in Objects
      PROVE  \E g \in Roots : g # Dst(u) /\ owner'[g] = u /\ ref'[g] = src[u]
  <2>1. PICK g \in Roots : g # Dst(u) /\ owner[g] = u /\ ref[g] = src[u]
    BY <1>3 DEF IInv, Claims
  <2>2. g # Top(t)
    BY <1>1, <1>3, <2>1, SetsAssumption
  <2> QED
    BY <2>1, <2>2 DEF Handles
<1> QED
  BY <1>2, <1>3 DEF IInv, Claims

\* The handle whose drop() runs is condemned by its own thread only.
LEMMA TopCondemned ==
  ASSUME IInv, NEW t \in Threads, pc[t] # "idle", Condemned(Top(t))
  PROVE  pc[t] = "destroy"
<1>1. PICK u \in Threads : pc[u] = "destroy" /\ Top(u) = Top(t)
  BY DEF Condemned
<1>2. /\ drops[u][Len(drops[u])] = drops[t][Len(drops[t])]
      /\ Len(drops[u]) \in 1 .. Len(drops[u]) /\ Len(drops[t]) \in 1 .. Len(drops[t])
  BY <1>1, TopOnStack DEF IInv
<1>3. u = t
  BY <1>2 DEF IInv, Chain
<1> QED
  BY <1>1, <1>3

\* drop() clears the handle: one holder less, and not the last one.
LEMMA StepLeave ==
  ASSUME IInv, NEW t \in Threads, pc[t] = "drop", Leave(t, Top(t)),
         ref[Top(t)] # Nil => count[ref[Top(t)]] # 1,
         UNCHANGED <<counter, object, owner, drops, src>>
  PROVE  IInv' /\ LifeStep /\ CellStep
<1> DEFINE h == Top(t)
<1>1. /\ h \in Handles /\ Len(drops[t]) \in Nat \ {0} /\ drops[t][Len(drops[t])] = h
      /\ ref' = [ref EXCEPT ![h] = Nil] /\ alloc' = [alloc EXCEPT ![h] = Nil]
      /\ pc' = [pc EXCEPT ![t] = "dropped"]
      /\ count' = IF ref[h] = Nil THEN count ELSE [count EXCEPT ![ref[h]] = @ - 1]
  BY TopOnStack DEF IInv, Leave
<1> HIDE DEF h
<1>2. /\ ref'[h] = Nil /\ alloc'[h] = Nil /\ pc'[t] = "dropped"
      /\ \A g \in Handles : g # h => ref'[g] = ref[g] /\ alloc'[g] = alloc[g]
      /\ \A u \in Threads : u # t => pc'[u] = pc[u]
  BY <1>1 DEF IInv, TypeOK
<1>3. ~Condemned(h) /\ \A g : Condemned(g)' <=> Condemned(g)
  BY <1>2, TopCondemned DEF h, Condemned, Top
<1>4. ASSUME NEW o \in Objects, o # ref[h]
      PROVE  Holders(o)' = Holders(o) /\ count'[o] = count[o]
  <2>1. o # Nil
    BY NilAssumption DEF Handles
  <2> QED
    BY <1>1, <1>2, <1>3, <1>4, <2>1 DEF Holders, IInv, TypeOK
<1>5. ASSUME NEW o \in Objects, o = ref[h]
      PROVE  /\ Holders(o)' = Holders(o) \ {h} /\ h \in Holders(o)
             /\ count[o] = Cardinality(Holders(o)) /\ count[o] > 1
             /\ count'[o] = count[o] - 1
             /\ Cardinality(Holders(o)') = count[o] - 1 /\ Holders(o)' # {}
             /\ counter[o] = "live" /\ object[o] = "live"
  <2>1. o # Nil
    BY NilAssumption DEF Handles
  <2>2. Holders(o)' = Holders(o) \ {h} /\ h \in Holders(o)
    BY <1>1, <1>2, <1>3, <1>5, <2>1 DEF Holders
  <2>3. counter[o] = "live" /\ object[o] = "live" /\ count[o] = Cardinality(Holders(o))
    BY <2>2 DEF IInv, Cells, CountExact, NoDanglingHandle
  <2>4. count[o] > 1
    BY <1>5, <2>1, <2>2, <2>3, HoldersFinite, FS_EmptySet DEF h
  <2>5. count'[o] = count[o] - 1
    BY <1>1, <1>5, <2>1 DEF IInv, TypeOK
  <2>6. Cardinality(Holders(o)') = count[o] - 1
    BY <2>2, <2>3, HoldersFinite, FS_RemoveElement
  <2>7. Holders(o)' # {}
    <3>1. count[o] \in Nat
      BY DEF IInv, TypeOK
    <3> QED
      BY <2>4, <2>6, <3>1, FS_EmptySet
  <2> QED
    BY <2>2, <2>3, <2>4, <2>5, <2>6, <2>7
<1>6. TypeOK'
  <2>1. count' \in [Objects -> Nat]
    <3>1. ref[h] # Nil => ref[h] \in Objects /\ count[ref[h]] - 1 \in Nat
      BY <1>1, <1>5 DEF IInv, TypeOK
    <3> QED
      BY <1>1, <3>1 DEF IInv, TypeOK
  <2> QED
    BY <1>1, <2>1 DEF IInv, TypeOK
<1>7. Shape' /\ Chain'
  BY <1>2 DEF IInv, Shape, Chain
<1>8. \A u : Top(u)' = Top(u) /\ Dst(u)' = Dst(u)
  BY DEF Top, Dst
<1>9. \A u \in Threads : u # t /\ pc[u] # "idle" => Top(u) # h /\ Top(u) \in Handles
  <2> SUFFICES ASSUME NEW u \in Threads, u # t, pc[u] # "idle"
               PROVE  Top(u) # h /\ Top(u) \in Handles
    OBVIOUS
  <2>1. /\ Len(drops[u]) \in 1 .. Len(drops[u]) /\ Top(u) = drops[u][Len(drops[u])]
        /\ Len(drops[t]) \in 1 .. Len(drops[t]) /\ Top(u) \in Handles
    BY <1>1, TopOnStack DEF IInv
  <2> QED
    BY <1>1, <2>1 DEF IInv, Chain
<1>10. Links'
  <2>1. ASSUME NEW u \in Threads, NEW i \in 1 .. Len(drops[u]) - 1
        PROVE  ref'[drops[u][i]] = Nil
    BY <1>2 DEF IInv, Links, TypeOK
  <2>2. ASSUME NEW g \in Handles, alloc'[g] # ref'[g]
        PROVE  \E u \in Threads : \E i \in 1 .. Len(drops[u]) - 1 : drops[u][i] = g
    BY <1>2, <2>2 DEF IInv, Links
  <2>3. \A u \in Threads : pc'[u] \in {"dropped", "copy"} => ref'[Top(u)'] = Nil
    BY <1>2, <1>8, <1>9 DEF IInv, Links, h
  <2>4. \A u \in Threads : pc'[u] = "destroy" => ref'[Top(u)'] # Nil
    BY <1>2, <1>8, <1>9 DEF IInv, Links
  <2> QED
    BY <2>1, <2>2, <2>3, <2>4 DEF Links
<1>11. Cells'
  <2>1. CountExact' /\ NoDanglingHandle'
    BY <1>4, <1>5 DEF IInv, Cells, CountExact, NoDanglingHandle
  <2>2. \A u \in Threads : pc'[u] = "destroy" =>
          /\ u # t /\ pc[u] = "destroy" /\ Top(u)' = Top(u)
          /\ ref'[Top(u)] = ref[Top(u)] /\ ref[Top(u)] \in Objects
    BY <1>2, <1>8, <1>9 DEF IInv, TypeOK, Links
  <2>3. \A u \in Threads : pc[u] = "destroy" => pc'[u] = "destroy"
    BY <1>2
  <2>4. \A u \in Threads : pc[u] = "destroy" => ref[Top(u)] # ref[h]
    BY <1>5, <2>2, <2>3 DEF IInv, Cells
  <2>5. \A o \in Objects : counter'[o] = "live" =>
          Holders(o)' # {} \/ \E u \in Threads : pc'[u] = "destroy" /\ ref'[Top(u)'] = o
    BY <1>4, <1>5, <2>2, <2>3 DEF IInv, Cells
  <2> QED
    BY <1>4, <2>1, <2>2, <2>4, <2>5 DEF IInv, Cells
<1>12. Claims'
  BY <1>2, <1>8, ClaimsKept DEF h
<1>l. LifeStep
  <2>1. \A p \in Objects : Fate(p)' = Fate(p)
    BY <1>4, <1>5 DEF Fate
  <2>2. CASE ref[h] \notin Objects
    BY <1>4, <2>1, <2>2, LifeStutter
  <2>3. CASE ref[h] \in Objects
    <3>1. PICK o \in Objects : o = ref[h]
      BY <2>3
    <3>2. h \in Holders(o) /\ Holders(o)' = Holders(o) \ {h} /\ Holders(o) # {h}
      BY <1>5, <3>1
    <3> QED
      BY <1>1, <1>4, <2>1, <3>1, <3>2, LifeLeave
  <2> QED
    BY <2>2, <2>3
<1>m. CellStep
  BY DEF CellStep
<1> QED
  BY <1>6, <1>7, <1>10, <1>11, <1>12, <1>l, <1>m DEF IInv

\* The last holder leaves; its object is about to be destroyed.
LEMMA StepCondemn ==
  ASSUME IInv, NEW t \in Threads, pc[t] = "drop", Condemn(t, Top(t)),
         ref[Top(t)] # Nil, count[ref[Top(t)]] = 1,
         UNCHANGED <<counter, object, owner, drops, src>>
  PROVE  IInv' /\ LifeStep /\ CellStep
<1>a. PICK h \in Handles : h = Top(t)
  BY TopOnStack DEF IInv
<1>b. PICK o \in Objects : o = ref[h]
  BY <1>a DEF IInv, TypeOK
<1>1. /\ Len(drops[t]) \in Nat \ {0} /\ drops[t][Len(drops[t])] = h
      /\ count[o] = 1
      /\ count' = [count EXCEPT ![o] = @ - 1] /\ pc' = [pc EXCEPT ![t] = "destroy"]
      /\ UNCHANGED <<alloc, ref>>
  BY <1>a, <1>b, TopOnStack DEF IInv, Condemn
<1>2. /\ count'[o] = 0 /\ pc'[t] = "destroy"
      /\ \A p \in Objects : p # o => count'[p] = count[p]
      /\ \A u \in Threads : u # t => pc'[u] = pc[u]
      /\ \A u : Top(u)' = Top(u) /\ Dst(u)' = Dst(u)
  BY <1>1 DEF IInv, TypeOK, Top, Dst
<1>3. ~Condemned(h) /\ \A g : Condemned(g)' <=> (Condemned(g) \/ g = h)
  BY <1>a, <1>2, TopCondemned DEF Condemned
<1>4. /\ h \in Holders(o) /\ Holders(o)' = Holders(o) \ {h}
      /\ \A p \in Objects : p # o => Holders(p)' = Holders(p)
  <2>1. h \in Holders(o)
    BY <1>b, <1>3 DEF Holders
  <2>2. \A p : Holders(p)' = Holders(p) \ {h}
    BY <1>1, <1>3 DEF Holders
  <2>3. \A p \in Objects : p # o => h \notin Holders(p)
    BY <1>b DEF Holders
  <2> QED
    BY <2>1, <2>2, <2>3
<1>5. counter[o] = "live" /\ object[o] = "live" /\ Cardinality(Holders(o)) = 1
  BY <1>1, <1>4 DEF IInv, Cells, CountExact, NoDanglingHandle
<1>6. Holders(o)' = {}
  <2>1. Cardinality(Holders(o)') = 0 /\ IsFiniteSet(Holders(o)')
    BY <1>4, <1>5, HoldersFinite, FS_RemoveElement
  <2> QED
    BY <2>1, FS_EmptySet
<1>7. TypeOK'
  BY <1>1 DEF IInv, TypeOK
<1>8. Shape' /\ Chain'
  BY <1>2 DEF IInv, Shape, Chain
<1>9. Links'
  BY <1>1, <1>2, <1>a, <1>b, NilAssumption DEF IInv, Links, Handles
<1>10. Cells'
  <2>1. CountExact' /\ NoDanglingHandle'
    <3>1. Cardinality(Holders(o)') = 0
      BY <1>6, FS_EmptySet
    <3>2. ASSUME NEW p \in Objects, counter'[p] = "live"
          PROVE  count'[p] = Cardinality(Holders(p)')
      <4>1. CASE p = o
        BY <1>2, <3>1, <4>1
      <4>2. CASE p # o
        BY <1>2, <1>4, <3>2, <4>2 DEF IInv, Cells, CountExact
      <4> QED
        BY <4>1, <4>2
    <3>3. ASSUME NEW p \in Objects, Holders(p)' # {}
          PROVE  counter'[p] = "live" /\ object'[p] = "live"
      BY <1>4, <1>6, <3>3 DEF IInv, Cells, NoDanglingHandle
    <3> QED
      BY <3>2, <3>3 DEF CountExact, NoDanglingHandle
  <2>2. \A u \in Threads : pc[u] = "destroy" => ref[Top(u)] # o /\ ref[Top(u)] \in Objects
    <3>1. \A u \in Threads : pc[u] = "destroy" => count[ref[Top(u)]] = 0
      BY DEF IInv, Cells
    <3>2. \A u \in Threads : pc[u] = "destroy" => ref[Top(u)] \in Objects
      BY TopOnStack DEF IInv, TypeOK, Links
    <3> QED
      BY <1>1, <3>1, <3>2
  <2>3. \A u \in Threads : pc'[u] = "destroy" =>
          counter'[ref'[Top(u)']] = "live" /\ count'[ref'[Top(u)']] = 0
    BY <1>a, <1>b, <1>1, <1>2, <1>5, <2>2 DEF IInv, Cells
  <2>4. \A u, v \in Threads :
          pc'[u] = "destroy" /\ pc'[v] = "destroy" /\ ref'[Top(u)'] = ref'[Top(v)'] => u = v
    BY <1>a, <1>b, <1>1, <1>2, <2>2 DEF IInv, Cells
  <2>5. ASSUME NEW p \in Objects, counter'[p] = "live"
        PROVE  Holders(p)' # {} \/ \E u \in Threads : pc'[u] = "destroy" /\ ref'[Top(u)'] = p
    BY <1>a, <1>b, <1>1, <1>2, <1>4, <2>5 DEF IInv, Cells
  <2> QED
    BY <2>1, <2>3, <2>4, <2>5 DEF IInv, Cells
<1>11. Claims'
  BY <1>1, <1>2, ClaimsKept
<1>l. LifeStep
  <2>1. Fate(o)' = "gone" /\ Holders(o) = {h}
    BY <1>4, <1>5, <1>6 DEF Fate
  <2>2. \A p \in Objects : p # o => Fate(p)' = Fate(p)
    BY <1>4 DEF Fate
  <2> QED
    BY <1>4, <2>1, <2>2, LifeLeave
<1>m. CellStep
  BY DEF CellStep
<1> QED
  BY <1>7, <1>8, <1>9, <1>10, <1>11, <1>l, <1>m DEF IInv

\* The counter goes, and the object's destructor starts on its own field.
LEMMA StepDestroy ==
  ASSUME IInv, NEW t \in Threads, Destroy(t)
  PROVE  IInv' /\ LifeStep /\ CellStep
<1>a. PICK h \in Handles : h = Top(t)
  BY TopOnStack DEF IInv, Destroy
<1>b. PICK o \in Objects : o = ref[h]
  BY <1>a DEF IInv, TypeOK, Links, Destroy
<1>c. PICK n \in Nat \ {0} : n = Len(drops[t])
  BY TopOnStack DEF IInv, Destroy
<1>1. pc[t] = "destroy" /\ drops[t][n] = h /\ n \in 1 .. Len(drops[t])
  BY <1>a, <1>c, TopOnStack DEF IInv, Destroy
<1>2. alloc[h] = o
  <2>1. ASSUME NEW u \in Threads, NEW i \in 1 .. Len(drops[u]) - 1 PROVE drops[u][i] # h
    <3>1. i \in 1 .. Len(drops[u]) /\ (u = t => i # n)
      BY <1>c DEF IInv, TypeOK
    <3> QED
      BY <1>1, <3>1 DEF IInv, Chain
  <2> QED
    BY <1>b, <2>1 DEF IInv, Links
<1>3. /\ counter[o] = "live" /\ object[o] = "live" /\ count[o] = 0 /\ o # Nil
      /\ Holders(o) = {}
  <2>1. counter[o] = "live" /\ object[o] = "live" /\ count[o] = 0
    BY <1>a, <1>b, <1>1 DEF IInv, Cells
  <2>2. Cardinality(Holders(o)) = 0
    BY <2>1 DEF IInv, Cells, CountExact
  <2> QED
    BY <2>1, <2>2, HoldersFinite, FS_EmptySet, NilAssumption DEF Handles
<1>4. /\ counter' = [counter EXCEPT ![o] = "freed"] /\ ref' = [ref EXCEPT ![h] = Nil]
      /\ object' = [object EXCEPT ![o] = "dying"]
      /\ drops' = [drops EXCEPT ![t] = Append(drops[t], o)]
      /\ pc' = [pc EXCEPT ![t] = "drop"]
      /\ UNCHANGED <<alloc, count, owner, src>>
  BY <1>a, <1>b, <1>2 DEF Destroy
<1>5. /\ Len(drops'[t]) = n + 1 /\ drops'[t][n + 1] = o
      /\ \A i \in 1 .. n : drops'[t][i] = drops[t][i]
      /\ \A u \in Threads : u # t => drops'[u] = drops[u] /\ pc'[u] = pc[u]
      /\ pc'[t] = "drop"
  BY <1>c, <1>4 DEF IInv, TypeOK
<1>6. /\ Top(t)' = o /\ Dst(t)' = Dst(t)
      /\ \A u \in Threads : u # t => Top(u)' = Top(u) /\ Dst(u)' = Dst(u)
  BY <1>5 DEF Top, Dst
<1>7. /\ ref'[h] = Nil /\ \A g \in Handles : g # h => ref'[g] = ref[g]
      /\ counter'[o] = "freed" /\ object'[o] = "dying"
      /\ \A p \in Objects : p # o => counter'[p] = counter[p] /\ object'[p] = object[p]
  BY <1>4 DEF IInv, TypeOK
<1>8. ASSUME NEW u \in Threads, NEW i \in 1 .. Len(drops[u]) PROVE drops[u][i] # o
  <2> SUFFICES ASSUME drops[u][i] = o PROVE FALSE
    OBVIOUS
  <2>1. i = 1 /\ pc[u] # "idle"
    BY <1>3 DEF IInv, Chain, Shape, TypeOK
  <2>2. Dst(u) = o
    BY <2>1 DEF Dst
  <2>3. PICK g \in Roots : owner[g] = u /\ ref[g] = o
    BY <2>1, <2>2 DEF IInv, Claims
  <2>4. g # Dst(u)
    BY <2>2, SetsAssumption
  <2> QED
    BY <1>3, <2>3, <2>4, HeldAlive
<1>9. \A p \in Objects : Holders(p)' = Holders(p)
  <2>1. \A u \in Threads : pc'[u] = "destroy" <=> pc[u] = "destroy" /\ u # t
    BY <1>1, <1>5
  <2>2. ASSUME NEW u \in Threads, pc[u] = "destroy", u # t PROVE Top(u) # h
    <3>1. Len(drops[u]) \in 1 .. Len(drops[u]) /\ drops[u][Len(drops[u])] = Top(u)
      BY <2>2, TopOnStack DEF IInv
    <3> QED
      BY <1>1, <2>2, <3>1 DEF IInv, Chain
  <2>3. Condemned(h) /\ \A g \in Handles : Condemned(g)' <=> (Condemned(g) /\ g # h)
    BY <1>a, <1>1, <1>6, <2>1, <2>2 DEF Condemned
  <2>4. \A p \in Objects : p # Nil
    BY NilAssumption DEF Handles
  <2> QED
    BY <1>7, <2>3, <2>4 DEF Holders
<1>10. TypeOK'
  BY <1>4 DEF IInv, TypeOK, Handles
<1>11. Shape'
  BY <1>4, <1>5 DEF IInv, Shape
<1>12. Chain'
  <2>1. ASSUME NEW u \in Threads, NEW i \in 2 .. Len(drops'[u])
        PROVE  drops'[u][i] \in Objects /\ object'[drops'[u][i]] = "dying"
    <3>1. CASE u = t /\ i = n + 1
      BY <1>5, <1>7, <3>1
    <3>2. CASE ~(u = t /\ i = n + 1)
      <4>1. i \in 2 .. Len(drops[u]) /\ i \in 1 .. Len(drops[u]) /\ drops'[u][i] = drops[u][i]
        BY <1>c, <1>5, <3>2
      <4> QED
        BY <1>7, <4>1 DEF IInv, Chain
    <3> QED
      BY <3>1, <3>2
  <2>2. ASSUME NEW u \in Threads, NEW v \in Threads,
               NEW i \in 1 .. Len(drops'[u]), NEW j \in 1 .. Len(drops'[v]),
               drops'[u][i] = drops'[v][j]
        PROVE  u = v /\ i = j
    <3>1. \A w \in Threads : \A k \in 1 .. Len(drops'[w]) :
            \/ w = t /\ k = n + 1 /\ drops'[w][k] = o
            \/ k \in 1 .. Len(drops[w]) /\ drops'[w][k] = drops[w][k]
      BY <1>c, <1>5
    <3> QED
      BY <1>8, <2>2, <3>1 DEF IInv, Chain
  <2>3. ASSUME NEW p \in Objects, object'[p] = "dying"
        PROVE  \E u \in Threads : \E i \in 2 .. Len(drops'[u]) : drops'[u][i] = p
    <3>1. CASE p = o
      BY <1>5, <3>1
    <3>2. CASE p # o
      <4>1. PICK u \in Threads : \E i \in 2 .. Len(drops[u]) : drops[u][i] = p
        BY <1>7, <2>3, <3>2 DEF IInv, Chain
      <4>2. PICK i \in 2 .. Len(drops[u]) : drops[u][i] = p
        BY <4>1
      <4>3. i \in 2 .. Len(drops'[u]) /\ drops'[u][i] = p
        BY <1>c, <1>5, <4>2
      <4> QED
        BY <4>3
    <3> QED
      BY <3>1, <3>2
  <2> QED
    BY <2>1, <2>2, <2>3 DEF Chain
<1>13. Links'
  <2>1. ASSUME NEW u \in Threads, NEW i \in 1 .. Len(drops'[u]) - 1
        PROVE  ref'[drops'[u][i]] = Nil
    <3>1. CASE u = t /\ i = n
      BY <1>1, <1>5, <1>7, <3>1
    <3>2. CASE ~(u = t /\ i = n)
      <4>1. i \in 1 .. Len(drops[u]) - 1 /\ drops'[u][i] = drops[u][i]
        <5>1. CASE u = t
          BY <1>c, <1>5, <3>2, <5>1
        <5>2. CASE u # t
          BY <1>5, <5>2
        <5> QED
          BY <5>1, <5>2
      <4>2. drops[u][i] \in Handles /\ ref[drops[u][i]] = Nil
        BY <4>1 DEF IInv, TypeOK, Links
      <4> QED
        BY <1>7, <4>1, <4>2
    <3> QED
      BY <3>1, <3>2
  <2>2. ASSUME NEW g \in Handles, alloc'[g] # ref'[g]
        PROVE  \E u \in Threads : \E i \in 1 .. Len(drops'[u]) - 1 : drops'[u][i] = g
    <3>1. CASE g = h
      BY <1>1, <1>5, <3>1
    <3>2. CASE g # h
      <4>1. PICK u \in Threads : \E i \in 1 .. Len(drops[u]) - 1 : drops[u][i] = g
        BY <1>4, <1>7, <2>2, <3>2 DEF IInv, Links
      <4>2. PICK i \in 1 .. Len(drops[u]) - 1 : drops[u][i] = g
        BY <4>1
      <4>3. i \in 1 .. Len(drops'[u]) - 1 /\ drops'[u][i] = g
        BY <1>c, <1>5, <4>2
      <4> QED
        BY <4>3
    <3> QED
      BY <3>1, <3>2
  <2>3. ASSUME NEW u \in Threads, pc'[u] \in {"dropped", "copy", "destroy"}
        PROVE  u # t /\ Top(u)' = Top(u) /\ ref'[Top(u)] = ref[Top(u)] /\ pc'[u] = pc[u]
    <3>1. u # t
      BY <1>5, <2>3
    <3>2. /\ Len(drops[u]) \in 1 .. Len(drops[u]) /\ drops[u][Len(drops[u])] = Top(u)
          /\ Top(u) \in Handles
      BY <1>5, <2>3, <3>1, TopOnStack DEF IInv
    <3>3. Top(u) # h
      BY <1>1, <3>1, <3>2 DEF IInv, Chain
    <3> QED
      BY <1>5, <1>6, <1>7, <3>1, <3>2, <3>3
  <2>4. \A u \in Threads : pc'[u] \in {"dropped", "copy"} => ref'[Top(u)'] = Nil
    BY <2>3 DEF IInv, Links
  <2>5. \A u \in Threads : pc'[u] = "destroy" => ref'[Top(u)'] # Nil
    BY <2>3 DEF IInv, Links
  <2> QED
    BY <2>1, <2>2, <2>4, <2>5 DEF Links
<1>14. Cells'
  <2>1. ASSUME NEW u \in Threads, pc'[u] = "destroy"
        PROVE  /\ u # t /\ pc[u] = "destroy" /\ Top(u)' = Top(u)
               /\ ref'[Top(u)] = ref[Top(u)] /\ ref[Top(u)] # o /\ ref[Top(u)] \in Objects
    <3>1. u # t /\ pc[u] = "destroy"
      BY <1>5, <2>1
    <3>2. Top(u) \in Handles /\ ref[Top(u)] \in Objects
      BY <3>1, TopOnStack DEF IInv, TypeOK, Links
    <3>3. ref[Top(u)] # o
      BY <1>a, <1>b, <1>1, <3>1 DEF IInv, Cells
    <3> QED
      BY <1>b, <1>6, <1>7, <3>1, <3>2, <3>3
  <2>2. ASSUME NEW p \in Objects, counter'[p] = "live"
        PROVE  /\ count'[p] = Cardinality(Holders(p)')
               /\ Holders(p)' # {} \/ \E u \in Threads : pc'[u] = "destroy" /\ ref'[Top(u)'] = p
    <3>1. p # o /\ counter[p] = "live"
      BY <1>7, <2>2
    <3>2. count'[p] = Cardinality(Holders(p)')
      BY <1>4, <1>9, <3>1 DEF IInv, Cells, CountExact
    <3>3. ASSUME Holders(p)' = {}
          PROVE  \E u \in Threads : pc'[u] = "destroy" /\ ref'[Top(u)'] = p
      <4>1. PICK u \in Threads : pc[u] = "destroy" /\ ref[Top(u)] = p
        BY <1>9, <3>1, <3>3 DEF IInv, Cells
      <4>2. u # t
        BY <1>a, <1>b, <3>1, <4>1
      <4> QED
        BY <1>5, <2>1, <4>1, <4>2
    <3> QED
      BY <3>2, <3>3
  <2>3. ASSUME NEW p \in Objects, Holders(p)' # {}
        PROVE  counter'[p] = "live" /\ object'[p] = "live"
    BY <1>3, <1>7, <1>9, <2>3 DEF IInv, Cells, NoDanglingHandle
  <2>4. \A u \in Threads : pc'[u] = "destroy" =>
          counter'[ref'[Top(u)']] = "live" /\ count'[ref'[Top(u)']] = 0
    BY <1>4, <1>7, <2>1 DEF IInv, Cells
  <2>5. \A u, v \in Threads :
          pc'[u] = "destroy" /\ pc'[v] = "destroy" /\ ref'[Top(u)'] = ref'[Top(v)'] => u = v
    BY <2>1 DEF IInv, Cells
  <2>6. \A p \in Objects : /\ object'[p] = "none" <=> counter'[p] = "none"
                           /\ object'[p] = "live" <=> counter'[p] = "live"
    BY <1>7 DEF IInv, Cells
  <2> QED
    BY <2>2, <2>3, <2>4, <2>5, <2>6 DEF Cells, CountExact, NoDanglingHandle
<1>15. Claims'
  BY <1>a, <1>1, <1>4, <1>5, <1>6, <1>7, ClaimsKept
<1>l. LifeStep
  <2>1. \A p \in Objects : Fate(p)' = Fate(p)
    BY <1>3, <1>7, <1>9 DEF Fate
  <2> QED
    BY <1>9, <2>1, LifeStutter
<1>m. CellStep
  BY <1>3, <1>7 DEF CellStep
<1> QED
  BY <1>10, <1>11, <1>12, <1>13, <1>14, <1>15, <1>l, <1>m DEF IInv

\* The field of a dying object has been dropped and the object's memory goes.
LEMMA StepRelease ==
  ASSUME IInv, NEW t \in Threads, Release(t)
  PROVE  IInv' /\ LifeStep /\ CellStep
<1>a. PICK n \in Nat : n = Len(drops[t]) /\ n > 1
  BY DEF IInv, TypeOK, Release
<1>b. PICK o \in Objects : o = drops[t][n] /\ o = Top(t) /\ object[o] = "dying"
  <2>1. n \in 2 .. Len(drops[t])
    BY <1>a
  <2> QED
    BY <1>a, <2>1 DEF IInv, Chain, Top
<1>c. PICK k \in Handles : k = drops[t][n - 1]
  BY <1>a DEF IInv, TypeOK
<1>1. /\ pc[t] = "dropped" /\ object' = [object EXCEPT ![o] = "freed"]
      /\ alloc' = [alloc EXCEPT ![k] = Nil]
      /\ drops' = [drops EXCEPT ![t] = SubSeq(drops[t], 1, n - 1)]
      /\ UNCHANGED <<ref, count, counter, owner, pc, src>>
  BY <1>a, <1>b, <1>c DEF Release
<1>2. /\ Len(drops'[t]) = n - 1
      /\ \A i \in 1 .. n - 1 : drops'[t][i] = drops[t][i]
      /\ \A u \in Threads : u # t => drops'[u] = drops[u]
      /\ drops'[t] \in Seq(Handles)
  BY <1>a, <1>1 DEF IInv, TypeOK
<1>3. /\ Top(t)' = k /\ Dst(t)' = Dst(t)
      /\ \A u \in Threads : u # t => Top(u)' = Top(u) /\ Dst(u)' = Dst(u)
  <2>1. n - 1 \in 1 .. n - 1 /\ 1 \in 1 .. n - 1
    BY <1>a
  <2>2. drops'[t][n - 1] = drops[t][n - 1] /\ drops'[t][1] = drops[t][1]
    BY <1>2, <2>1
  <2> QED
    BY <1>c, <1>2, <2>2 DEF Top, Dst
<1>4. ref[k] = Nil /\ alloc'[k] = Nil /\ \A g \in Handles : g # k => alloc'[g] = alloc[g]
  <2>1. n - 1 \in 1 .. Len(drops[t]) - 1
    BY <1>a
  <2>2. ref[k] = Nil
    BY <1>c, <2>1 DEF IInv, Links
  <2> QED
    BY <1>1, <2>2 DEF IInv, TypeOK
<1>5. object'[o] = "freed" /\ \A p \in Objects : p # o => object'[p] = object[p]
  BY <1>1 DEF IInv, TypeOK
<1>6. \A u \in Threads : \A i \in 1 .. Len(drops'[u]) :
        /\ i \in 1 .. Len(drops[u]) /\ drops'[u][i] = drops[u][i] /\ drops'[u][i] # o
  <2> SUFFICES ASSUME NEW u \in Threads, NEW i \in 1 .. Len(drops'[u])
               PROVE  /\ i \in 1 .. Len(drops[u]) /\ drops'[u][i] = drops[u][i]
                      /\ drops'[u][i] # o
    OBVIOUS
  <2>1. i \in 1 .. Len(drops[u]) /\ drops'[u][i] = drops[u][i] /\ ~(u = t /\ i = n)
    BY <1>a, <1>2
  <2>2. n \in 1 .. Len(drops[t])
    BY <1>a
  <2>3. drops[u][i] = drops[t][n] => u = t /\ i = n
    BY <2>1, <2>2 DEF IInv, Chain
  <2> QED
    BY <1>b, <2>1, <2>3
<1>7. \A p \in Objects : Holders(p)' = Holders(p)
  BY <1>1, <1>3 DEF Holders, Condemned
<1>8. TypeOK'
  BY <1>1, <1>2 DEF IInv, TypeOK
<1>9. Shape'
  <2>1. Len(drops'[t]) # 0
    <3>1. n - 1 \in Nat /\ n - 1 > 0
      BY <1>a
    <3> QED
      BY <1>2, <3>1
  <2>2. pc[t] # "idle" /\ pc[t] # "copy"
    BY <1>1
  <2> QED
    BY <1>1, <1>2, <2>1, <2>2 DEF IInv, Shape
<1>10. Chain'
  <2>1. ASSUME NEW u \in Threads, NEW i \in 2 .. Len(drops'[u])
        PROVE  drops'[u][i] \in Objects /\ object'[drops'[u][i]] = "dying"
    <3>1. i \in 1 .. Len(drops'[u]) /\ i \in 2 .. Len(drops[u])
      BY <1>a, <1>2
    <3> QED
      BY <1>5, <1>6, <3>1 DEF IInv, Chain
  <2>2. \A u, v \in Threads : \A i \in 1 .. Len(drops'[u]), j \in 1 .. Len(drops'[v]) :
          drops'[u][i] = drops'[v][j] => u = v /\ i = j
    BY <1>6 DEF IInv, Chain
  <2>3. ASSUME NEW p \in Objects, object'[p] = "dying"
        PROVE  \E u \in Threads : \E i \in 2 .. Len(drops'[u]) : drops'[u][i] = p
    <3>1. PICK u \in Threads : \E i \in 2 .. Len(drops[u]) : drops[u][i] = p
      BY <1>5, <2>3 DEF IInv, Chain
    <3>2. PICK i \in 2 .. Len(drops[u]) : drops[u][i] = p
      BY <3>1
    <3>3. ~(u = t /\ i = n)
      BY <1>b, <1>5, <2>3, <3>2
    <3>4. i \in 2 .. Len(drops'[u]) /\ drops'[u][i] = p
      BY <1>a, <1>2, <3>2, <3>3
    <3> QED
      BY <3>4
  <2> QED
    BY <2>1, <2>2, <2>3 DEF Chain
<1>11. Links'
  <2>1. ASSUME NEW u \in Threads, NEW i \in 1 .. Len(drops'[u]) - 1
        PROVE  ref'[drops'[u][i]] = Nil
    <3>1. i \in 1 .. Len(drops[u]) - 1 /\ i \in 1 .. Len(drops'[u])
      BY <1>a, <1>2
    <3> QED
      BY <1>1, <1>6, <3>1 DEF IInv, Links
  <2>2. ASSUME NEW g \in Handles, alloc'[g] # ref'[g]
        PROVE  \E u \in Threads : \E i \in 1 .. Len(drops'[u]) - 1 : drops'[u][i] = g
    <3>1. g # k /\ alloc[g] # ref[g]
      BY <1>1, <1>4, <2>2
    <3>2. PICK u \in Threads : \E i \in 1 .. Len(drops[u]) - 1 : drops[u][i] = g
      BY <3>1 DEF IInv, Links
    <3>3. PICK i \in 1 .. Len(drops[u]) - 1 : drops[u][i] = g
      BY <3>2
    <3>4. ~(u = t /\ i = n - 1)
      BY <1>c, <3>1, <3>3
    <3>5. i \in 1 .. Len(drops'[u]) - 1 /\ drops'[u][i] = g
      BY <1>a, <1>2, <3>3, <3>4
    <3> QED
      BY <3>5
  <2>3. \A u \in Threads : pc'[u] \in {"dropped", "copy"} => ref'[Top(u)'] = Nil
    BY <1>1, <1>3, <1>4 DEF IInv, Links
  <2>4. \A u \in Threads : pc'[u] = "destroy" => ref'[Top(u)'] # Nil
    BY <1>1, <1>3 DEF IInv, Links
  <2> QED
    BY <2>1, <2>2, <2>3, <2>4 DEF Links
<1>12. Cells'
  <2>1. counter[o] # "live" /\ counter[o] # "none"
    BY <1>b DEF IInv, Cells
  <2>2. \A u \in Threads : pc[u] = "destroy" => Top(u)' = Top(u)
    BY <1>1, <1>3
  <2>3. \A p \in Objects : /\ object'[p] = "none" <=> counter'[p] = "none"
                           /\ object'[p] = "live" <=> counter'[p] = "live"
    BY <1>1, <1>5, <2>1 DEF IInv, Cells
  <2>4. CountExact' /\ NoDanglingHandle'
    BY <1>1, <1>5, <1>7, <2>1 DEF IInv, Cells, CountExact, NoDanglingHandle
  <2> QED
    BY <1>1, <1>7, <2>2, <2>3, <2>4 DEF IInv, Cells
<1>13. Claims'
  BY <1>1, <1>3, ClaimsKept
<1>l. LifeStep
  <2>1. counter[o] # "live" /\ counter' = counter
    BY <1>1, <1>b DEF IInv, Cells
  <2>2. \A p \in Objects : Fate(p)' = Fate(p)
    BY <1>b, <1>5, <1>7, <2>1 DEF Fate
  <2> QED
    BY <1>7, <2>2, LifeStutter
<1>m. CellStep
  BY <1>b, <1>5 DEF CellStep
<1> QED
  BY <1>8, <1>9, <1>10, <1>11, <1>12, <1>13, <1>l, <1>m DEF IInv

\* An operation without a copy ends, or the copy is due.
LEMMA StepDropped ==
  ASSUME IInv, NEW t \in Threads, Dropped(t)
  PROVE  IInv' /\ LifeStep /\ CellStep
<1>1. /\ pc[t] = "dropped" /\ Len(drops[t]) = 1
      /\ UNCHANGED <<alloc, ref, count, counter, object, owner>>
      /\ \/ /\ pc' = [pc EXCEPT ![t] = "idle"] /\ drops' = [drops EXCEPT ![t] = << >>]
            /\ src' = [src EXCEPT ![t] = Nil]
         \/ src[t] # Nil /\ pc' = [pc EXCEPT ![t] = "copy"] /\ UNCHANGED <<drops, src>>
  BY DEF Dropped, Return, cells
<1>2. /\ \A u \in Threads : u # t => pc'[u] = pc[u] /\ drops'[u] = drops[u] /\ src'[u] = src[u]
      /\ \/ pc'[t] = "idle" /\ drops'[t] = << >> /\ src'[t] = Nil
         \/ pc'[t] = "copy" /\ drops'[t] = drops[t] /\ src'[t] = src[t] /\ src[t] # Nil
  BY <1>1 DEF IInv, TypeOK
<1>3. \A u \in Threads : pc'[u] # "idle" =>
        /\ pc[u] # "idle" /\ drops'[u] = drops[u] /\ src'[u] = src[u]
        /\ Top(u)' = Top(u) /\ Dst(u)' = Dst(u)
  BY <1>1, <1>2 DEF Top, Dst
<1>4. Len(<< >>) = 0
  OBVIOUS
<1>5. \A u \in Threads : /\ \A i \in 1 .. Len(drops'[u]) : i \in 1 .. Len(drops[u]) /\ drops'[u][i] = drops[u][i]
                         /\ \A i \in 2 .. Len(drops[u]) : drops'[u] = drops[u]
                         /\ \A i \in 1 .. Len(drops[u]) - 1 : drops'[u] = drops[u]
  <2>1. \A i \in 2 .. Len(drops[t]) : FALSE
    BY <1>1
  <2>2. \A i \in 1 .. Len(drops[t]) - 1 : FALSE
    BY <1>1
  <2>3. Len(drops'[t]) = 0 \/ drops'[t] = drops[t]
    BY <1>2, <1>4
  <2>4. \A i \in 1 .. Len(drops'[t]) : i \in 1 .. Len(drops[t]) /\ drops'[t][i] = drops[t][i]
    BY <2>3
  <2> QED
    BY <1>2, <2>1, <2>2, <2>4
<1>6. TypeOK'
  <2>1. /\ pc' \in [Threads -> {"idle", "drop", "destroy", "dropped", "copy"}]
        /\ src' \in [Threads -> Handles \cup {Nil}]
    BY <1>1 DEF IInv, TypeOK
  <2>2. << >> \in Seq(Handles)
    OBVIOUS
  <2>3. drops' \in [Threads -> Seq(Handles)]
    BY <1>1, <2>2 DEF IInv, TypeOK
  <2> QED
    BY <1>1, <2>1, <2>3 DEF IInv, TypeOK
<1>7. Shape'
  BY <1>1, <1>2, <1>4 DEF IInv, Shape
<1>8. Chain'
  <2>1. \A u \in Threads : \A i \in 2 .. Len(drops'[u]) : drops'[u] = drops[u]
    BY <1>1, <1>2, <1>4
  <2>2. \A u, v \in Threads : \A i \in 1 .. Len(drops'[u]), j \in 1 .. Len(drops'[v]) :
          drops'[u][i] = drops'[v][j] => u = v /\ i = j
    BY <1>5 DEF IInv, Chain
  <2> QED
    BY <1>1, <1>5, <2>1, <2>2 DEF IInv, Chain
<1>9. Links'
  <2>1. \A u \in Threads : \A i \in 1 .. Len(drops'[u]) - 1 : drops'[u] = drops[u]
    BY <1>1, <1>2, <1>4
  <2>2. \A u \in Threads : pc'[u] \in {"dropped", "copy"} =>
          pc[u] \in {"dropped", "copy"} /\ Top(u)' = Top(u)
    BY <1>1, <1>2, <1>3
  <2>3. \A u \in Threads : pc'[u] = "destroy" => pc[u] = "destroy" /\ Top(u)' = Top(u)
    BY <1>2, <1>3
  <2> QED
    BY <1>1, <1>5, <2>1, <2>2, <2>3 DEF IInv, Links
<1>10. Cells'
  <2>1. \A u \in Threads : /\ pc'[u] = "destroy" <=> pc[u] = "destroy"
                           /\ pc[u] = "destroy" => Top(u)' = Top(u)
    BY <1>1, <1>2, <1>3
  <2>2. \A p : Holders(p)' = Holders(p)
    BY <1>1, <2>1 DEF Holders, Condemned
  <2> QED
    BY <1>1, <2>1, <2>2 DEF IInv, Cells, CountExact, NoDanglingHandle
<1>11. Claims'
  BY <1>1, <1>3, ClaimsKept
<1>l. LifeStep /\ CellStep
  <2>1. \A g : Condemned(g)' <=> Condemned(g)
    BY <1>1, <1>2, <1>3 DEF Condemned
  <2>2. \A p : Holders(p)' = Holders(p)
    BY <1>1, <2>1 DEF Holders
  <2> QED
    BY <1>1, <2>2, LifeStutter DEF Fate, CellStep
<1> QED
  BY <1>6, <1>7, <1>8, <1>9, <1>10, <1>11, <1>l DEF IInv

\* The copy: one holder more.
LEMMA StepCopy ==
  ASSUME IInv, NEW t \in Threads, Copy(t)
  PROVE  IInv' /\ LifeStep /\ CellStep
<1>a. PICK d \in Handles : d = Dst(t) /\ d = Top(t)
  BY TopOnStack DEF IInv, Shape, Copy, Top, Dst
<1>b. PICK s \in Handles : s = src[t]
  BY SourceAlive DEF Copy
<1>1. /\ pc[t] = "copy" /\ Len(drops[t]) = 1 /\ drops[t][1] = d
      /\ ref' = [ref EXCEPT ![d] = ref[s]] /\ alloc' = [alloc EXCEPT ![d] = alloc[s]]
      /\ count' = IF ref[s] = Nil THEN count ELSE [count EXCEPT ![ref[s]] = @ + 1]
      /\ pc' = [pc EXCEPT ![t] = "idle"] /\ drops' = [drops EXCEPT ![t] = << >>]
      /\ src' = [src EXCEPT ![t] = Nil]
      /\ UNCHANGED <<counter, object, owner>>
  BY <1>a, <1>b DEF Copy, Return, IInv, Shape, Dst
<1>2. /\ ref'[d] = ref[s] /\ alloc'[d] = alloc[s]
      /\ \A g \in Handles : g # d => ref'[g] = ref[g] /\ alloc'[g] = alloc[g]
      /\ pc'[t] = "idle" /\ drops'[t] = << >> /\ src'[t] = Nil
      /\ \A u \in Threads : u # t => pc'[u] = pc[u] /\ drops'[u] = drops[u] /\ src'[u] = src[u]
  BY <1>1 DEF IInv, TypeOK
<1>3. /\ ref[d] = Nil /\ alloc[s] = ref[s]
      /\ \A o \in Objects : ref[s] = o =>
           s \in Holders(o) /\ counter[o] = "live" /\ object[o] = "live"
  BY <1>a, <1>b, <1>1, SourceAlive
<1>4. \A u \in Threads : u # t => Top(u)' = Top(u) /\ Dst(u)' = Dst(u)
  BY <1>2 DEF Top, Dst
<1>5. /\ \A u \in Threads : pc'[u] = "destroy" <=> pc[u] = "destroy"
      /\ \A u \in Threads : pc[u] = "destroy" => Top(u)' = Top(u) /\ u # t
      /\ ~Condemned(d) /\ \A g : Condemned(g)' <=> Condemned(g)
  BY <1>a, <1>1, <1>2, <1>4, TopCondemned DEF Condemned
<1>6. \A u \in Threads : u # t /\ pc[u] # "idle" => Top(u) # d /\ Top(u) \in Handles
  <2> SUFFICES ASSUME NEW u \in Threads, u # t, pc[u] # "idle"
               PROVE  Top(u) # d /\ Top(u) \in Handles
    OBVIOUS
  <2>1. /\ Len(drops[u]) \in 1 .. Len(drops[u]) /\ Top(u) = drops[u][Len(drops[u])]
        /\ 1 \in 1 .. Len(drops[t]) /\ Top(u) \in Handles
    BY <1>1, TopOnStack DEF IInv
  <2> QED
    BY <1>1, <2>1 DEF IInv, Chain
<1>7. ASSUME NEW o \in Objects, o # ref[s]
      PROVE  Holders(o)' = Holders(o) /\ count'[o] = count[o]
  <2>1. o # Nil
    BY NilAssumption DEF Handles
  <2> QED
    BY <1>1, <1>2, <1>3, <1>5, <1>7, <2>1 DEF Holders, IInv, TypeOK
<1>8. ASSUME NEW o \in Objects, o = ref[s]
      PROVE  /\ Holders(o)' = Holders(o) \cup {d} /\ count'[o] = count[o] + 1
             /\ counter[o] = "live" /\ object[o] = "live"
             /\ count'[o] = Cardinality(Holders(o)') /\ Holders(o) # {}
  <2>1. o # Nil
    BY NilAssumption DEF Handles
  <2>2. Holders(o)' = Holders(o) \cup {d} /\ d \notin Holders(o)
    BY <1>2, <1>3, <1>5, <1>8, <2>1 DEF Holders
  <2>3. counter[o] = "live" /\ object[o] = "live" /\ count[o] = Cardinality(Holders(o))
        /\ Holders(o) # {}
    BY <1>3, <1>8 DEF IInv, Cells, CountExact
  <2>4. count'[o] = count[o] + 1
    BY <1>1, <1>8, <2>1 DEF IInv, TypeOK
  <2>5. Cardinality(Holders(o)') = count[o] + 1
    <3>1. Cardinality(Holders(o) \cup {d}) = Cardinality(Holders(o)) + 1
      BY <2>2, HoldersFinite, FS_AddElement
    <3> QED
      BY <2>2, <2>3, <3>1
  <2> QED
    BY <2>2, <2>3, <2>4, <2>5
<1>9. TypeOK'
  BY <1>1 DEF IInv, TypeOK
<1>10. Shape'
  BY <1>2 DEF IInv, Shape
<1>11. Chain'
  <2>1. Len(drops'[t]) = 0
    BY <1>2
  <2>2. \A u \in Threads : \A i \in 1 .. Len(drops'[u]) : u # t
    BY <2>1
  <2>3. \A u \in Threads : \A i \in 2 .. Len(drops'[u]) : i \in 1 .. Len(drops'[u])
    OBVIOUS
  <2>4. \A i \in 2 .. Len(drops[t]) : FALSE
    BY <1>1
  <2>5. \A u \in Threads : \A i \in 2 .. Len(drops'[u]) :
          drops'[u][i] \in Objects /\ object'[drops'[u][i]] = "dying"
    BY <1>1, <1>2, <2>2, <2>3 DEF IInv, Chain
  <2>6. \A u, v \in Threads : \A i \in 1 .. Len(drops'[u]), j \in 1 .. Len(drops'[v]) :
          drops'[u][i] = drops'[v][j] => u = v /\ i = j
    BY <1>2, <2>2 DEF IInv, Chain
  <2>7. \A o \in Objects : object'[o] = "dying" =>
          \E u \in Threads : \E i \in 2 .. Len(drops'[u]) : drops'[u][i] = o
    BY <1>1, <1>2, <2>4 DEF IInv, Chain
  <2> QED
    BY <2>5, <2>6, <2>7 DEF Chain
<1>12. Links'
  <2>1. \A i \in 1 .. Len(drops[t]) - 1 : FALSE
    BY <1>1
  <2>2. \A i \in 1 .. Len(drops'[t]) - 1 : FALSE
    BY <1>2
  <2>3. ASSUME NEW u \in Threads, NEW i \in 1 .. Len(drops'[u]) - 1
        PROVE  ref'[drops'[u][i]] = Nil
    <3>1. u # t /\ i \in 1 .. Len(drops[u]) - 1 /\ drops'[u][i] = drops[u][i]
      BY <1>2, <2>2
    <3>2. i \in 1 .. Len(drops[u]) /\ drops[u][i] \in Handles /\ 1 \in 1 .. Len(drops[t])
      BY <1>1, <3>1 DEF IInv, TypeOK
    <3>3. drops[u][i] # d
      BY <1>1, <3>1, <3>2 DEF IInv, Chain
    <3> QED
      BY <1>2, <3>1, <3>2, <3>3 DEF IInv, Links
  <2>4. ASSUME NEW g \in Handles, alloc'[g] # ref'[g]
        PROVE  \E u \in Threads : \E i \in 1 .. Len(drops'[u]) - 1 : drops'[u][i] = g
    <3>1. g # d /\ alloc[g] # ref[g]
      BY <1>2, <1>3, <2>4
    <3>2. PICK u \in Threads : \E i \in 1 .. Len(drops[u]) - 1 : drops[u][i] = g
      BY <3>1 DEF IInv, Links
    <3>3. u # t
      BY <2>1, <3>2
    <3> QED
      BY <1>2, <3>2, <3>3
  <2>5. \A u \in Threads : pc'[u] \in {"dropped", "copy"} => ref'[Top(u)'] = Nil
    BY <1>2, <1>4, <1>6 DEF IInv, Links
  <2>6. \A u \in Threads : pc'[u] = "destroy" => ref'[Top(u)'] # Nil
    BY <1>2, <1>4, <1>6 DEF IInv, Links
  <2> QED
    BY <2>3, <2>4, <2>5, <2>6 DEF Links
<1>13. Cells'
  <2>1. CountExact' /\ NoDanglingHandle'
    BY <1>1, <1>7, <1>8 DEF IInv, Cells, CountExact, NoDanglingHandle
  <2>2. \A u \in Threads : pc[u] = "destroy" =>
          /\ Top(u)' = Top(u) /\ ref'[Top(u)] = ref[Top(u)] /\ ref[Top(u)] \in Objects
    BY <1>2, <1>4, <1>5, <1>6 DEF IInv, TypeOK, Links
  <2>3. \A u \in Threads : pc[u] = "destroy" => ref[Top(u)] # ref[s]
    <3> SUFFICES ASSUME NEW u \in Threads, pc[u] = "destroy", ref[Top(u)] = ref[s]
                 PROVE  FALSE
      OBVIOUS
    <3>1. PICK o \in Objects : o = ref[s]
      BY <2>2
    <3>2. count[o] = 0 /\ counter[o] = "live"
      BY <3>1 DEF IInv, Cells
    <3>3. Cardinality(Holders(o)) = 0
      BY <3>2 DEF IInv, Cells, CountExact
    <3> QED
      BY <1>8, <3>1, <3>3, HoldersFinite, FS_EmptySet
  <2>4. ASSUME NEW o \in Objects, counter'[o] = "live"
        PROVE  Holders(o)' # {} \/ \E u \in Threads : pc'[u] = "destroy" /\ ref'[Top(u)'] = o
    BY <1>1, <1>5, <1>7, <1>8, <2>2, <2>4 DEF IInv, Cells
  <2>5. \A u \in Threads : pc'[u] = "destroy" =>
          counter'[ref'[Top(u)']] = "live" /\ count'[ref'[Top(u)']] = 0
    BY <1>1, <1>5, <1>7, <2>2, <2>3 DEF IInv, Cells
  <2>6. \A u, v \in Threads :
          pc'[u] = "destroy" /\ pc'[v] = "destroy" /\ ref'[Top(u)'] = ref'[Top(v)'] => u = v
    BY <1>5, <2>2 DEF IInv, Cells
  <2> QED
    BY <1>1, <2>1, <2>4, <2>5, <2>6 DEF IInv, Cells
<1>14. Claims'
  BY <1>a, <1>1, <1>2, <1>4, ClaimsKept
<1>l. LifeStep
  <2>1. \A o \in Objects : Fate(o)' = Fate(o)
    BY <1>1, <1>3, <1>7, <1>8 DEF Fate
  <2>2. CASE ref[s] \notin Objects
    BY <1>7, <2>1, <2>2, LifeStutter
  <2>3. CASE ref[s] \in Objects
    <3>1. PICK o \in Objects : o = ref[s]
      BY <2>3
    <3>2. Holders(o)' = Holders(o) \cup {d} /\ Holders(o) # {} /\ Fate(o) = "alive"
      BY <1>3, <1>8, <3>1 DEF Fate, IInv, Cells
    <3>3. \A p \in Objects : d \notin Holders(p)
      BY <1>3, NilAssumption DEF Holders, Handles
    <3> QED
      BY <1>7, <2>1, <3>1, <3>2, <3>3, LifeShare
  <2> QED
    BY <2>2, <2>3
<1>m. CellStep
  BY <1>1 DEF CellStep
<1> QED
  BY <1>9, <1>10, <1>11, <1>12, <1>13, <1>14, <1>l, <1>m DEF IInv

-----------------------------------------------------------------------------
(* The theorems *)

\* Every step keeps the invariant and is a step of Lifetime.
LEMMA StepInv ==
  ASSUME IInv, ~InnerSource, [Next]_vars
  PROVE  IInv' /\ LifeStep /\ [CellStep]_vars
<1>1. CASE UNCHANGED vars
  <2>1. UNCHANGED <<ref, pc, drops>>
    BY <1>1 DEF vars
  <2>2. (\A o : Holders(o)' = Holders(o)) /\ \A t : Top(t)' = Top(t) /\ Dst(t)' = Dst(t)
    BY <2>1, SameHolders
  <2>3. TypeOK' /\ Shape' /\ Chain'
    BY <1>1 DEF vars, IInv, TypeOK, Shape, Chain
  <2>4. Links' /\ Cells' /\ Claims'
    BY <1>1, <2>2 DEF vars, IInv, Links, Cells, Claims, CountExact, NoDanglingHandle
  <2>5. LifeStep
    BY <1>1, <2>2, LifeStutter DEF vars, Fate
  <2> QED
    BY <1>1, <2>3, <2>4, <2>5 DEF IInv
<1>2. ASSUME NEW t \in Threads, NEW h \in Roots, New(t, h) \/ Give(t, h) \/ Destruct(t, h)
      PROVE  IInv' /\ LifeStep /\ CellStep
  BY <1>2, StepNew, StepGive, StepDestruct
<1>3. ASSUME NEW t \in Threads, NEW d \in Handles, NEW s \in Handles, Assign(t, d, s)
      PROVE  IInv' /\ LifeStep /\ CellStep
  BY <1>3, StepAssign
<1>4. ASSUME NEW t \in Threads, Run(t)
      PROVE  IInv' /\ LifeStep /\ CellStep
  <2>1. CASE Decrement(t)
    <3>1. CASE ref[Top(t)] # Nil /\ count[ref[Top(t)]] = 1
      BY <2>1, <3>1, StepCondemn DEF Decrement
    <3>2. CASE ~(ref[Top(t)] # Nil /\ count[ref[Top(t)]] = 1)
      BY <2>1, <3>2, StepLeave DEF Decrement
    <3> QED
      BY <3>1, <3>2
  <2> QED
    BY <1>4, <2>1, StepDestroy, StepRelease, StepDropped, StepCopy DEF Run
<1> QED
  BY <1>1, <1>2, <1>3, <1>4 DEF Next

\* IInv is an invariant of every program that does not assign from inside.
LEMMA Invariance ==
  ASSUME InnerSource = FALSE
  PROVE  Spec => []IInv
<1>1. IInv /\ [Next]_vars => IInv'
  BY StepInv
<1> QED
  BY <1>1, InitInv, PTL DEF Spec

\* The state of Ref is well-typed.
THEOREM TypeCorrect ==
  ASSUME InnerSource = FALSE
  PROVE  Spec => []TypeOK
<1>1. IInv => TypeOK
  BY DEF IInv
<1> QED
  BY <1>1, Invariance, PTL

\* A counter is the number of handles that hold its object (add_ref and
\* drop_ref of ref.hpp), in every interleaving of any number of threads.
THEOREM CountCorrect ==
  ASSUME InnerSource = FALSE
  PROVE  Spec => []CountExact
<1>1. IInv => CountExact
  BY DEF IInv, Cells
<1> QED
  BY <1>1, Invariance, PTL

\* What a handle holds is allocated, counter and all: drop() deletes neither
\* while anybody holds the object.
THEOREM HandlesSafe ==
  ASSUME InnerSource = FALSE
  PROVE  Spec => []NoDanglingHandle
<1>1. IInv => NoDanglingHandle
  BY DEF IInv, Cells
<1> QED
  BY <1>1, Invariance, PTL

\* drop() and operator= never touch a handle in freed memory, however deep the
\* chain of objects a drop() is destroying.
THEOREM AccessSafe ==
  ASSUME InnerSource = FALSE
  PROVE  Spec => []NoDanglingAccess
<1>1. IInv => NoDanglingAccess
  <2> SUFFICES ASSUME IInv, NEW t \in Threads, pc[t] # "idle", NEW o \in Objects,
                      o = src[t] \/ \E i \in 1 .. Len(drops[t]) : o = drops[t][i]
               PROVE  object[o] \in {"live", "dying"}
    BY DEF NoDanglingAccess
  <2>1. CASE o = src[t]
    <3>1. PICK g \in Roots : g # Dst(t) /\ owner[g] = t /\ ref[g] = o
      BY <2>1 DEF IInv, Claims
    <3> QED
      BY <3>1, HeldAlive
  <2>2. ASSUME NEW i \in 1 .. Len(drops[t]), o = drops[t][i]
        PROVE  object[o] \in {"live", "dying"}
    <3>1. CASE i = 1
      <4>1. Dst(t) = o
        BY <2>2, <3>1 DEF Dst
      <4>2. PICK g \in Roots : owner[g] = t /\ ref[g] = o
        BY <4>1 DEF IInv, Claims
      <4>3. g # Dst(t)
        BY <4>1, SetsAssumption
      <4> QED
        BY <4>2, <4>3, HeldAlive
    <3>2. CASE i # 1
      <4>1. i \in 2 .. Len(drops[t])
        BY <3>2 DEF IInv, TypeOK
      <4> QED
        BY <2>2, <4>1 DEF IInv, Chain
    <3> QED
      BY <3>1, <3>2
  <2> QED
    BY <2>1, <2>2
<1> QED
  BY <1>1, Invariance, PTL

\* "An allocation is automatically released as soon as the reference count
\* reaches zero": when nobody is inside drop(), nothing without a holder is
\* left.
THEOREM NothingLeaks ==
  ASSUME InnerSource = FALSE
  PROVE  Spec => []ReleasedAtZero
<1>1. IInv => ReleasedAtZero
  <2> SUFFICES ASSUME IInv, \A t \in Threads : pc[t] = "idle",
                      NEW o \in Objects, Holders(o) = {}
               PROVE  object[o] \in {"none", "freed"} /\ counter[o] = object[o]
    BY DEF ReleasedAtZero
  <2>1. counter[o] # "live"
    BY DEF IInv, Cells
  <2>2. object[o] # "dying"
    <3>1. \A t \in Threads : \A i \in 2 .. Len(drops[t]) : FALSE
      BY DEF IInv, Shape
    <3> QED
      BY <3>1 DEF IInv, Chain
  <2> QED
    BY <2>1, <2>2 DEF IInv, Cells, TypeOK
<1> QED
  BY <1>1, Invariance, PTL

\* No step of any operation deletes an object or a counter twice.
THEOREM NoDoubleDelete ==
  ASSUME InnerSource = FALSE
  PROVE  Spec => DeletedOnce
<1>1. IInv /\ [Next]_vars => [CellStep]_vars
  BY StepInv
<1> QED
  BY <1>1, Invariance, PTL DEF Spec, DeletedOnce

\* Ref implements Lifetime: to its holders an object appears once, is shared
\* and left, and goes with its last holder.
THEOREM Refinement ==
  ASSUME InnerSource = FALSE
  PROVE  Spec => ImplementsLifetime
<1>1. Init => Life!Init
  <2> SUFFICES ASSUME Init PROVE Life!Init
    OBVIOUS
  <2>1. \A o \in Objects : Holders(o) = {}
    BY NilAssumption DEF Init, Holders, Handles
  <2>2. \A o \in Objects : Fate(o) = "unborn"
    BY DEF Init, Fate
  <2> QED
    BY <2>1, <2>2 DEF Life!Init
<1>2. IInv /\ [Next]_vars => [Life!Next]_(Life!vars)
  BY StepInv DEF LifeStep
<1> QED
  BY <1>1, <1>2, Invariance, PTL DEF Spec, ImplementsLifetime, Life!Spec
-----------------------------------------------------------------------------
(* How far an operation is from its end *)

\* The objects whose destructors have not begun.
Unbroken == {o \in Objects : object[o] \in {"none", "live"}}

Stage(c) == CASE c = "drop" -> 4 [] c = "destroy" -> 3 [] c = "dropped" -> 2
              [] c = "copy" -> 1 [] OTHER -> 0

\* What may lie before thread t: objects to destroy, frames to leave, and the
\* steps of the frame it is in.
Ahead(t) == 4 * Cardinality(Unbroken) + 2 * Len(drops[t]) + Stage(pc[t])

\* A step of an operation brings it nearer to its end, and what the other
\* threads do meanwhile does not take it farther away.
Descends ==
  \A t \in Threads : pc[t] # "idle" =>
    /\ Ahead(t) \in Nat
    /\ Ahead(t)' <= Ahead(t)
    /\ Run(t) => Ahead(t)' < Ahead(t)

LEMMA UnbrokenShrinks ==
  ASSUME TypeOK, TypeOK', [CellStep]_vars
  PROVE  /\ Unbroken' \subseteq Unbroken
         /\ IsFiniteSet(Unbroken)
         /\ Cardinality(Unbroken) \in Nat /\ Cardinality(Unbroken') \in Nat
         /\ Cardinality(Unbroken') <= Cardinality(Unbroken)
<1>1. IsFiniteSet(Objects)
  BY SetsAssumption, FS_Subset DEF Handles
<1>2. Unbroken' \subseteq Unbroken
  <2> SUFFICES ASSUME NEW o \in Objects, object'[o] \in {"none", "live"}
               PROVE  object[o] \in {"none", "live"}
    BY DEF Unbroken
  <2>1. CASE UNCHANGED vars
    BY <2>1 DEF vars
  <2>2. CASE CellStep
    BY <2>2 DEF CellStep
  <2> QED
    BY <2>1, <2>2
<1>3. IsFiniteSet(Unbroken) /\ IsFiniteSet(Unbroken')
  BY <1>1, FS_Subset DEF Unbroken
<1> QED
  BY <1>2, <1>3, FS_CardinalityType, FS_Subset

\* An object that begins to die leaves the others, of which there is one less.
LEMMA BreaksOne ==
  ASSUME IInv, NEW t \in Threads, Destroy(t)
  PROVE  \E o \in Unbroken : Unbroken' = Unbroken \ {o}
<1> DEFINE h == Top(t)
           o == alloc[h]
<1>0. h \in Handles /\ Len(drops[t]) \in Nat /\ Len(drops[t]) >= 1 /\ h = drops[t][Len(drops[t])]
  BY TopOnStack DEF Destroy, IInv
<1>1. ref[h] # Nil /\ ref[h] \in Objects /\ counter[ref[h]] = "live" /\ object[ref[h]] = "live"
  BY <1>0 DEF Destroy, IInv, TypeOK, Links, Cells
<1>2. alloc[h] = ref[h]
  <2> SUFFICES ASSUME alloc[h] # ref[h]
               PROVE  FALSE
    OBVIOUS
  <2>1. PICK u \in Threads : \E i \in 1 .. Len(drops[u]) - 1 : drops[u][i] = h
    BY <1>0 DEF IInv, Links
  <2>2. PICK i \in 1 .. Len(drops[u]) - 1 : drops[u][i] = h
    BY <2>1
  <2>3. Len(drops[u]) \in Nat
    BY DEF IInv, TypeOK
  <2>4. i \in 1 .. Len(drops[u]) /\ Len(drops[t]) \in 1 .. Len(drops[t])
    BY <2>2, <2>3, <1>0
  <2>5. u = t /\ i = Len(drops[t])
    BY <1>0, <2>2, <2>4 DEF IInv, Chain
  <2> QED
    BY <2>2, <2>5, <1>0
<1>3. object' = [object EXCEPT ![o] = "dying"] /\ object \in [Objects -> {"none", "live", "dying", "freed"}]
  BY DEF Destroy, IInv, TypeOK
<1>4. o \in Unbroken
  BY <1>1, <1>2 DEF Unbroken
<1>5. Unbroken' = Unbroken \ {o}
  BY <1>3, <1>4 DEF Unbroken
<1> QED
  BY <1>4, <1>5

LEMMA RunDescends ==
  ASSUME IInv, IInv', CellStep, NEW t \in Threads, Run(t)
  PROVE  Ahead(t)' < Ahead(t)
<1>0. TypeOK /\ TypeOK' /\ drops[t] \in Seq(Handles) /\ pc \in [Threads -> {"idle", "drop", "destroy", "dropped", "copy"}]
      /\ drops \in [Threads -> Seq(Handles)]
  BY DEF IInv, TypeOK
<1>1. /\ Cardinality(Unbroken) \in Nat /\ Cardinality(Unbroken') \in Nat
      /\ Cardinality(Unbroken') <= Cardinality(Unbroken)
      /\ IsFiniteSet(Unbroken)
  BY <1>0, UnbrokenShrinks
<1>2. Len(drops[t]) \in Nat /\ (pc[t] # "idle" => Len(drops[t]) >= 1)
  BY <1>0 DEF IInv, Shape
<1>3. CASE Decrement(t)
  <2>1. pc[t] = "drop" /\ pc'[t] \in {"dropped", "destroy"} /\ drops'[t] = drops[t]
    BY <1>0, <1>3 DEF Decrement, Leave, Condemn
  <2> QED
    BY <1>1, <1>2, <2>1 DEF Ahead, Stage
<1>4. CASE Destroy(t)
  <2>1. pc[t] = "destroy" /\ pc'[t] = "drop" /\ drops'[t] = Append(drops[t], alloc[Top(t)])
    BY <1>0, <1>4 DEF Destroy
  <2>2. Len(drops'[t]) = Len(drops[t]) + 1
    BY <2>1, <1>0
  <2>3. PICK o \in Unbroken : Unbroken' = Unbroken \ {o}
    BY <1>4, BreaksOne
  <2>4. Cardinality(Unbroken') = Cardinality(Unbroken) - 1
    BY <1>1, <2>3, FS_RemoveElement
  <2> QED
    BY <1>1, <1>2, <2>1, <2>2, <2>4 DEF Ahead, Stage
<1>5. CASE Release(t)
  <2>1. pc[t] = "dropped" /\ pc'[t] = "dropped" /\ drops'[t] = SubSeq(drops[t], 1, Len(drops[t]) - 1)
    BY <1>0, <1>5 DEF Release
  <2>2. Len(drops'[t]) = Len(drops[t]) - 1
    BY <2>1, <1>0, <1>2, <1>5 DEF Release
  <2> QED
    BY <1>1, <1>2, <2>1, <2>2 DEF Ahead, Stage
<1>6. CASE Dropped(t)
  <2>1. pc[t] = "dropped" /\ pc'[t] \in {"idle", "copy"} /\ drops'[t] \in {drops[t], << >>}
    BY <1>0, <1>6 DEF Dropped, Return
  <2>2. Len(drops'[t]) \in Nat /\ Len(drops'[t]) <= Len(drops[t])
    BY <2>1, <1>2
  <2> QED
    BY <1>1, <1>2, <2>1, <2>2 DEF Ahead, Stage
<1>7. CASE Copy(t)
  <2>1. pc[t] = "copy" /\ pc'[t] = "idle" /\ drops'[t] = << >>
    BY <1>0, <1>7 DEF Copy, Return
  <2>2. Len(drops'[t]) = 0
    BY <2>1
  <2> QED
    BY <1>1, <1>2, <2>1, <2>2 DEF Ahead, Stage
<1> QED
  BY <1>3, <1>4, <1>5, <1>6, <1>7 DEF Run

\* A thread that is in an operation is moved by nothing but its own Run.
LEMMA OthersStayAway ==
  ASSUME IInv, [Next]_vars, NEW t \in Threads, pc[t] # "idle", ~Run(t)
  PROVE  pc'[t] = pc[t] /\ drops'[t] = drops[t]
<1>0. pc \in [Threads -> {"idle", "drop", "destroy", "dropped", "copy"}] /\ drops \in [Threads -> Seq(Handles)]
  BY DEF IInv, TypeOK
<1>1. CASE UNCHANGED vars
  BY <1>1 DEF vars
<1>2. ASSUME NEW u \in Threads, NEW h \in Roots, New(u, h) \/ Give(u, h) \/ Destruct(u, h)
      PROVE  pc'[t] = pc[t] /\ drops'[t] = drops[t]
  BY <1>0, <1>2 DEF New, Give, Destruct, Begin
<1>3. ASSUME NEW u \in Threads, NEW d \in Handles, NEW s \in Handles, Assign(u, d, s)
      PROVE  pc'[t] = pc[t] /\ drops'[t] = drops[t]
  BY <1>0, <1>3 DEF Assign, Begin
<1>4. ASSUME NEW u \in Threads, Run(u)
      PROVE  pc'[t] = pc[t] /\ drops'[t] = drops[t]
  <2>1. u # t
    BY <1>4
  <2>2. Decrement(u) \/ Destroy(u) \/ Release(u) \/ Dropped(u) \/ Copy(u)
    BY <1>4 DEF Run
  <2> QED
    BY <1>0, <2>1, <2>2 DEF Decrement, Leave, Condemn, Destroy, Release, Dropped, Return, Copy
<1> QED
  BY <1>1, <1>2, <1>3, <1>4 DEF Next

\* Every drop() and assignment of any number of threads descends towards its
\* end, whatever the chain of objects it destroys (ref.hpp, drop and
\* operator=): with the fairness of FairSpec it cannot go on for ever.
THEOREM DropsDescend ==
  ASSUME InnerSource = FALSE
  PROVE  Spec => [][Descends]_vars
<1>1. ASSUME IInv, IInv', [Next]_vars
      PROVE  Descends
  <2> SUFFICES ASSUME NEW t \in Threads, pc[t] # "idle"
               PROVE  /\ Ahead(t) \in Nat
                      /\ Ahead(t)' <= Ahead(t)
                      /\ Run(t) => Ahead(t)' < Ahead(t)
    BY DEF Descends
  <2>1. [CellStep]_vars /\ TypeOK /\ TypeOK'
    BY <1>1, StepInv DEF IInv
  <2>2. /\ Cardinality(Unbroken) \in Nat /\ Cardinality(Unbroken') \in Nat
        /\ Cardinality(Unbroken') <= Cardinality(Unbroken)
    BY <2>1, UnbrokenShrinks
  <2>3. Len(drops[t]) \in Nat /\ Len(drops'[t]) \in Nat
    BY <2>1 DEF TypeOK
  <2>4. \A c : Stage(c) \in 0 .. 4
    BY DEF Stage
  <2>5. Ahead(t) \in Nat /\ Ahead(t)' \in Nat
    BY <2>2, <2>3, <2>4 DEF Ahead
  <2>6. CASE Run(t)
    <3>1. CellStep
      <4>1. ~UNCHANGED vars
        <5>1. pc'[t] # pc[t] \/ drops'[t] # drops[t]
          <6>1. Len(drops[t]) >= 1 /\ drops[t] \in Seq(Handles) /\ pc \in [Threads -> {"idle", "drop", "destroy", "dropped", "copy"}] /\ drops \in [Threads -> Seq(Handles)]
            BY <1>1 DEF IInv, TypeOK, Shape
          <6>2. Release(t) => drops'[t] = SubSeq(drops[t], 1, Len(drops[t]) - 1)
            BY <6>1 DEF Release
          <6>3. Release(t) => Len(drops'[t]) = Len(drops[t]) - 1
            BY <6>1, <6>2
          <6>4. ~Release(t) => pc'[t] # pc[t]
            BY <2>6, <6>1 DEF Run, Decrement, Leave, Condemn, Destroy, Dropped, Return, Copy
          <6> QED
            BY <6>1, <6>3, <6>4
        <5> QED
          BY <5>1 DEF vars
      <4> QED
        BY <2>1, <4>1
    <3>2. Ahead(t)' < Ahead(t)
      BY <1>1, <2>6, <3>1, RunDescends
    <3> QED
      BY <2>5, <3>2
  <2>7. CASE ~Run(t)
    <3>1. pc'[t] = pc[t] /\ drops'[t] = drops[t]
      BY <1>1, <2>7, OthersStayAway
    <3>2. Ahead(t)' <= Ahead(t)
      BY <2>2, <2>3, <2>4, <3>1 DEF Ahead
    <3> QED
      BY <2>5, <2>7, <3>2
  <2> QED
    BY <2>6, <2>7
<1>2. IInv /\ IInv' /\ [Next]_vars => [Descends]_vars
  BY <1>1
<1> QED
  BY <1>2, Invariance, PTL DEF Spec
=============================================================================
