---------------------------- MODULE SliceProofs ----------------------------
(***************************************************************************)
(* Proofs about module Slice: what its small instances show holds for any  *)
(* threads, variables and arrays of any capacity.                          *)
(*                                                                         *)
(* The invariant adds to the properties what dealloc() leaves behind: a    *)
(* variable that has no alloc has no window, whatever its ref says; and a  *)
(* thread that is about to delete a counter is the only one that holds it. *)
(***************************************************************************)
EXTENDS Slice, FiniteSetTheorems, TLAPS

\* The fields of a slice fit each other, and the heap.
SliceOK(v) ==
    /\ v.alloc # Nil => v.ref = v.alloc /\ v.off + v.cap <= size[v.alloc]
    /\ v.alloc = Nil => v.len = 0 /\ v.cap = 0
    /\ v.len <= v.cap
    /\ v.ref # Nil => v.slice = v.ref /\ counter[v.ref] = "live"

Shape == \A h \in Vars : SliceOK(var[h])

\* Counters are deleted before their arrays, or with them.
Cells ==
    \A a \in Arrays :
        /\ counter[a] = "live" => array[a] = "live"
        /\ array[a] = "none" => counter[a] = "none"

\* Nothing but the variable that t works on holds its counter.
Alone(t) ==
    /\ \A h \in Vars : var[h].ref = var[dst[t]].ref => h = dst[t]
    /\ \A u \in Threads : kind[u] = "grow" => src[u].ref # var[dst[t]].ref

\* Where a thread is, and with what.
WorkOK(t) ==
    /\ pc[t] = "idle" <=> kind[t] = "none"
    /\ pc[t] # "idle" => dst[t] \in Vars /\ owner[dst[t]] = t
    /\ kind[t] \in {"none", "nil", "destroy"} => src[t] = Blank
    /\ kind[t] = "assign" => \E s \in Vars : s # dst[t] /\ owner[s] = t /\ src[t] = var[s]
    /\ kind[t] = "grow" => SliceOK(src[t]) /\ src[t].ref # Nil
    /\ pc[t] \in {"drop", "delete", "copy"} => var[dst[t]].alloc = Nil
    /\ pc[t] = "free" => var[dst[t]].len = 0 /\ var[dst[t]].cap = 0
    /\ pc[t] = "copy" => var[dst[t]].ref = Nil
    /\ pc[t] \in {"free", "delete"} => var[dst[t]].ref # Nil /\ Alone(t)

Work == \A t \in Threads : WorkOK(t)

IInv == TypeOK /\ Shape /\ Cells /\ Work /\ CountExact

-----------------------------------------------------------------------------
(* One thread steps, with one variable *)

\* A step of t that works on d, as the other threads see it.
Apart(t, d) ==
    /\ owner[d] = t
    /\ pc[t] # "idle" => d = dst[t]
    /\ pc'[t] # "idle" => d = dst'[t]
    /\ \A u \in Threads \ {t} : pc'[u] = pc[u] /\ kind'[u] = kind[u]
                               /\ dst'[u] = dst[u] /\ src'[u] = src[u]
    /\ \A h \in Vars \ {d} : var'[h] = var[h]
    /\ \A h \in Vars : owner[h] # t => owner'[h] = owner[h]
    /\ \A a \in Arrays : counter[a] = "live" =>
           /\ size'[a] = size[a]
           /\ \/ counter'[a] = "live"
              \/ pc[t] \in {"free", "delete"} /\ d = dst[t] /\ a = var[d].ref
    /\ \/ var'[d].ref = Nil
       \/ \E s \in Vars : owner[s] = t /\ var'[d].ref = var[s].ref
       \/ kind[t] = "grow" /\ var'[d].ref = src[t].ref
       \/ counter[var'[d].ref] # "live"
    /\ kind'[t] = "grow" => \/ kind[t] = "grow" /\ src'[t] = src[t]
                            \/ counter[src'[t].ref] # "live"

\* What fits goes on fitting, unless it is what t deletes.
LEMMA FitsStill ==
    ASSUME IInv, NEW t \in Threads, NEW d \in Vars, Apart(t, d), NEW v \in Slices, SliceOK(v),
           pc[t] \in {"free", "delete"} /\ d = dst[t] => v.ref # var[d].ref \/ v.ref = Nil
    PROVE  SliceOK(v)'
<1>1. v.ref \in Arrays \union {Nil} /\ v.alloc \in Arrays \union {Nil}
    BY DEF Slices
<1>2. v.ref # Nil => counter'[v.ref] = "live" /\ size'[v.ref] = size[v.ref]
    BY <1>1 DEF SliceOK, Apart
<1>3. v.alloc # Nil => v.ref = v.alloc
    BY DEF SliceOK
<1> QED
    BY <1>2, <1>3 DEF SliceOK

LEMMA VarsTyped ==
    ASSUME IInv, NEW h \in Vars
    PROVE  var[h] \in Slices /\ SliceOK(var[h]) /\ owner[h] \in Threads
    BY DEF IInv, TypeOK, Shape

LEMMA ShapeKept ==
    ASSUME IInv, NEW t \in Threads, NEW d \in Vars, Apart(t, d), SliceOK(var[d])'
    PROVE  Shape'
<1>1. ASSUME NEW h \in Vars, h # d
      PROVE  SliceOK(var[h])'
    <2>1. var'[h] = var[h]
        BY <1>1 DEF Apart
    <2>2. pc[t] \in {"free", "delete"} /\ d = dst[t] => var[h].ref # var[d].ref
        BY <1>1 DEF IInv, Work, WorkOK, Alone
    <2>3. var[h] \in Slices /\ SliceOK(var[h])
        BY VarsTyped
    <2>4. \A v \in Slices : v = var[h] => SliceOK(v)'
        BY <2>2, <2>3, FitsStill
    <2> QED
        BY <2>1, <2>3, <2>4 DEF SliceOK
<1> QED
    BY <1>1 DEF Shape

\* The other threads are where they were, and what they work on too.
LEMMA OthersKept ==
    ASSUME IInv, NEW t \in Threads, NEW d \in Vars, Apart(t, d), NEW u \in Threads, u # t
    PROVE  WorkOK(u)'
<1>0. /\ pc'[u] = pc[u] /\ kind'[u] = kind[u] /\ dst'[u] = dst[u] /\ src'[u] = src[u]
      /\ WorkOK(u) /\ WorkOK(t)
    BY DEF Apart, IInv, Work
<1>1. \A h \in Vars : owner[h] = u => h # d /\ var'[h] = var[h] /\ owner'[h] = u
    BY DEF Apart
<1>2. pc[u] # "idle" => /\ dst[u] \in Vars /\ owner[dst[u]] = u /\ owner'[dst[u]] = u
                        /\ dst[u] # d /\ var'[dst[u]] = var[dst[u]]
    BY <1>0, <1>1 DEF WorkOK
<1>3. kind[u] = "assign" => \E s \in Vars : s # dst'[u] /\ owner'[s] = u /\ src'[u] = var'[s]
    BY <1>0, <1>1 DEF WorkOK
<1>4. ASSUME kind[u] = "grow"
      PROVE  SliceOK(src[u])' /\ src'[u].ref # Nil
    <2>1. src[u] \in Slices /\ SliceOK(src[u]) /\ src[u].ref # Nil
        BY <1>0, <1>4 DEF WorkOK, IInv, TypeOK
    <2>2. pc[t] \in {"free", "delete"} /\ d = dst[t] => src[u].ref # var[d].ref
        BY <1>0, <1>4 DEF WorkOK, Alone
    <2>3. \A v \in Slices : v = src[u] => SliceOK(v)'
        BY <2>1, <2>2, FitsStill
    <2> QED
        BY <1>0, <2>1, <2>3 DEF SliceOK
<1>5. ASSUME pc[u] \in {"free", "delete"}
      PROVE  Alone(u)'
    <2> DEFINE r == var[dst[u]].ref
    <2>1. /\ r # Nil /\ counter[r] = "live" /\ var'[dst'[u]].ref = r
          /\ \A h \in Vars : var[h].ref = r => h = dst[u]
          /\ \A w \in Threads : kind[w] = "grow" => src[w].ref # r
        BY <1>0, <1>2, <1>5 DEF WorkOK, Alone, IInv, Shape, SliceOK
    <2>2. var'[d].ref # r
        BY <1>2, <1>5, <2>1 DEF Apart
    <2>3. \A h \in Vars : var'[h].ref = r => h = dst'[u]
        BY <1>0, <2>1, <2>2 DEF Apart
    <2>4. \A w \in Threads : kind'[w] = "grow" => src'[w].ref # r
        BY <2>1 DEF Apart
    <2> QED
        BY <2>1, <2>3, <2>4 DEF Alone
<1> QED
    BY <1>0, <1>2, <1>3, <1>4, <1>5 DEF WorkOK

LEMMA WorkKept ==
    ASSUME IInv, NEW t \in Threads, NEW d \in Vars, Apart(t, d), WorkOK(t)'
    PROVE  Work'
    BY OthersKept DEF Work

-----------------------------------------------------------------------------
(* Counting *)

LEMMA HoldersFinite ==
    ASSUME NEW a
    PROVE  IsFiniteSet(Counted(a)) /\ IsFiniteSet(Growing(a))
<1>1. Counted(a) \in SUBSET Vars /\ Growing(a) \in SUBSET Threads
    BY DEF Counted, Growing
<1> QED
    BY <1>1, FiniteAssumption, FS_Subset

\* What a step of t with d leaves alone of those that are counted.
LEMMA CountedKept ==
    ASSUME IInv, NEW t \in Threads, NEW d \in Vars, Apart(t, d), NEW a \in Arrays
    PROVE  /\ Counted(a) \ {d} = Counted(a)' \ {d}
           /\ Growing(a) \ {t} = Growing(a)' \ {t}
<1>1. ASSUME NEW h \in Vars, h # d
      PROVE  Condemned(h)' <=> Condemned(h)
    <2>1. \A u \in Threads \ {t} : pc'[u] = pc[u] /\ dst'[u] = dst[u]
        BY DEF Apart
    <2>2. ~(pc[t] = "delete" /\ dst[t] = h) /\ ~(pc'[t] = "delete" /\ dst'[t] = h)
        BY <1>1 DEF Apart
    <2> QED
        BY <2>1, <2>2 DEF Condemned
<1>2. \A h \in Vars \ {d} : var'[h] = var[h]
    BY DEF Apart
<1> QED
    BY <1>1, <1>2 DEF Counted, Growing, Apart

\* How often d and t are counted for a: zero, one or two.
Own(t, d, a) == (IF d \in Counted(a) THEN 1 ELSE 0) + (IF t \in Growing(a) THEN 1 ELSE 0)

\* The counter of a, as far as there is one.
Value(a) == IF counter[a] = "live" THEN count[a] ELSE 0

LEMMA ValueCounts ==
    ASSUME IInv, NEW a \in Arrays
    PROVE  Value(a) = Cardinality(Counted(a)) + Cardinality(Growing(a))
<1>1. CASE counter[a] = "live"
    BY <1>1 DEF IInv, CountExact, Value
<1>2. CASE counter[a] # "live"
    <2>1. Counted(a) = {} /\ Growing(a) = {}
        BY <1>2, NilAssumption DEF Counted, Growing, IInv, Shape, SliceOK, Work, WorkOK
    <2>2. Cardinality(Counted(a)) = 0 /\ Cardinality(Growing(a)) = 0
        BY <2>1, FS_EmptySet
    <2> QED
        BY <1>2, <2>2 DEF Value
<1> QED
    BY <1>1, <1>2

\* A counter that changes by what t and d change is exact again.
LEMMA CountStep ==
    ASSUME IInv, NEW t \in Threads, NEW d \in Vars, Apart(t, d), NEW a \in Arrays,
           count'[a] = Value(a) - Own(t, d, a) + Own(t, d, a)'
    PROVE  count'[a] = Cardinality(Counted(a)') + Cardinality(Growing(a)')
<1> DEFINE C == Counted(a)
           D == Counted(a)'
           G == Growing(a)
           H == Growing(a)'
<1>1. C \ {d} = D \ {d} /\ G \ {t} = H \ {t}
    BY CountedKept
<1>2. IsFiniteSet(C) /\ IsFiniteSet(G)
    BY HoldersFinite
<1>3. IsFiniteSet(D) /\ IsFiniteSet(H)
    <2>1. D \in SUBSET Vars /\ H \in SUBSET Threads
        BY DEF Counted, Growing
    <2> QED
        BY <2>1, FiniteAssumption, FS_Subset
<1>4. /\ Cardinality(C) \in Nat /\ Cardinality(D) \in Nat
      /\ Cardinality(G) \in Nat /\ Cardinality(H) \in Nat
    BY <1>2, <1>3, FS_CardinalityType
<1>5. /\ Cardinality(C \ {d}) = IF d \in C THEN Cardinality(C) - 1 ELSE Cardinality(C)
      /\ Cardinality(D \ {d}) = IF d \in D THEN Cardinality(D) - 1 ELSE Cardinality(D)
    BY <1>2, <1>3, FS_RemoveElement
<1>6. /\ Cardinality(G \ {t}) = IF t \in G THEN Cardinality(G) - 1 ELSE Cardinality(G)
      /\ Cardinality(H \ {t}) = IF t \in H THEN Cardinality(H) - 1 ELSE Cardinality(H)
    BY <1>2, <1>3, FS_RemoveElement
<1>7. Value(a) = Cardinality(C) + Cardinality(G)
    BY ValueCounts
<1>8. /\ Own(t, d, a) = (IF d \in C THEN 1 ELSE 0) + (IF t \in G THEN 1 ELSE 0)
      /\ Own(t, d, a)' = (IF d \in D THEN 1 ELSE 0) + (IF t \in H THEN 1 ELSE 0)
    BY DEF Own
<1> HIDE DEF C, D, G, H
<1>9. Cardinality(C \ {d}) = Cardinality(D \ {d}) /\ Cardinality(G \ {t}) = Cardinality(H \ {t})
    BY <1>1
<1>10. count'[a] = Cardinality(D) + Cardinality(H)
    BY <1>4, <1>5, <1>6, <1>7, <1>8, <1>9
<1> QED
    BY <1>10 DEF D, H

\* The counter that a variable or a growing thread holds is at least one.
LEMMA HeldCounts ==
    ASSUME IInv, NEW a \in Arrays, NEW h \in Counted(a)
    PROVE  /\ counter[a] = "live" /\ count[a] \in Nat /\ count[a] >= 1
           /\ count[a] = 1 => Counted(a) = {h} /\ Growing(a) = {}
<1>1. h \in Vars /\ var[h].ref = a /\ counter[a] = "live"
    BY NilAssumption DEF Counted, IInv, Shape, SliceOK
<1>2. count[a] = Cardinality(Counted(a)) + Cardinality(Growing(a))
    BY <1>1 DEF IInv, CountExact
<1>3. IsFiniteSet(Counted(a)) /\ IsFiniteSet(Growing(a))
    BY HoldersFinite
<1>4. /\ Cardinality(Counted(a)) \in Nat /\ Cardinality(Growing(a)) \in Nat
      /\ IsFiniteSet(Counted(a) \ {h}) /\ Cardinality(Counted(a) \ {h}) \in Nat
      /\ Cardinality(Counted(a) \ {h}) = Cardinality(Counted(a)) - 1
    BY <1>3, FS_CardinalityType, FS_RemoveElement
<1>5. ASSUME count[a] = 1
      PROVE  Counted(a) = {h} /\ Growing(a) = {}
    <2>1. Cardinality(Counted(a) \ {h}) = 0 /\ Cardinality(Growing(a)) = 0
        BY <1>2, <1>4, <1>5
    <2>2. Counted(a) \ {h} = {} /\ Growing(a) = {}
        BY <1>3, <1>4, <2>1, FS_EmptySet
    <2> QED
        BY <2>2
<1> QED
    BY <1>1, <1>2, <1>4, <1>5

LEMMA OwnOf ==
    ASSUME IInv, NEW t \in Threads, NEW d \in Vars, Apart(t, d), NEW a \in Arrays
    PROVE  /\ Own(t, d, a) = (IF var[d].ref = a /\ pc[t] # "delete" THEN 1 ELSE 0)
                                + (IF kind[t] = "grow" /\ src[t].ref = a THEN 1 ELSE 0)
           /\ Own(t, d, a)' = (IF var'[d].ref = a /\ pc'[t] # "delete" THEN 1 ELSE 0)
                                + (IF kind'[t] = "grow" /\ src'[t].ref = a THEN 1 ELSE 0)
<1>1. \A u \in Threads : u # t => ~(pc[u] = "delete" /\ dst[u] = d)
    BY DEF IInv, Work, WorkOK, Apart
<1>2. \A u \in Threads : u # t => ~(pc'[u] = "delete" /\ dst'[u] = d)
    BY <1>1 DEF Apart
<1>3. Condemned(d) <=> pc[t] = "delete"
    BY <1>1 DEF Condemned, Apart
<1>4. Condemned(d)' <=> pc'[t] = "delete"
    BY <1>2 DEF Condemned, Apart
<1>5. /\ d \in Counted(a) <=> var[d].ref = a /\ pc[t] # "delete"
      /\ t \in Growing(a) <=> kind[t] = "grow" /\ src[t].ref = a
    BY <1>3 DEF Counted, Growing
<1>6. /\ d \in Counted(a)' <=> var'[d].ref = a /\ pc'[t] # "delete"
      /\ t \in Growing(a)' <=> kind'[t] = "grow" /\ src'[t].ref = a
    BY <1>4 DEF Counted, Growing
<1> QED
    BY <1>5, <1>6 DEF Own

\* The invariant after a step is a matter of the thread and of its variable.
LEMMA Step ==
    ASSUME IInv, NEW t \in Threads, NEW d \in Vars, Apart(t, d),
           TypeOK', SliceOK(var[d])', Cells', WorkOK(t)',
           \A a \in Arrays : counter'[a] = "live" =>
               count'[a] = Value(a) - Own(t, d, a) + Own(t, d, a)'
    PROVE  IInv'
<1>1. Shape'
    BY ShapeKept
<1>2. Work'
    BY WorkKept
<1>3. CountExact'
    BY CountStep DEF CountExact
<1> QED
    BY <1>1, <1>2, <1>3 DEF IInv

-----------------------------------------------------------------------------
(* Operations of one step *)

LEMMA StepMake ==
    ASSUME IInv, NEW t \in Threads, NEW h \in Vars, Make(t, h)
    PROVE  IInv'
<1>1. PICK a \in Arrays, c \in 0 .. MaxCap : \E n \in 0 .. c :
          Allocate(a, c) /\ var' = [var EXCEPT ![h] = Whole(a, n, c)]
    BY DEF Make
<1>2. PICK n \in 0 .. c : var' = [var EXCEPT ![h] = Whole(a, n, c)]
    BY <1>1
<1>3. /\ owner[h] = t /\ pc[t] = "idle" /\ kind[t] = "none" /\ var[h].ref = Nil
      /\ UNCHANGED <<owner, pc, kind, dst, src>>
    BY DEF Make, Owns, IInv, Work, WorkOK, Blank
<1>4. /\ array[a] = "none" /\ counter[a] = "none"
      /\ array' = [array EXCEPT ![a] = "live"]
      /\ counter' = [counter EXCEPT ![a] = "live"]
      /\ count' = [count EXCEPT ![a] = 1]
      /\ size' = [size EXCEPT ![a] = c]
    BY <1>1 DEF Allocate, IInv, Cells
<1>5. a # Nil /\ n \in 0 .. MaxCap /\ Whole(a, n, c) \in Slices
    BY NilAssumption, CapAssumption DEF Whole, Slices
<1>6. TypeOK'
    BY <1>2, <1>3, <1>4, <1>5 DEF IInv, TypeOK
<1>7. var'[h] = Whole(a, n, c) /\ var'[h].ref = a
    BY <1>2 DEF IInv, TypeOK, Whole
<1>8. /\ \A b \in Arrays \ {a} : counter'[b] = counter[b] /\ size'[b] = size[b]
                                /\ array'[b] = array[b] /\ count'[b] = count[b]
      /\ counter'[a] = "live" /\ size'[a] = c /\ array'[a] = "live" /\ count'[a] = 1
    BY <1>4 DEF IInv, TypeOK
<1>9. Apart(t, h)
    BY <1>2, <1>3, <1>4, <1>7, <1>8 DEF Apart
<1>10. SliceOK(var[h])'
    BY <1>5, <1>7, <1>8 DEF SliceOK, Whole
<1>11. Cells'
    BY <1>8 DEF Cells, IInv
<1>12. WorkOK(t)'
    BY <1>3 DEF WorkOK, IInv, Work
<1>13. ASSUME NEW b \in Arrays, counter'[b] = "live"
       PROVE  count'[b] = Value(b) - Own(t, h, b) + Own(t, h, b)'
    <2>1. Own(t, h, b) = 0 /\ Own(t, h, b)' = IF b = a THEN 1 ELSE 0
        BY <1>3, <1>7, <1>9, OwnOf, NilAssumption
    <2> QED
        BY <1>4, <1>8, <1>13, <2>1 DEF Value, IInv, TypeOK
<1> QED
    BY <1>6, <1>9, <1>10, <1>11, <1>12, <1>13, Step

\* A thread that owns a variable and does not work on it.
LEMMA IdleOwner ==
    ASSUME IInv, NEW t \in Threads, NEW h \in Vars, Owns(t, h)
    PROVE  /\ owner[h] = t /\ pc[t] = "idle" /\ kind[t] = "none" /\ src[t] = Blank
           /\ var[h] \in Slices /\ SliceOK(var[h])
    BY VarsTyped DEF Owns, IInv, Work, WorkOK

\* A step that leaves the heap and the threads alone; d is owned by t, which is
\* idle, and its counter stays what it is.
LEMMA WindowStep ==
    ASSUME IInv, NEW t \in Threads, NEW d \in Vars, Owns(t, d), NEW v \in Slices,
           var' = [var EXCEPT ![d] = v], SliceOK(v), v.ref = var[d].ref,
           UNCHANGED <<owner, cells, pc, kind, dst, src>>
    PROVE  IInv'
<1>1. owner[d] = t /\ pc[t] = "idle" /\ kind[t] = "none" /\ src[t] = Blank
    BY IdleOwner
<1>2. var'[d] = v /\ \A h \in Vars \ {d} : var'[h] = var[h]
    BY DEF IInv, TypeOK
<1>3. TypeOK'
    BY DEF IInv, TypeOK, cells
<1>4. Apart(t, d)
    BY <1>1, <1>2 DEF Apart, cells
<1>5. SliceOK(var[d])'
    BY <1>2 DEF SliceOK, cells
<1>6. Cells' /\ WorkOK(t)'
    BY <1>1 DEF Cells, WorkOK, IInv, Work, cells
<1>7. ASSUME NEW a \in Arrays, counter'[a] = "live"
      PROVE  count'[a] = Value(a) - Own(t, d, a) + Own(t, d, a)'
    <2>1. Own(t, d, a)' = Own(t, d, a) /\ Own(t, d, a) \in Int
        BY <1>1, <1>2, <1>4, OwnOf
    <2> QED
        BY <1>7, <2>1 DEF Value, cells, IInv, TypeOK
<1> QED
    BY <1>3, <1>4, <1>5, <1>6, <1>7, Step

LEMMA StepPush ==
    ASSUME IInv, NEW t \in Threads, NEW h \in Vars, Push(t, h)
    PROVE  IInv'
<1> DEFINE v == [var[h] EXCEPT !.len = @ + 1]
<1>1. Owns(t, h) /\ var[h] \in Slices /\ SliceOK(var[h]) /\ var[h].len < var[h].cap
    BY IdleOwner DEF Push
<1>2. v \in Slices /\ v.ref = var[h].ref
    BY <1>1, CapAssumption DEF Slices
<1>3. SliceOK(v)
    BY <1>1, CapAssumption DEF SliceOK, Slices
<1>4. var' = [var EXCEPT ![h] = v] /\ UNCHANGED <<owner, cells, pc, kind, dst, src>>
    BY DEF Push
<1> QED
    BY <1>1, <1>2, <1>3, <1>4, WindowStep

LEMMA StepRewindow ==
    ASSUME IInv, NEW t \in Threads, NEW d \in Vars, NEW s \in Vars, Rewindow(t, d, s)
    PROVE  IInv'
<1> DEFINE v == [var[s] EXCEPT !.ref = var[d].ref]
<1>1. /\ Owns(t, d) /\ var[d] \in Slices /\ SliceOK(var[d])
      /\ var[s] \in Slices /\ SliceOK(var[s])
      /\ var[d].alloc # Nil /\ var[d].alloc = var[s].alloc
    BY IdleOwner DEF Rewindow
<1>2. v \in Slices /\ v.ref = var[d].ref
    BY <1>1 DEF Slices
<1>3. var[s].ref = var[d].ref
    BY <1>1 DEF SliceOK
<1>4. SliceOK(v)
    BY <1>1, <1>3 DEF SliceOK, Slices
<1>5. var' = [var EXCEPT ![d] = v] /\ UNCHANGED <<owner, cells, pc, kind, dst, src>>
    BY DEF Rewindow
<1> QED
    BY <1>1, <1>2, <1>4, <1>5, WindowStep

LEMMA StepCut ==
    ASSUME IInv, NEW t \in Threads, NEW d \in Vars, NEW s \in Vars, Cut(t, d, s)
    PROVE  IInv'
<1>1. /\ owner[d] = t /\ owner[s] = t /\ pc[t] = "idle" /\ kind[t] = "none"
      /\ src[t] = Blank /\ var[s] \in Slices /\ SliceOK(var[s]) /\ var[d].ref = Nil
      /\ UNCHANGED <<owner, counter, array, size, pc, kind, dst, src>>
    BY IdleOwner DEF Cut, Blank
<1>2. PICK j \in 0 .. var[s].len : \E i \in 0 .. j :
          var' = [var EXCEPT ![d] = [var[s] EXCEPT !.off = @ + i, !.len = j - i, !.cap = @ - i]]
    BY DEF Cut
<1>3. PICK i \in 0 .. j :
          var' = [var EXCEPT ![d] = [var[s] EXCEPT !.off = @ + i, !.len = j - i, !.cap = @ - i]]
    BY <1>2
<1> DEFINE v == [var[s] EXCEPT !.off = @ + i, !.len = j - i, !.cap = @ - i]
<1>4. /\ v.alloc = var[s].alloc /\ v.ref = var[s].ref /\ v.slice = var[s].slice
      /\ v.off = var[s].off + i /\ v.len = j - i /\ v.cap = var[s].cap - i
    BY <1>1 DEF Slices
<1>5. /\ var[s].alloc \in Arrays \union {Nil} /\ var[s].len \in 0 .. MaxCap
      /\ var[s].cap \in 0 .. MaxCap /\ var[s].off \in 0 .. MaxCap /\ MaxCap \in Nat
      /\ size \in [Arrays -> 0 .. MaxCap] /\ i \in Nat /\ j \in Nat /\ i <= j
    BY <1>1, CapAssumption DEF Slices, IInv, TypeOK
<1>6. i <= var[s].cap /\ j - i <= var[s].cap - i /\ var[s].len <= var[s].cap
    BY <1>1, <1>5 DEF SliceOK
<1>7. v.off \in 0 .. MaxCap /\ v.len \in 0 .. MaxCap /\ v.cap \in 0 .. MaxCap
    <2>1. CASE var[s].alloc = Nil
        <3>1. var[s].len = 0 /\ var[s].cap = 0
            BY <1>1, <2>1 DEF SliceOK
        <3>2. i = 0 /\ j = 0
            BY <1>5, <3>1
        <3> QED
            BY <1>4, <1>5, <3>1, <3>2
    <2>2. CASE var[s].alloc # Nil
        <3>1. var[s].off + var[s].cap <= size[var[s].alloc] /\ size[var[s].alloc] \in 0 .. MaxCap
            BY <1>1, <1>5, <2>2 DEF SliceOK
        <3> QED
            BY <1>4, <1>5, <1>6, <3>1
    <2> QED
        BY <2>1, <2>2
<1>8. v \in Slices
    BY <1>1, <1>7 DEF Slices
<1>9. SliceOK(v)
    <2>1. v.ref # Nil => v.slice = v.ref /\ counter[v.ref] = "live"
        BY <1>1, <1>4 DEF SliceOK
    <2>2. v.len <= v.cap
        BY <1>4, <1>5, <1>6
    <2>3. ASSUME v.alloc = Nil
          PROVE  v.len = 0 /\ v.cap = 0
        <3>1. var[s].len = 0 /\ var[s].cap = 0
            BY <1>1, <1>4, <2>3 DEF SliceOK
        <3>2. i = 0 /\ j = 0
            BY <1>5, <3>1
        <3> QED
            BY <1>4, <3>1, <3>2
    <2>4. ASSUME v.alloc # Nil
          PROVE  v.ref = v.alloc /\ v.off + v.cap <= size[v.alloc]
        <3>1. var[s].ref = var[s].alloc /\ var[s].off + var[s].cap <= size[var[s].alloc]
            BY <1>1, <1>4, <2>4 DEF SliceOK
        <3>2. v.off + v.cap = var[s].off + var[s].cap
            BY <1>4, <1>5
        <3> QED
            BY <1>4, <3>1, <3>2
    <2> QED
        BY <2>1, <2>2, <2>3, <2>4 DEF SliceOK
<1> HIDE DEF v
<1>10. var' = [var EXCEPT ![d] = v]
    BY <1>3 DEF v
<1>11. var'[d] = v /\ \A h \in Vars \ {d} : var'[h] = var[h]
    BY <1>10 DEF IInv, TypeOK
<1>12. count' = IF v.ref = Nil THEN count ELSE [count EXCEPT ![v.ref] = @ + 1]
    BY <1>4 DEF Cut
<1>13. TypeOK'
    BY <1>1, <1>8, <1>10, <1>12 DEF IInv, TypeOK, Slices
<1>14. Apart(t, d)
    BY <1>1, <1>4, <1>11 DEF Apart
<1>15. SliceOK(var[d])'
    BY <1>1, <1>9, <1>11 DEF SliceOK
<1>16. Cells' /\ WorkOK(t)'
    BY <1>1 DEF Cells, WorkOK, IInv, Work
<1>17. ASSUME NEW a \in Arrays, counter'[a] = "live"
       PROVE  count'[a] = Value(a) - Own(t, d, a) + Own(t, d, a)'
    <2>1. Own(t, d, a) = 0 /\ Own(t, d, a)' = IF v.ref = a THEN 1 ELSE 0
        BY <1>1, <1>11, <1>14, OwnOf, NilAssumption
    <2>2. count'[a] = IF v.ref = a THEN count[a] + 1 ELSE count[a]
        BY <1>12, NilAssumption DEF IInv, TypeOK
    <2> QED
        BY <1>1, <1>17, <2>1, <2>2 DEF Value, IInv, TypeOK
<1> QED
    BY <1>13, <1>14, <1>15, <1>16, <1>17, Step

LEMMA StepGive ==
    ASSUME IInv, NEW t \in Threads, NEW h \in Vars, Give(t, h)
    PROVE  IInv'
<1>1. /\ owner[h] = t /\ pc[t] = "idle" /\ kind[t] = "none" /\ src[t] = Blank
      /\ var[h] \in Slices /\ SliceOK(var[h])
      /\ UNCHANGED <<var, cells, pc, kind, dst, src>>
    BY IdleOwner DEF Give
<1>2. PICK u \in Threads : owner' = [owner EXCEPT ![h] = u]
    BY DEF Give
<1>3. TypeOK'
    BY <1>1, <1>2 DEF IInv, TypeOK, cells
<1>4. Apart(t, h)
    BY <1>1, <1>2 DEF Apart, cells, IInv, TypeOK
<1>5. SliceOK(var[h])' /\ Cells' /\ WorkOK(t)'
    BY <1>1 DEF SliceOK, Cells, WorkOK, IInv, Work, cells
<1>6. ASSUME NEW a \in Arrays, counter'[a] = "live"
      PROVE  count'[a] = Value(a) - Own(t, h, a) + Own(t, h, a)'
    <2>1. Own(t, h, a)' = Own(t, h, a) /\ Own(t, h, a) \in Int
        BY <1>1, <1>4, OwnOf
    <2> QED
        BY <1>1, <1>6, <2>1 DEF Value, cells, IInv, TypeOK
<1> QED
    BY <1>3, <1>4, <1>5, <1>6, Step

-----------------------------------------------------------------------------
(* Operations that give up what a variable holds *)

\* Where Begin leaves the thread.
LEMMA Begun ==
    ASSUME IInv, NEW t \in Threads, NEW k, NEW d \in Vars, NEW v \in Slices, Begin(t, k, d, v),
           k \in {"assign", "nil", "destroy", "grow"}, Owns(t, d)
    PROVE  /\ pc'[t] = "dealloc" /\ kind'[t] = k /\ dst'[t] = d /\ src'[t] = v
           /\ pc' \in [Threads -> {"idle", "dealloc", "free", "drop", "delete", "copy"}]
           /\ kind' \in [Threads -> {"none", "assign", "nil", "destroy", "grow"}]
           /\ dst' \in [Threads -> Vars \cup {Nil}] /\ src' \in [Threads -> Slices]
           /\ \A u \in Threads \ {t} : /\ pc'[u] = pc[u] /\ kind'[u] = kind[u]
                                       /\ dst'[u] = dst[u] /\ src'[u] = src[u]
           /\ UNCHANGED <<var, owner>>
    BY DEF Begin, IInv, TypeOK

LEMMA BlankFits == Blank \in Slices
    BY CapAssumption DEF Blank, Slices

\* An operation other than push begins, and changes nothing yet.
LEMMA StepBegin ==
    ASSUME IInv, NEW t \in Threads, NEW k \in {"assign", "nil", "destroy"}, NEW d \in Vars,
           NEW v \in Slices, Begin(t, k, d, v), UNCHANGED cells, Owns(t, d),
           k # "assign" => v = Blank,
           k = "assign" => \E s \in Vars : s # d /\ owner[s] = t /\ v = var[s]
    PROVE  IInv'
<1>1. /\ owner[d] = t /\ pc[t] = "idle" /\ kind[t] = "none"
      /\ var[d] \in Slices /\ SliceOK(var[d])
    BY IdleOwner
<1>2. /\ pc'[t] = "dealloc" /\ kind'[t] = k /\ dst'[t] = d /\ src'[t] = v
      /\ pc' \in [Threads -> {"idle", "dealloc", "free", "drop", "delete", "copy"}]
      /\ kind' \in [Threads -> {"none", "assign", "nil", "destroy", "grow"}]
      /\ dst' \in [Threads -> Vars \cup {Nil}] /\ src' \in [Threads -> Slices]
      /\ \A u \in Threads \ {t} : /\ pc'[u] = pc[u] /\ kind'[u] = kind[u]
                                  /\ dst'[u] = dst[u] /\ src'[u] = src[u]
      /\ UNCHANGED <<var, owner>>
    BY Begun
<1>3. TypeOK'
    BY <1>2 DEF IInv, TypeOK, cells
<1>4. Apart(t, d)
    BY <1>1, <1>2 DEF Apart, cells
<1>5. SliceOK(var[d])' /\ Cells'
    BY <1>1, <1>2 DEF SliceOK, Cells, IInv, cells
<1>6. WorkOK(t)'
    BY <1>1, <1>2 DEF WorkOK
<1>7. ASSUME NEW a \in Arrays, counter'[a] = "live"
      PROVE  count'[a] = Value(a) - Own(t, d, a) + Own(t, d, a)'
    <2>1. Own(t, d, a)' = Own(t, d, a) /\ Own(t, d, a) \in Int
        BY <1>1, <1>2, <1>4, OwnOf
    <2> QED
        BY <1>7, <2>1 DEF Value, cells, IInv, TypeOK
<1> QED
    BY <1>3, <1>4, <1>5, <1>6, <1>7, Step

LEMMA StepAssign ==
    ASSUME IInv, NEW t \in Threads, NEW d \in Vars, NEW s \in Vars, Assign(t, d, s)
    PROVE  IInv'
<1>1. /\ Owns(t, d) /\ d # s /\ owner[s] = t /\ var[s] \in Slices
      /\ Begin(t, "assign", d, var[s]) /\ UNCHANGED cells
    BY VarsTyped DEF Assign, Owns
<1> QED
    BY <1>1, StepBegin

LEMMA StepAssignNil ==
    ASSUME IInv, NEW t \in Threads, NEW d \in Vars, AssignNil(t, d)
    PROVE  IInv'
    BY BlankFits, StepBegin DEF AssignNil

LEMMA StepDestruct ==
    ASSUME IInv, NEW t \in Threads, NEW d \in Vars, Destruct(t, d)
    PROVE  IInv'
    BY BlankFits, StepBegin DEF Destruct

LEMMA StepGrow ==
    ASSUME IInv, NEW t \in Threads, NEW h \in Vars, Grow(t, h)
    PROVE  IInv'
<1>1. PICK c \in 0 .. MaxCap, a \in Arrays :
          /\ c = (var[h].len + 1) * 2
          /\ Allocate(a, c) /\ Begin(t, "grow", h, Whole(a, var[h].len + 1, c))
    BY DEF Grow
<1> DEFINE v == Whole(a, var[h].len + 1, c)
<1>2. /\ Owns(t, h) /\ owner[h] = t /\ pc[t] = "idle" /\ kind[t] = "none"
      /\ var[h] \in Slices /\ SliceOK(var[h])
    BY IdleOwner DEF Grow
<1>3. /\ var[h].len \in Nat /\ c \in Nat /\ MaxCap \in Nat
      /\ var[h].len + 1 <= c /\ c <= MaxCap /\ a # Nil
    BY <1>1, <1>2, CapAssumption, NilAssumption DEF Slices
<1>4. /\ v.alloc = a /\ v.ref = a /\ v.slice = a /\ v.off = 0
      /\ v.len = var[h].len + 1 /\ v.cap = c /\ v \in Slices
    BY <1>3 DEF Whole, Slices
<1> HIDE DEF v
<1>5. Begin(t, "grow", h, v)
    BY <1>1 DEF v
<1>6. /\ pc'[t] = "dealloc" /\ kind'[t] = "grow" /\ dst'[t] = h /\ src'[t] = v
      /\ pc' \in [Threads -> {"idle", "dealloc", "free", "drop", "delete", "copy"}]
      /\ kind' \in [Threads -> {"none", "assign", "nil", "destroy", "grow"}]
      /\ dst' \in [Threads -> Vars \cup {Nil}] /\ src' \in [Threads -> Slices]
      /\ \A u \in Threads \ {t} : /\ pc'[u] = pc[u] /\ kind'[u] = kind[u]
                                  /\ dst'[u] = dst[u] /\ src'[u] = src[u]
      /\ UNCHANGED <<var, owner>>
    BY <1>2, <1>4, <1>5, Begun
<1>7. /\ array[a] = "none" /\ counter[a] = "none"
      /\ array' = [array EXCEPT ![a] = "live"]
      /\ counter' = [counter EXCEPT ![a] = "live"]
      /\ count' = [count EXCEPT ![a] = 1]
      /\ size' = [size EXCEPT ![a] = c]
    BY <1>1 DEF Allocate, IInv, Cells
<1>8. /\ \A b \in Arrays \ {a} : counter'[b] = counter[b] /\ size'[b] = size[b]
                                /\ array'[b] = array[b] /\ count'[b] = count[b]
      /\ counter'[a] = "live" /\ size'[a] = c /\ array'[a] = "live" /\ count'[a] = 1
    BY <1>7 DEF IInv, TypeOK
<1>9. TypeOK'
    BY <1>6, <1>7 DEF IInv, TypeOK
<1>10. Apart(t, h)
    BY <1>2, <1>4, <1>6, <1>7, <1>8 DEF Apart
<1>11. SliceOK(src[t])' /\ src'[t].ref # Nil
    BY <1>3, <1>4, <1>6, <1>8 DEF SliceOK
<1>12. SliceOK(var[h])'
    <2>1. \A w \in Slices : w = var[h] => SliceOK(w)'
        BY <1>2, <1>10, FitsStill
    <2> QED
        BY <1>2, <1>6, <2>1 DEF SliceOK
<1>13. Cells'
    BY <1>8 DEF Cells, IInv
<1>14. WorkOK(t)'
    BY <1>2, <1>6, <1>11 DEF WorkOK
<1>15. ASSUME NEW b \in Arrays, counter'[b] = "live"
       PROVE  count'[b] = Value(b) - Own(t, h, b) + Own(t, h, b)'
    <2>1. /\ Own(t, h, b) = IF var[h].ref = b THEN 1 ELSE 0
          /\ Own(t, h, b)' = (IF var[h].ref = b THEN 1 ELSE 0) + (IF b = a THEN 1 ELSE 0)
        BY <1>2, <1>4, <1>6, <1>10, OwnOf
    <2>2. b = a => var[h].ref # b
        BY <1>2, <1>3, <1>7 DEF SliceOK
    <2> QED
        BY <1>7, <1>8, <1>15, <2>1, <2>2 DEF Value, IInv, TypeOK
<1> QED
    BY <1>9, <1>10, <1>12, <1>13, <1>14, <1>15, Step

\* A thread inside an operation.
LEMMA Busy ==
    ASSUME IInv, NEW t \in Threads, pc[t] # "idle"
    PROVE  /\ dst[t] \in Vars /\ owner[dst[t]] = t /\ kind[t] # "none"
           /\ var[dst[t]] \in Slices /\ SliceOK(var[dst[t]]) /\ src[t] \in Slices /\ WorkOK(t)
           /\ pc[t] # "delete" /\ var[dst[t]].ref # Nil => dst[t] \in Counted(var[dst[t]].ref)
<1>1. WorkOK(t) /\ dst[t] \in Vars /\ owner[dst[t]] = t /\ kind[t] # "none"
    BY DEF IInv, Work, WorkOK
<1>2. var[dst[t]] \in Slices /\ SliceOK(var[dst[t]]) /\ src[t] \in Slices
    BY <1>1, VarsTyped DEF IInv, TypeOK
<1>3. pc[t] # "delete" => ~Condemned(dst[t])
    BY <1>1 DEF Condemned, IInv, Work, WorkOK
<1> QED
    BY <1>1, <1>2, <1>3 DEF Counted

\* A thread that reads one has the last slice.
LEMMA LastAlone ==
    ASSUME IInv, NEW t \in Threads, pc[t] \in {"dealloc", "drop"},
           var[dst[t]].ref # Nil, count[var[dst[t]].ref] = 1
    PROVE  Alone(t)
<1> DEFINE d == dst[t]
           r == var[dst[t]].ref
<1>1. d \in Vars /\ owner[d] = t /\ d \in Counted(r) /\ r \in Arrays
    BY Busy DEF Slices
<1>2. Counted(r) = {d} /\ Growing(r) = {}
    BY <1>1, HeldCounts
<1>3. ASSUME NEW h \in Vars, var[h].ref = r, h # d
      PROVE  FALSE
    <2>1. Condemned(h)
        BY <1>2, <1>3 DEF Counted
    <2>2. PICK u \in Threads : pc[u] = "delete" /\ dst[u] = h
        BY <2>1 DEF Condemned
    <2>3. Alone(u)
        BY <2>2 DEF IInv, Work, WorkOK
    <2> QED
        BY <1>1, <1>3, <2>2, <2>3 DEF Alone
<1> QED
    BY <1>2, <1>3 DEF Alone, Growing

LEMMA Leaving ==
    ASSUME IInv, NEW t \in Threads, pc[t] # "idle", Leave(t)
    PROVE  /\ pc' \in [Threads -> {"idle", "dealloc", "free", "drop", "delete", "copy"}]
           /\ kind' \in [Threads -> {"none", "assign", "nil", "destroy", "grow"}]
           /\ dst' \in [Threads -> Vars \cup {Nil}] /\ src' \in [Threads -> Slices]
           /\ \A u \in Threads \ {t} : /\ pc'[u] = pc[u] /\ kind'[u] = kind[u]
                                       /\ dst'[u] = dst[u] /\ src'[u] = src[u]
           /\ \/ /\ pc'[t] = "idle" /\ kind'[t] = "none" /\ src'[t] = Blank
                 /\ kind[t] \in {"assign", "nil"}
              \/ pc'[t] = "drop" /\ kind'[t] = kind[t] /\ dst'[t] = dst[t] /\ src'[t] = src[t]
    BY BlankFits DEF Leave, Return, IInv, TypeOK

\* What is left of a slice when fields of it are cleared.
LEMMA Cleared ==
    ASSUME NEW v \in Slices
    PROVE  /\ [v EXCEPT !.len = 0, !.cap = 0] \in Slices
           /\ [v EXCEPT !.len = 0, !.cap = 0, !.alloc = Nil] \in Slices
           /\ [v EXCEPT !.alloc = Nil, !.ref = Nil, !.slice = Nil] \in Slices
           /\ [v EXCEPT !.ref = Nil, !.alloc = Nil] \in Slices
<1>1. 0 \in 0 .. MaxCap /\ Nil \in Arrays \cup {Nil}
    BY CapAssumption
<1>2. \A w \in Slices : [w EXCEPT !.len = 0] \in Slices /\ [w EXCEPT !.cap = 0] \in Slices
    BY <1>1 DEF Slices
<1>3. \A w \in Slices : /\ [w EXCEPT !.alloc = Nil] \in Slices /\ [w EXCEPT !.ref = Nil] \in Slices
                         /\ [w EXCEPT !.slice = Nil] \in Slices
    BY <1>1 DEF Slices
<1>4. /\ [v EXCEPT !.len = 0, !.cap = 0] = [[v EXCEPT !.len = 0] EXCEPT !.cap = 0]
      /\ [v EXCEPT !.len = 0, !.cap = 0, !.alloc = Nil] =
             [[[v EXCEPT !.len = 0] EXCEPT !.cap = 0] EXCEPT !.alloc = Nil]
      /\ [v EXCEPT !.alloc = Nil, !.ref = Nil, !.slice = Nil] =
             [[[v EXCEPT !.alloc = Nil] EXCEPT !.ref = Nil] EXCEPT !.slice = Nil]
      /\ [v EXCEPT !.ref = Nil, !.alloc = Nil] = [[v EXCEPT !.ref = Nil] EXCEPT !.alloc = Nil]
    OBVIOUS
<1> QED
    BY <1>2, <1>3, <1>4

LEMMA StepDealloc ==
    ASSUME IInv, NEW t \in Threads, Dealloc(t)
    PROVE  IInv'
<1>1. pc[t] = "dealloc" /\ UNCHANGED <<owner, cells>>
    BY DEF Dealloc
<1>0. PICK d \in Vars : d = dst[t]
    BY <1>1, Busy
<1>2. /\ d = dst[t] /\ owner[d] = t /\ kind[t] # "none" /\ WorkOK(t)
      /\ var[d] \in Slices /\ SliceOK(var[d]) /\ src[t] \in Slices
    BY <1>0, <1>1, Busy
<1>3. CASE var[d].ref # Nil /\ count[var[d].ref] = 1
    <2>1. /\ var' = [var EXCEPT ![d].len = 0, ![d].cap = 0]
          /\ pc' = [pc EXCEPT ![t] = "free"] /\ UNCHANGED <<kind, dst, src>>
        BY <1>2, <1>3 DEF Dealloc
    <2>2. var'[d] = [var[d] EXCEPT !.len = 0, !.cap = 0] /\ \A h \in Vars \ {d} : var'[h] = var[h]
        BY <1>2, <2>1 DEF IInv, TypeOK
    <2>3. /\ var'[d].alloc = var[d].alloc /\ var'[d].ref = var[d].ref
          /\ var'[d].slice = var[d].slice /\ var'[d].off = var[d].off
          /\ var'[d].len = 0 /\ var'[d].cap = 0
        BY <1>2, <2>2 DEF Slices
    <2>4. var' \in [Vars -> Slices]
        <3>1. [var[d] EXCEPT !.len = 0, !.cap = 0] \in Slices
            BY <1>2, Cleared
        <3> QED
            BY <2>1, <2>2, <3>1 DEF IInv, TypeOK
    <2>5. /\ pc'[t] = "free" /\ kind'[t] = kind[t] /\ src'[t] = src[t]
          /\ \A u \in Threads \ {t} : pc'[u] = pc[u]
        BY <2>1 DEF IInv, TypeOK
    <2>6. TypeOK'
        BY <1>1, <2>1, <2>4 DEF IInv, TypeOK, cells
    <2>7. Apart(t, d)
        BY <1>1, <1>2, <2>1, <2>2, <2>3, <2>5 DEF Apart, cells
    <2>8. SliceOK(var[d])'
        <3>1. var[d].alloc # Nil => var[d].off + 0 <= size[var[d].alloc]
            BY <1>2, CapAssumption DEF SliceOK, Slices, IInv, TypeOK
        <3> QED
            BY <1>1, <1>2, <2>3, <3>1 DEF SliceOK, cells
    <2>9. Cells'
        BY <1>1 DEF Cells, IInv, cells
    <2>10. Alone(t)'
        <3>1. Alone(t)
            BY <1>1, <1>2, <1>3, LastAlone
        <3> QED
            BY <1>2, <2>1, <2>2, <2>3, <3>1 DEF Alone
    <2>11. WorkOK(t)'
        <3>1. kind'[t] = "assign" => \E s \in Vars : s # d /\ owner'[s] = t /\ src'[t] = var'[s]
            BY <1>1, <1>2, <2>1, <2>2 DEF WorkOK
        <3>2. kind'[t] = "grow" => SliceOK(src[t])' /\ src'[t].ref # Nil
            BY <1>1, <1>2, <2>1 DEF WorkOK, SliceOK, cells
        <3> QED
            BY <1>1, <1>2, <1>3, <2>1, <2>3, <2>5, <2>10, <3>1, <3>2 DEF WorkOK
    <2>12. ASSUME NEW a \in Arrays, counter'[a] = "live"
           PROVE  count'[a] = Value(a) - Own(t, d, a) + Own(t, d, a)'
        <3>1. Own(t, d, a)' = Own(t, d, a) /\ Own(t, d, a) \in Int
            BY <1>1, <1>2, <2>3, <2>5, <2>7, OwnOf
        <3> QED
            BY <1>1, <2>12, <3>1 DEF Value, cells, IInv, TypeOK
    <2> QED
        BY <1>2, <2>6, <2>7, <2>8, <2>9, <2>11, <2>12, Step
<1>4. CASE ~(var[d].ref # Nil /\ count[var[d].ref] = 1)
    <2>1. var' = [var EXCEPT ![d].len = 0, ![d].cap = 0, ![d].alloc = Nil] /\ Leave(t)
        BY <1>2, <1>4 DEF Dealloc
    <2>2. /\ var'[d] = [var[d] EXCEPT !.len = 0, !.cap = 0, !.alloc = Nil]
          /\ \A h \in Vars \ {d} : var'[h] = var[h]
        BY <1>2, <2>1 DEF IInv, TypeOK
    <2>3. /\ var'[d].alloc = Nil /\ var'[d].ref = var[d].ref /\ var'[d].slice = var[d].slice
          /\ var'[d].len = 0 /\ var'[d].cap = 0
        BY <1>2, <2>2 DEF Slices
    <2>4. var' \in [Vars -> Slices]
        <3>1. [var[d] EXCEPT !.len = 0, !.cap = 0, !.alloc = Nil] \in Slices
            BY <1>2, Cleared
        <3> QED
            BY <2>1, <2>2, <3>1 DEF IInv, TypeOK
    <2>5. /\ pc' \in [Threads -> {"idle", "dealloc", "free", "drop", "delete", "copy"}]
          /\ kind' \in [Threads -> {"none", "assign", "nil", "destroy", "grow"}]
          /\ dst' \in [Threads -> Vars \cup {Nil}] /\ src' \in [Threads -> Slices]
          /\ \A u \in Threads \ {t} : /\ pc'[u] = pc[u] /\ kind'[u] = kind[u]
                                      /\ dst'[u] = dst[u] /\ src'[u] = src[u]
          /\ \/ /\ pc'[t] = "idle" /\ kind'[t] = "none" /\ src'[t] = Blank
                /\ kind[t] \in {"assign", "nil"}
             \/ pc'[t] = "drop" /\ kind'[t] = kind[t] /\ dst'[t] = dst[t] /\ src'[t] = src[t]
        BY <1>1, <2>1, Leaving
    <2>6. TypeOK'
        BY <1>1, <2>4, <2>5 DEF IInv, TypeOK, cells
    <2>7. Apart(t, d)
        BY <1>1, <1>2, <2>2, <2>3, <2>5 DEF Apart, cells
    <2>8. SliceOK(var[d])'
        BY <1>1, <1>2, <2>3 DEF SliceOK, cells
    <2>9. Cells'
        BY <1>1 DEF Cells, IInv, cells
    <2>10. WorkOK(t)'
        <3>1. kind'[t] = "assign" => \E s \in Vars : s # d /\ owner'[s] = t /\ src'[t] = var'[s]
            BY <1>1, <1>2, <2>2, <2>5 DEF WorkOK
        <3>2. kind'[t] = "grow" => SliceOK(src[t])' /\ src'[t].ref # Nil
            BY <1>1, <1>2, <2>5 DEF WorkOK, SliceOK, cells
        <3> QED
            BY <1>1, <1>2, <2>3, <2>5, <3>1, <3>2 DEF WorkOK
    <2>11. ASSUME NEW a \in Arrays, counter'[a] = "live"
           PROVE  count'[a] = Value(a) - Own(t, d, a) + Own(t, d, a)'
        <3>1. Own(t, d, a)' = Own(t, d, a) /\ Own(t, d, a) \in Int
            BY <1>1, <1>2, <2>3, <2>5, <2>7, OwnOf
        <3> QED
            BY <1>1, <2>11, <3>1 DEF Value, cells, IInv, TypeOK
    <2> QED
        BY <1>2, <2>6, <2>7, <2>8, <2>9, <2>10, <2>11, Step
<1> QED
    BY <1>3, <1>4

LEMMA StepFree ==
    ASSUME IInv, NEW t \in Threads, Free(t)
    PROVE  IInv'
<1>1. pc[t] = "free" /\ UNCHANGED <<owner, count, size>> /\ Leave(t)
    BY DEF Free
<1>0. PICK d \in Vars : d = dst[t]
    BY <1>1, Busy
<1>2. /\ d = dst[t] /\ owner[d] = t /\ kind[t] # "none" /\ WorkOK(t) /\ Alone(t)
      /\ var[d] \in Slices /\ SliceOK(var[d]) /\ src[t] \in Slices
      /\ var[d].len = 0 /\ var[d].cap = 0 /\ var[d].ref # Nil
    BY <1>0, <1>1, Busy DEF WorkOK
<1>3. PICK r \in Arrays : r = var[d].ref
    BY <1>2 DEF Slices
<1>4. /\ counter' = [counter EXCEPT ![r] = "freed"]
      /\ array' = IF var[d].alloc = Nil THEN array ELSE [array EXCEPT ![r] = "freed"]
      /\ var' = [var EXCEPT ![d].alloc = Nil, ![d].ref = Nil, ![d].slice = Nil]
    BY <1>2, <1>3 DEF Free, SliceOK
<1>5. /\ counter'[r] = "freed" /\ counter[r] = "live" /\ array[r] = "live"
      /\ array'[r] \in {"live", "freed"}
      /\ \A a \in Arrays \ {r} : counter'[a] = counter[a] /\ array'[a] = array[a]
    BY <1>2, <1>3, <1>4 DEF IInv, TypeOK, Cells, SliceOK
<1>6. /\ var'[d] = [var[d] EXCEPT !.alloc = Nil, !.ref = Nil, !.slice = Nil]
      /\ \A h \in Vars \ {d} : var'[h] = var[h]
    BY <1>4 DEF IInv, TypeOK
<1>7. /\ var'[d].alloc = Nil /\ var'[d].ref = Nil /\ var'[d].len = 0 /\ var'[d].cap = 0
    BY <1>2, <1>6 DEF Slices
<1>8. var' \in [Vars -> Slices]
    <2>1. [var[d] EXCEPT !.alloc = Nil, !.ref = Nil, !.slice = Nil] \in Slices
        BY <1>2, Cleared
    <2> QED
        BY <1>4, <1>6, <2>1 DEF IInv, TypeOK
<1>9. /\ pc' \in [Threads -> {"idle", "dealloc", "free", "drop", "delete", "copy"}]
      /\ kind' \in [Threads -> {"none", "assign", "nil", "destroy", "grow"}]
      /\ dst' \in [Threads -> Vars \cup {Nil}] /\ src' \in [Threads -> Slices]
      /\ \A u \in Threads \ {t} : /\ pc'[u] = pc[u] /\ kind'[u] = kind[u]
                                  /\ dst'[u] = dst[u] /\ src'[u] = src[u]
      /\ \/ /\ pc'[t] = "idle" /\ kind'[t] = "none" /\ src'[t] = Blank
            /\ kind[t] \in {"assign", "nil"}
         \/ pc'[t] = "drop" /\ kind'[t] = kind[t] /\ dst'[t] = dst[t] /\ src'[t] = src[t]
    BY <1>1, Leaving
<1>10. TypeOK'
    BY <1>1, <1>4, <1>8, <1>9 DEF IInv, TypeOK
<1>11. Apart(t, d)
    BY <1>1, <1>2, <1>3, <1>5, <1>6, <1>7, <1>9 DEF Apart
<1>12. SliceOK(var[d])'
    BY <1>7 DEF SliceOK
<1>13. Cells'
    BY <1>5 DEF Cells, IInv
<1>14. WorkOK(t)'
    <2>1. kind'[t] = "assign" => \E s \in Vars : s # d /\ owner'[s] = t /\ src'[t] = var'[s]
        BY <1>1, <1>2, <1>6, <1>9 DEF WorkOK
    <2>2. ASSUME kind'[t] = "grow"
          PROVE  SliceOK(src[t])' /\ src'[t].ref # Nil
        <3>1. kind[t] = "grow" /\ src'[t] = src[t] /\ SliceOK(src[t]) /\ src[t].ref # Nil
            BY <1>2, <1>9, <2>2 DEF WorkOK
        <3>2. src[t].ref # var[d].ref
            BY <1>2, <3>1 DEF Alone
        <3>3. \A v \in Slices : v = src[t] => SliceOK(v)'
            BY <1>2, <1>11, <3>1, <3>2, FitsStill
        <3> QED
            BY <1>2, <3>1, <3>3 DEF SliceOK
    <2> QED
        BY <1>1, <1>2, <1>7, <1>9, <2>1, <2>2 DEF WorkOK
<1>15. ASSUME NEW a \in Arrays, counter'[a] = "live"
       PROVE  count'[a] = Value(a) - Own(t, d, a) + Own(t, d, a)'
    <2>1. a # r /\ counter[a] = "live"
        BY <1>5, <1>15
    <2>2. Own(t, d, a)' = Own(t, d, a) /\ Own(t, d, a) \in Int
        BY <1>1, <1>2, <1>3, <1>7, <1>9, <1>11, <2>1, OwnOf, NilAssumption
    <2> QED
        BY <1>1, <2>1, <2>2 DEF Value, IInv, TypeOK
<1> QED
    BY <1>10, <1>11, <1>12, <1>13, <1>14, <1>15, Step

LEMMA StepDrop ==
    ASSUME IInv, NEW t \in Threads, Drop(t)
    PROVE  IInv'
<1>1. pc[t] = "drop" /\ UNCHANGED <<owner, counter, array, size, kind, dst, src>>
    BY DEF Drop
<1>0. PICK d \in Vars : d = dst[t]
    BY <1>1, Busy
<1>2. /\ d = dst[t] /\ owner[d] = t /\ kind[t] # "none" /\ WorkOK(t)
      /\ var[d] \in Slices /\ SliceOK(var[d]) /\ src[t] \in Slices /\ var[d].alloc = Nil
      /\ var[d].ref # Nil => d \in Counted(var[d].ref)
    BY <1>0, <1>1, Busy DEF WorkOK
<1>3. PICK r \in Arrays \cup {Nil} : r = var[d].ref
    BY <1>2 DEF Slices
<1>4. r # Nil => r \in Arrays /\ counter[r] = "live" /\ count[r] \in Nat /\ count[r] >= 1
    BY <1>2, <1>3, HeldCounts
<1>5. count' = IF r = Nil THEN count ELSE [count EXCEPT ![r] = @ - 1]
    BY <1>2, <1>3 DEF Drop
<1>6. /\ count' \in [Arrays -> Nat]
      /\ \A a \in Arrays : count'[a] = IF a = r THEN count[a] - 1 ELSE count[a]
    BY <1>4, <1>5, NilAssumption DEF IInv, TypeOK
<1>7. kind'[t] = "assign" => \E s \in Vars : s # d /\ owner'[s] = t /\ src'[t] = var[s]
    BY <1>1, <1>2 DEF WorkOK
<1>8. kind'[t] = "grow" => SliceOK(src[t])' /\ src'[t].ref # Nil
    BY <1>1, <1>2 DEF WorkOK, SliceOK
<1>9. CASE r # Nil /\ count[r] = 1
    <2>1. pc' = [pc EXCEPT ![t] = "delete"] /\ UNCHANGED var
        BY <1>2, <1>3, <1>9 DEF Drop
    <2>2. pc'[t] = "delete" /\ \A u \in Threads \ {t} : pc'[u] = pc[u]
        BY <2>1 DEF IInv, TypeOK
    <2>3. TypeOK'
        BY <1>1, <1>6, <2>1 DEF IInv, TypeOK
    <2>4. Apart(t, d)
        BY <1>1, <1>2, <2>1, <2>2 DEF Apart
    <2>5. SliceOK(var[d])' /\ Cells'
        BY <1>1, <1>2, <2>1 DEF SliceOK, Cells, IInv
    <2>6. Alone(t)'
        <3>1. Alone(t)
            BY <1>1, <1>2, <1>3, <1>9, LastAlone
        <3> QED
            BY <1>1, <2>1, <3>1 DEF Alone
    <2>7. WorkOK(t)'
        BY <1>1, <1>2, <1>3, <1>7, <1>8, <1>9, <2>1, <2>2, <2>6 DEF WorkOK
    <2>8. ASSUME NEW a \in Arrays, counter'[a] = "live"
          PROVE  count'[a] = Value(a) - Own(t, d, a) + Own(t, d, a)'
        <3>1. Own(t, d, a)' = Own(t, d, a) - (IF a = r THEN 1 ELSE 0) /\ Own(t, d, a) \in Int
            BY <1>1, <1>3, <2>1, <2>2, <2>4, OwnOf
        <3> QED
            BY <1>1, <1>6, <2>8, <3>1 DEF Value, IInv, TypeOK
    <2> QED
        BY <2>3, <2>4, <2>5, <2>7, <2>8, Step
<1>10. CASE ~(r # Nil /\ count[r] = 1)
    <2>1. /\ pc' = [pc EXCEPT ![t] = "copy"]
          /\ var' = [var EXCEPT ![d].ref = Nil, ![d].alloc = Nil]
        BY <1>2, <1>3, <1>10 DEF Drop
    <2>2. pc'[t] = "copy" /\ \A u \in Threads \ {t} : pc'[u] = pc[u]
        BY <2>1 DEF IInv, TypeOK
    <2>3. /\ var'[d] = [var[d] EXCEPT !.ref = Nil, !.alloc = Nil]
          /\ \A h \in Vars \ {d} : var'[h] = var[h]
        BY <2>1 DEF IInv, TypeOK
    <2>4. /\ var'[d].alloc = Nil /\ var'[d].ref = Nil
          /\ var'[d].len = var[d].len /\ var'[d].cap = var[d].cap
        BY <1>2, <2>3 DEF Slices
    <2>5. var' \in [Vars -> Slices]
        <3>1. [var[d] EXCEPT !.ref = Nil, !.alloc = Nil] \in Slices
            BY <1>2, Cleared
        <3> QED
            BY <2>1, <2>3, <3>1 DEF IInv, TypeOK
    <2>6. TypeOK'
        BY <1>1, <1>6, <2>1, <2>5 DEF IInv, TypeOK
    <2>7. Apart(t, d)
        BY <1>1, <1>2, <2>2, <2>3, <2>4 DEF Apart
    <2>8. SliceOK(var[d])' /\ Cells'
        BY <1>1, <1>2, <2>4 DEF SliceOK, Cells, IInv
    <2>9. WorkOK(t)'
        <3>1. kind'[t] = "assign" => \E s \in Vars : s # d /\ owner'[s] = t /\ src'[t] = var'[s]
            BY <1>7, <2>3
        <3> QED
            BY <1>1, <1>2, <1>8, <2>2, <2>4, <3>1 DEF WorkOK
    <2>10. ASSUME NEW a \in Arrays, counter'[a] = "live"
           PROVE  count'[a] = Value(a) - Own(t, d, a) + Own(t, d, a)'
        <3>1. Own(t, d, a)' = Own(t, d, a) - (IF a = r THEN 1 ELSE 0) /\ Own(t, d, a) \in Int
            BY <1>1, <1>3, <2>2, <2>4, <2>7, OwnOf, NilAssumption
        <3> QED
            BY <1>1, <1>6, <2>10, <3>1 DEF Value, IInv, TypeOK
    <2> QED
        BY <2>6, <2>7, <2>8, <2>9, <2>10, Step
<1> QED
    BY <1>9, <1>10

LEMMA StepDelete ==
    ASSUME IInv, NEW t \in Threads, Delete(t)
    PROVE  IInv'
<1>1. pc[t] = "delete" /\ UNCHANGED <<owner, count, size, kind, dst, src>>
    BY DEF Delete
<1>0. PICK d \in Vars : d = dst[t]
    BY <1>1, Busy
<1>2. /\ d = dst[t] /\ owner[d] = t /\ kind[t] # "none" /\ WorkOK(t) /\ Alone(t)
      /\ var[d] \in Slices /\ SliceOK(var[d]) /\ src[t] \in Slices
      /\ var[d].alloc = Nil /\ var[d].ref # Nil
    BY <1>0, <1>1, Busy DEF WorkOK
<1>3. PICK r \in Arrays : r = var[d].ref
    BY <1>2 DEF Slices
<1>4. /\ counter' = [counter EXCEPT ![r] = "freed"] /\ array' = array
      /\ var' = [var EXCEPT ![d].ref = Nil, ![d].alloc = Nil]
      /\ pc' = [pc EXCEPT ![t] = "copy"]
    BY <1>2, <1>3 DEF Delete
<1>5. /\ counter'[r] = "freed" /\ counter[r] = "live" /\ array[r] = "live"
      /\ \A a \in Arrays \ {r} : counter'[a] = counter[a]
    BY <1>2, <1>3, <1>4 DEF IInv, TypeOK, Cells, SliceOK
<1>6. /\ var'[d] = [var[d] EXCEPT !.ref = Nil, !.alloc = Nil]
      /\ \A h \in Vars \ {d} : var'[h] = var[h]
      /\ pc'[t] = "copy" /\ \A u \in Threads \ {t} : pc'[u] = pc[u]
    BY <1>4 DEF IInv, TypeOK
<1>7. /\ var'[d].alloc = Nil /\ var'[d].ref = Nil
      /\ var'[d].len = var[d].len /\ var'[d].cap = var[d].cap
    BY <1>2, <1>6 DEF Slices
<1>8. var' \in [Vars -> Slices]
    <2>1. [var[d] EXCEPT !.ref = Nil, !.alloc = Nil] \in Slices
        BY <1>2, Cleared
    <2> QED
        BY <1>4, <1>6, <2>1 DEF IInv, TypeOK
<1>9. TypeOK'
    BY <1>1, <1>4, <1>8 DEF IInv, TypeOK
<1>10. Apart(t, d)
    BY <1>1, <1>2, <1>3, <1>5, <1>6, <1>7 DEF Apart
<1>11. SliceOK(var[d])'
    BY <1>2, <1>7 DEF SliceOK
<1>12. Cells'
    BY <1>4, <1>5 DEF Cells, IInv
<1>13. WorkOK(t)'
    <2>1. kind'[t] = "assign" => \E s \in Vars : s # d /\ owner'[s] = t /\ src'[t] = var'[s]
        BY <1>1, <1>2, <1>6 DEF WorkOK
    <2>2. ASSUME kind'[t] = "grow"
          PROVE  SliceOK(src[t])' /\ src'[t].ref # Nil
        <3>1. kind[t] = "grow" /\ src'[t] = src[t] /\ SliceOK(src[t]) /\ src[t].ref # Nil
            BY <1>1, <1>2, <2>2 DEF WorkOK
        <3>2. src[t].ref # var[d].ref
            BY <1>2, <3>1 DEF Alone
        <3>3. \A v \in Slices : v = src[t] => SliceOK(v)'
            BY <1>2, <1>10, <3>1, <3>2, FitsStill
        <3> QED
            BY <1>2, <3>1, <3>3 DEF SliceOK
    <2> QED
        BY <1>1, <1>2, <1>6, <1>7, <2>1, <2>2 DEF WorkOK
<1>14. ASSUME NEW a \in Arrays, counter'[a] = "live"
       PROVE  count'[a] = Value(a) - Own(t, d, a) + Own(t, d, a)'
    <2>1. a # r /\ counter[a] = "live"
        BY <1>5, <1>14
    <2>2. Own(t, d, a)' = Own(t, d, a) /\ Own(t, d, a) \in Int
        <3>1. kind'[t] = kind[t] /\ src'[t] = src[t] /\ a # Nil
            BY <1>1, NilAssumption
        <3>2. var'[d].ref # a /\ var[d].ref # a
            BY <1>3, <1>7, <2>1, <3>1
        <3> QED
            BY <1>10, <3>1, <3>2, OwnOf
    <2> QED
        BY <1>1, <2>1, <2>2 DEF Value, IInv, TypeOK
<1> QED
    BY <1>9, <1>10, <1>11, <1>12, <1>13, <1>14, Step

LEMMA StepCopy ==
    ASSUME IInv, NEW t \in Threads, Copy(t)
    PROVE  IInv'
<1>1. pc[t] = "copy" /\ UNCHANGED <<owner, counter, array, size>>
    BY DEF Copy
<1>0. PICK d \in Vars : d = dst[t]
    BY <1>1, Busy
<1>2. /\ d = dst[t] /\ owner[d] = t /\ kind[t] # "none" /\ WorkOK(t)
      /\ src[t] \in Slices /\ var[d].ref = Nil
    BY <1>0, <1>1, Busy DEF WorkOK
<1>3. PICK v \in Slices : v = src[t]
    BY <1>2
<1>4. /\ var' = [var EXCEPT ![d] = v] /\ Return(t)
      /\ count' = IF kind[t] = "assign" /\ v.ref # Nil
                   THEN [count EXCEPT ![v.ref] = @ + 1] ELSE count
    BY <1>2, <1>3 DEF Copy
<1>5. var'[d] = v /\ (\A h \in Vars \ {d} : var'[h] = var[h]) /\ var' \in [Vars -> Slices]
    BY <1>4 DEF IInv, TypeOK
<1>6. /\ pc'[t] = "idle" /\ kind'[t] = "none" /\ src'[t] = Blank
      /\ pc' \in [Threads -> {"idle", "dealloc", "free", "drop", "delete", "copy"}]
      /\ kind' \in [Threads -> {"none", "assign", "nil", "destroy", "grow"}]
      /\ dst' \in [Threads -> Vars \cup {Nil}] /\ src' \in [Threads -> Slices]
      /\ \A u \in Threads \ {t} : /\ pc'[u] = pc[u] /\ kind'[u] = kind[u]
                                  /\ dst'[u] = dst[u] /\ src'[u] = src[u]
    BY <1>4, BlankFits DEF Return, IInv, TypeOK
<1>7. v.ref \in Arrays \cup {Nil}
    BY DEF Slices
<1>8. /\ count' \in [Arrays -> Nat]
      /\ \A a \in Arrays :
             count'[a] = IF kind[t] = "assign" /\ v.ref = a THEN count[a] + 1 ELSE count[a]
    BY <1>4, <1>7, NilAssumption DEF IInv, TypeOK
<1>9. TypeOK'
    BY <1>1, <1>5, <1>6, <1>8 DEF IInv, TypeOK
<1>10. \/ kind[t] = "assign" /\ \E s \in Vars : owner[s] = t /\ v = var[s] /\ SliceOK(v)
       \/ kind[t] = "grow" /\ SliceOK(v)
       \/ kind[t] \in {"nil", "destroy"} /\ v = Blank
    BY <1>2, <1>3, VarsTyped DEF WorkOK, IInv, TypeOK
<1>11. Apart(t, d)
    <2>1. \/ v.ref = Nil
          \/ \E s \in Vars : owner[s] = t /\ v.ref = var[s].ref
          \/ kind[t] = "grow" /\ v.ref = src[t].ref
        BY <1>3, <1>10 DEF Blank
    <2> QED
        BY <1>1, <1>2, <1>5, <1>6, <2>1 DEF Apart
<1>12. SliceOK(v)
    BY <1>10 DEF Blank, SliceOK
<1>13. SliceOK(var[d])' /\ Cells' /\ WorkOK(t)'
    BY <1>1, <1>5, <1>6, <1>12 DEF SliceOK, Cells, WorkOK, IInv
<1>14. ASSUME NEW a \in Arrays, counter'[a] = "live"
       PROVE  count'[a] = Value(a) - Own(t, d, a) + Own(t, d, a)'
    <2>1. /\ Own(t, d, a) = IF kind[t] = "grow" /\ v.ref = a THEN 1 ELSE 0
          /\ Own(t, d, a)' = IF v.ref = a THEN 1 ELSE 0
        BY <1>2, <1>3, <1>5, <1>6, <1>11, OwnOf, NilAssumption
    <2>2. v.ref = a => kind[t] \in {"assign", "grow"}
        BY <1>10, NilAssumption DEF Blank
    <2> QED
        BY <1>1, <1>8, <1>14, <2>1, <2>2 DEF Value, IInv, TypeOK
<1> QED
    BY <1>9, <1>11, <1>13, <1>14, Step

-----------------------------------------------------------------------------
LEMMA InitInv == Init => IInv
<1> SUFFICES ASSUME Init PROVE IInv
    OBVIOUS
<1>1. TypeOK
    BY BlankFits, CapAssumption DEF Init, TypeOK
<1>2. Shape /\ Cells /\ Work /\ CountExact
    BY DEF Init, Blank, Shape, SliceOK, Cells, Work, WorkOK, CountExact
<1> QED
    BY <1>1, <1>2 DEF IInv

LEMMA NextInv == IInv /\ [Next]_vars => IInv'
<1> SUFFICES ASSUME IInv, [Next]_vars PROVE IInv'
    OBVIOUS
<1>1. CASE UNCHANGED vars
    BY <1>1 DEF vars, cells, IInv, TypeOK, Shape, SliceOK, Cells, Work, WorkOK, Alone,
                CountExact, Counted, Condemned, Growing
<1>2. ASSUME NEW t \in Threads, NEW h \in Vars,
             \/ Make(t, h) \/ Push(t, h) \/ Give(t, h)
             \/ AssignNil(t, h) \/ Destruct(t, h) \/ Grow(t, h)
      PROVE  IInv'
    BY <1>2, StepMake, StepPush, StepGive, StepAssignNil, StepDestruct, StepGrow
<1>3. ASSUME NEW t \in Threads, NEW d \in Vars, NEW s \in Vars,
             Cut(t, d, s) \/ Rewindow(t, d, s) \/ Assign(t, d, s)
      PROVE  IInv'
    BY <1>3, StepCut, StepRewindow, StepAssign
<1>4. ASSUME NEW t \in Threads, Run(t)
      PROVE  IInv'
    BY <1>4, StepDealloc, StepFree, StepDrop, StepDelete, StepCopy DEF Run
<1> QED
    BY <1>1, <1>2, <1>3, <1>4 DEF Next

LEMMA Invariance == Spec => []IInv
    BY InitInv, NextInv, PTL DEF Spec

\* The fields of slices and the steps of threads keep their types; no counter
\* goes below zero.
THEOREM TypeCorrect == Spec => []TypeOK
<1>1. IInv => TypeOK
    BY DEF IInv
<1> QED
    BY Invariance, <1>1, PTL

\* Counters are exact in every interleaving of dealloc() and drop()
\* (slice.hpp:118-135 with ref.hpp:123-140).
THEOREM CountCorrect == Spec => []CountExact
<1>1. IInv => CountExact
    BY DEF IInv
<1> QED
    BY Invariance, <1>1, PTL

\* A slice, and the spare room that push() writes to, lies inside a live array
\* (slice.hpp: dealloc, slice, push, operator=).
THEOREM WindowsLive == Spec => []WindowLive
<1>1. IInv => WindowLive
    <2> SUFFICES ASSUME IInv, NEW h \in Vars
                 PROVE  /\ var[h].ref # Nil => counter[var[h].ref] = "live"
                        /\ var[h].alloc # Nil => array[var[h].alloc] = "live"
                                                 /\ var[h].ref = var[h].alloc
                        /\ var[h].len <= var[h].cap
                        /\ var[h].cap > 0 => /\ var[h].slice = var[h].alloc /\ var[h].alloc # Nil
                                             /\ var[h].off + var[h].cap <= size[var[h].slice]
        BY DEF WindowLive
    <2>1. var[h] \in Slices /\ SliceOK(var[h])
        BY VarsTyped
    <2>2. var[h].alloc # Nil => var[h].alloc \in Arrays /\ counter[var[h].alloc] = "live"
        BY <2>1 DEF SliceOK, Slices
    <2>3. var[h].alloc # Nil => array[var[h].alloc] = "live"
        BY <2>2 DEF IInv, Cells
    <2> QED
        BY <2>1, <2>3 DEF SliceOK
<1> QED
    BY Invariance, <1>1, PTL

\* A thread that deletes an array is the only one that has it.
LEMMA FreedAlone ==
    ASSUME IInv, NEW t \in Threads, Free(t) \/ Delete(t), NEW a \in Arrays
    PROVE  /\ counter'[a] # counter[a] => counter[a] = "live" /\ counter'[a] = "freed"
           /\ array'[a] # array[a] => /\ array[a] = "live" /\ array'[a] = "freed"
                                      /\ \A h \in Vars : var'[h].alloc # a
<1>1. pc[t] \in {"free", "delete"}
    BY DEF Free, Delete
<1>0. PICK d \in Vars : d = dst[t]
    BY <1>1, Busy
<1>2. d = dst[t] /\ Alone(t) /\ var[d] \in Slices /\ SliceOK(var[d]) /\ var[d].ref # Nil
    BY <1>0, <1>1, Busy DEF WorkOK
<1>3. PICK r \in Arrays : r = var[d].ref
    BY <1>2 DEF Slices
<1>4. /\ counter' = [counter EXCEPT ![r] = "freed"]
      /\ array' = array \/ array' = [array EXCEPT ![r] = "freed"]
      /\ \/ var' = [var EXCEPT ![d].alloc = Nil, ![d].ref = Nil, ![d].slice = Nil]
         \/ var' = [var EXCEPT ![d].ref = Nil, ![d].alloc = Nil]
    BY <1>2, <1>3 DEF Free, Delete, SliceOK
<1>5. counter[r] = "live" /\ array[r] = "live"
    BY <1>2, <1>3 DEF SliceOK, IInv, Cells
<1>6. \A h \in Vars \ {d} : var'[h] = var[h]
    BY <1>4 DEF IInv, TypeOK
<1>7. var'[d].alloc = Nil
    <2>1. \/ var'[d] = [var[d] EXCEPT !.alloc = Nil, !.ref = Nil, !.slice = Nil]
          \/ var'[d] = [var[d] EXCEPT !.ref = Nil, !.alloc = Nil]
        BY <1>4 DEF IInv, TypeOK
    <2> QED
        BY <1>2, <2>1 DEF Slices
<1>8. \A h \in Vars : var'[h].alloc # r
    <2>1. ASSUME NEW h \in Vars, h # d
          PROVE  var[h].alloc # r
        <3>1. var[h].ref # r /\ SliceOK(var[h])
            BY <1>2, <1>3, <2>1, VarsTyped DEF Alone
        <3> QED
            BY <3>1, NilAssumption DEF SliceOK
    <2> QED
        BY <1>6, <1>7, <2>1, NilAssumption
<1> QED
    BY <1>4, <1>5, <1>8 DEF IInv, TypeOK

\* What is allocated was never in use before, or has not been since.
LEMMA AllocatedOnce ==
    ASSUME IInv, NEW b \in Arrays, NEW c, Allocate(b, c), NEW a \in Arrays
    PROVE  /\ counter'[a] # counter[a] => counter[a] = "none" /\ counter'[a] = "live"
           /\ array'[a] # array[a] => array[a] = "none" /\ array'[a] = "live"
    BY DEF Allocate, IInv, TypeOK, Cells

\* Arrays and counters are deleted once, and no array that another slice has
\* (slice.hpp:118-135, ref.hpp:123-140).
THEOREM DeletedOnce == Spec => FreedOnce
<1> DEFINE Changes(a) ==
        /\ counter'[a] # counter[a] =>
              <<counter[a], counter'[a]>> \in {<<"none", "live">>, <<"live", "freed">>}
        /\ array'[a] # array[a] =>
              /\ <<array[a], array'[a]>> \in {<<"none", "live">>, <<"live", "freed">>}
              /\ array'[a] = "freed" => \A h \in Vars : var'[h].alloc # a
<1>1. ASSUME IInv, [Next]_vars, NEW a \in Arrays
      PROVE  Changes(a)
    <2>1. CASE UNCHANGED <<counter, array>>
        BY <2>1
    <2>2. CASE \E b \in Arrays, c \in 0 .. MaxCap : Allocate(b, c)
        BY <1>1, <2>2, AllocatedOnce
    <2>3. CASE \E t \in Threads : Free(t) \/ Delete(t)
        BY <1>1, <2>3, FreedAlone
    <2>4. \A t \in Threads, h \in Vars :
              /\ Make(t, h) => \E b \in Arrays, c \in 0 .. MaxCap : Allocate(b, c)
              /\ Grow(t, h) => \E b \in Arrays, c \in 0 .. MaxCap : Allocate(b, c)
              /\ Push(t, h) \/ Give(t, h) \/ AssignNil(t, h) \/ Destruct(t, h) =>
                     UNCHANGED <<counter, array>>
        BY DEF Make, Grow, Push, Give, AssignNil, Destruct, cells
    <2>5. \A t \in Threads, d, s \in Vars :
              Cut(t, d, s) \/ Rewindow(t, d, s) \/ Assign(t, d, s) => UNCHANGED <<counter, array>>
        BY DEF Cut, Rewindow, Assign, cells
    <2>6. \A t \in Threads : Dealloc(t) \/ Drop(t) \/ Copy(t) => UNCHANGED <<counter, array>>
        BY DEF Dealloc, Drop, Copy, cells
    <2>7. CASE UNCHANGED vars
        BY <2>1, <2>7 DEF vars
    <2> QED
        BY <1>1, <2>1, <2>2, <2>3, <2>4, <2>5, <2>6, <2>7 DEF Next, Run
<1>2. IInv /\ [Next]_vars => [\A a \in Arrays : Changes(a)]_vars
    BY <1>1
<1> QED
    BY Invariance, <1>2, PTL DEF Spec, FreedOnce
=============================================================================
