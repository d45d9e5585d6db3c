------------------------------- MODULE Slice -------------------------------
(***************************************************************************)
(* jule::Slice (src/api/slice.hpp): the window of a counted array.  A      *)
(* slice embeds a jule::Ref whose fields it also handles itself: dealloc() *)
(* reads the counter and then acts on what it read, and the Ref's own      *)
(* drop() follows.                                                         *)
(*                                                                         *)
(* Slices are variables, each owned by one thread; threads share arrays,   *)
(* and every access to a shared counter is a step of its own.  Elements    *)
(* are not modelled, only which of them a slice may touch.  append() of    *)
(* builtin.hpp is a sequence of these operations on its parameter.         *)
(***************************************************************************)
EXTENDS Integers, FiniteSets

CONSTANTS
  Threads,
  Vars,      \* slice variables
  Arrays,    \* heap cells an allocation may get; a counter goes with each
  Nil,       \* nullptr
  MaxCap,    \* bound: the largest array
  SharesNil  \* whether a program assigns nil to a variable that holds an array

ASSUME NilAssumption == Nil \notin Arrays \cup Vars
ASSUME CapAssumption == MaxCap \in Nat
ASSUME SharesAssumption == SharesNil \in BOOLEAN
ASSUME FiniteAssumption == IsFiniteSet(Threads) /\ IsFiniteSet(Vars)

VARIABLES
  var,      \* the fields of each variable: data.alloc, data.ref, _slice (as
            \* the array and the offset into it), _len and _cap
  owner,    \* the thread each variable belongs to
  count,    \* the value of each counter
  counter,  \* the heap cell of each counter: "none", "live" or "freed"
  array,    \* that of each array
  size,     \* the elements each array was allocated with
  pc,       \* where each thread is
  kind,     \* the operation it is in: "assign", "nil", "destroy" or "grow"
  dst,      \* the variable it works on
  src       \* the slice that variable is to become

vars == <<var, owner, count, counter, array, size, pc, kind, dst, src>>
cells == <<count, counter, array, size>>

Slices == [alloc : Arrays \cup {Nil}, ref : Arrays \cup {Nil}, slice : Arrays \cup {Nil},
           off : 0 .. MaxCap, len : 0 .. MaxCap, cap : 0 .. MaxCap]

\* A variable that has not been initialised, or is destroyed.
Blank == [alloc |-> Nil, ref |-> Nil, slice |-> Nil, off |-> 0, len |-> 0, cap |-> 0]

Whole(a, n, c) == [alloc |-> a, ref |-> a, slice |-> a, off |-> 0, len |-> n, cap |-> c]

TypeOK ==
  /\ var \in [Vars -> Slices]
  /\ owner \in [Vars -> Threads]
  /\ count \in [Arrays -> Nat]
  /\ counter \in [Arrays -> {"none", "live", "freed"}]
  /\ array \in [Arrays -> {"none", "live", "freed"}]
  /\ size \in [Arrays -> 0 .. MaxCap]
  /\ pc \in [Threads -> {"idle", "dealloc", "free", "drop", "delete", "copy"}]
  /\ kind \in [Threads -> {"none", "assign", "nil", "destroy", "grow"}]
  /\ dst \in [Threads -> Vars \cup {Nil}]
  /\ src \in [Threads -> Slices]

Init ==
  /\ var = [h \in Vars |-> Blank]
  /\ owner \in [Vars -> Threads]
  /\ count = [a \in Arrays |-> 0]
  /\ counter = [a \in Arrays |-> "none"]
  /\ array = [a \in Arrays |-> "none"]
  /\ size = [a \in Arrays |-> 0]
  /\ pc = [t \in Threads |-> "idle"]
  /\ kind = [t \in Threads |-> "none"]
  /\ dst = [t \in Threads |-> Nil]
  /\ src = [t \in Threads |-> Blank]

Owns(t, h) == pc[t] = "idle" /\ owner[h] = t

-----------------------------------------------------------------------------
(* Operations of one step *)

\* The heap part of alloc_new: a fresh array and its counter, at one.
Allocate(a, c) ==
  /\ array[a] = "none"
  /\ array' = [array EXCEPT ![a] = "live"]
  /\ counter' = [counter EXCEPT ![a] = "live"]
  /\ count' = [count EXCEPT ![a] = 1]
  /\ size' = [size EXCEPT ![a] = c]

\* `let h = make([]T, n, c)`
Make(t, h) ==
  /\ Owns(t, h) /\ var[h] = Blank
  /\ \E a \in Arrays, c \in 0 .. MaxCap : \E n \in 0 .. c :
       Allocate(a, c) /\ var' = [var EXCEPT ![h] = Whole(a, n, c)]
  /\ UNCHANGED <<owner, pc, kind, dst, src>>

\* `let d = s[i:j]`: slice() panics outside of s, and on nil.
Cut(t, d, s) ==
  /\ Owns(t, d) /\ Owns(t, s) /\ var[d] = Blank
  /\ var[s].slice # Nil
  /\ \E j \in 0 .. var[s].len : \E i \in 0 .. j :
       var' = [var EXCEPT ![d] = [var[s] EXCEPT !.off = @ + i, !.len = j - i, !.cap = @ - i]]
  /\ count' = IF var[s].ref = Nil THEN count ELSE [count EXCEPT ![var[s].ref] = @ + 1]
  /\ UNCHANGED <<owner, counter, array, size, pc, kind, dst, src>>

\* push() with room: the element after the last is written.
Push(t, h) ==
  /\ Owns(t, h) /\ var[h].len < var[h].cap
  /\ var' = [var EXCEPT ![h].len = @ + 1]
  /\ UNCHANGED <<owner, cells, pc, kind, dst, src>>

\* operator= between two slices of one array: only the window moves.
Rewindow(t, d, s) ==
  /\ Owns(t, d) /\ Owns(t, s) /\ d # s
  /\ var[d].alloc # Nil /\ var[d].alloc = var[s].alloc
  /\ var' = [var EXCEPT ![d] = [var[s] EXCEPT !.ref = var[d].ref]]
  /\ UNCHANGED <<owner, cells, pc, kind, dst, src>>

\* A variable goes to another thread: the closure of a spawned thread.
Give(t, h) ==
  /\ Owns(t, h)
  /\ \E u \in Threads \ {t} : owner' = [owner EXCEPT ![h] = u]
  /\ UNCHANGED <<var, cells, pc, kind, dst, src>>

-----------------------------------------------------------------------------
(* Operations that give up what a variable holds *)

Begin(t, k, d, s) ==
  /\ pc' = [pc EXCEPT ![t] = "dealloc"]
  /\ kind' = [kind EXCEPT ![t] = k]
  /\ dst' = [dst EXCEPT ![t] = d]
  /\ src' = [src EXCEPT ![t] = s]
  /\ UNCHANGED <<var, owner>>

\* operator=, and the copy constructor, from a slice of another array.
Assign(t, d, s) ==
  /\ Owns(t, d) /\ Owns(t, s) /\ d # s
  /\ ~(var[d].alloc # Nil /\ var[d].alloc = var[s].alloc)
  /\ SharesNil \/ var[s].slice # Nil \/ var[d].ref = Nil
  /\ Begin(t, "assign", d, var[s])
  /\ UNCHANGED cells

AssignNil(t, d) ==
  /\ Owns(t, d) /\ SharesNil
  /\ Begin(t, "nil", d, Blank)
  /\ UNCHANGED cells

Destruct(t, d) ==
  /\ Owns(t, d) /\ var[d] # Blank
  /\ Begin(t, "destroy", d, Blank)
  /\ UNCHANGED cells

\* push() without room: a larger array is filled, then takes the place of the
\* old one.  push() calls dealloc(), and the assignment calls it again: one
\* dealloc() stands for both.  The second finds a slice without alloc.  It has
\* something to do only when others held the array at the first, and what it then
\* does to the counter, and to no array, the drop() that follows does as well.
Grow(t, h) ==
  /\ Owns(t, h) /\ var[h].len = var[h].cap
  /\ \E c \in 0 .. MaxCap :
       /\ c = (var[h].len + 1) * 2
       /\ \E a \in Arrays : Allocate(a, c) /\ Begin(t, "grow", h, Whole(a, var[h].len + 1, c))

Return(t) ==
  /\ pc' = [pc EXCEPT ![t] = "idle"]
  /\ kind' = [kind EXCEPT ![t] = "none"]
  /\ dst' = [dst EXCEPT ![t] = Nil]
  /\ src' = [src EXCEPT ![t] = Blank]

\* What follows dealloc(): nothing after an assignment of nil, else ~Ref() or
\* the assignment of data.
Leave(t) ==
  IF kind[t] = "nil" \/ (kind[t] = "assign" /\ src[t].slice = Nil)
  THEN Return(t)
  ELSE pc' = [pc EXCEPT ![t] = "drop"] /\ UNCHANGED <<kind, dst, src>>

\* Mutant: dealloc() does not ask whether the array is shared.
DeallocAlways(t) ==
  /\ pc[t] = "dealloc"
  /\ IF var[dst[t]].ref = Nil
     THEN /\ var' = [var EXCEPT ![dst[t]].len = 0, ![dst[t]].cap = 0, ![dst[t]].alloc = Nil]
          /\ Leave(t)
     ELSE /\ var' = [var EXCEPT ![dst[t]].len = 0, ![dst[t]].cap = 0]
          /\ pc' = [pc EXCEPT ![t] = "free"] /\ UNCHANGED <<kind, dst, src>>
  /\ UNCHANGED <<owner, cells>>

\* dealloc() up to its reading of the counter; alloc is cleared, and ref kept,
\* when the array is shared.
Dealloc(t) ==
  /\ pc[t] = "dealloc"
  /\ IF var[dst[t]].ref # Nil /\ count[var[dst[t]].ref] = 1
     THEN /\ var' = [var EXCEPT ![dst[t]].len = 0, ![dst[t]].cap = 0]
          /\ pc' = [pc EXCEPT ![t] = "free"] /\ UNCHANGED <<kind, dst, src>>
     ELSE /\ var' = [var EXCEPT ![dst[t]].len = 0, ![dst[t]].cap = 0, ![dst[t]].alloc = Nil]
          /\ Leave(t)
  /\ UNCHANGED <<owner, cells>>

\* The rest of dealloc() on the last slice: counter and array are deleted
\* (deleting a null alloc does nothing).
Free(t) ==
  /\ pc[t] = "free"
  /\ LET v == var[dst[t]]
     IN  /\ counter' = [counter EXCEPT ![v.ref] = "freed"]
         /\ array' = IF v.alloc = Nil THEN array ELSE [array EXCEPT ![v.alloc] = "freed"]
  /\ var' = [var EXCEPT ![dst[t]].alloc = Nil, ![dst[t]].ref = Nil, ![dst[t]].slice = Nil]
  /\ Leave(t)
  /\ UNCHANGED <<owner, count, size>>

\* drop() of the embedded Ref, up to the test of its fetch-and-add.
Drop(t) ==
  /\ pc[t] = "drop"
  /\ LET r == var[dst[t]].ref
     IN  /\ count' = IF r = Nil THEN count ELSE [count EXCEPT ![r] = @ - 1]
         /\ IF r # Nil /\ count[r] = 1
            THEN pc' = [pc EXCEPT ![t] = "delete"] /\ UNCHANGED var
            ELSE /\ pc' = [pc EXCEPT ![t] = "copy"]
                 /\ var' = [var EXCEPT ![dst[t]].ref = Nil, ![dst[t]].alloc = Nil]
  /\ UNCHANGED <<owner, counter, array, size, kind, dst, src>>

\* drop() found the last reference after all: it deletes the counter, and what
\* alloc points to, which dealloc() has cleared.
Delete(t) ==
  /\ pc[t] = "delete"
  /\ LET v == var[dst[t]]
     IN  /\ counter' = [counter EXCEPT ![v.ref] = "freed"]
         /\ array' = IF v.alloc = Nil THEN array ELSE [array EXCEPT ![v.alloc] = "freed"]
  /\ var' = [var EXCEPT ![dst[t]].ref = Nil, ![dst[t]].alloc = Nil]
  /\ pc' = [pc EXCEPT ![t] = "copy"]
  /\ UNCHANGED <<owner, count, size, kind, dst, src>>

\* Mutant: the copy of data is not counted.
CopyUncounted(t) ==
  /\ pc[t] = "copy"
  /\ var' = [var EXCEPT ![dst[t]] = src[t]]
  /\ Return(t)
  /\ UNCHANGED <<owner, cells>>

\* The end: a destroyed variable is gone; an assigned one takes over the source
\* and counts it; a grown one takes over the new array with its count.
Copy(t) ==
  /\ pc[t] = "copy"
  /\ count' = IF kind[t] = "assign" /\ src[t].ref # Nil
              THEN [count EXCEPT ![src[t].ref] = @ + 1]
              ELSE count
  /\ var' = [var EXCEPT ![dst[t]] = src[t]]
  /\ Return(t)
  /\ UNCHANGED <<owner, counter, array, size>>

Run(t) == Dealloc(t) \/ Free(t) \/ Drop(t) \/ Delete(t) \/ Copy(t)

Next ==
  \E t \in Threads :
    \/ \E h \in Vars : \/ Make(t, h) \/ Push(t, h) \/ Give(t, h)
                       \/ AssignNil(t, h) \/ Destruct(t, h) \/ Grow(t, h)
    \/ \E d, s \in Vars : Cut(t, d, s) \/ Rewindow(t, d, s) \/ Assign(t, d, s)
    \/ Run(t)

Spec == Init /\ [][Next]_vars

-----------------------------------------------------------------------------
(* Properties *)

\* The slices counted for array a: variables, unless drop() has discounted
\* them, and the larger arrays that push() is about to install.
Condemned(h) == \E t \in Threads : pc[t] = "delete" /\ dst[t] = h
Counted(a) == {h \in Vars : var[h].ref = a /\ ~Condemned(h)}
Growing(a) == {t \in Threads : kind[t] = "grow" /\ src[t].ref = a}

\* A counter is the number of slices that hold its array, in every
\* interleaving of dealloc() and drop() on several threads.
CountExact ==
  \A a \in Arrays : counter[a] = "live" =>
    count[a] = Cardinality(Counted(a)) + Cardinality(Growing(a))

\* A slice never refers to a deleted counter or array, and the elements it may
\* touch, spare capacity included, lie inside a live array.
WindowLive ==
  \A h \in Vars :
    LET v == var[h]
    IN  /\ v.ref # Nil => counter[v.ref] = "live"
        /\ v.alloc # Nil => array[v.alloc] = "live" /\ v.ref = v.alloc
        /\ v.len <= v.cap
        /\ v.cap > 0 => v.slice = v.alloc /\ v.alloc # Nil /\ v.off + v.cap <= size[v.slice]

\* Arrays and counters are deleted at most once, and an array never while
\* another slice has it.
FreedOnce ==
  [][\A a \in Arrays :
       /\ counter'[a] # counter[a] =>
            <<counter[a], counter'[a]>> \in {<<"none", "live">>, <<"live", "freed">>}
       /\ array'[a] # array[a] =>
            /\ <<array[a], array'[a]>> \in {<<"none", "live">>, <<"live", "freed">>}
            /\ array'[a] = "freed" => \A h \in Vars : var'[h].alloc # a]_vars

\* "An allocation is automatically released as soon as the reference count
\* reaches zero" (README.md): when nobody is inside an operation, an array
\* without slices has been freed.
ReleasedAtZero ==
  (\A t \in Threads : pc[t] = "idle") =>
    \A a \in Arrays : array[a] = "live" => \E h \in Vars : var[h].ref = a
=============================================================================
