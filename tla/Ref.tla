-------------------------------- MODULE Ref --------------------------------
(***************************************************************************)
(* jule::Ref (src/api/ref.hpp): the counted reference every Jule allocation*)
(* is held by.  A handle is the pair of fields alloc and ref; the counter  *)
(* and the object are two heap cells that live and die with the last       *)
(* handle.                                                                 *)
(*                                                                         *)
(* An object has one field that is itself a handle, so that destroying it  *)
(* drops a further reference, and chains and cycles of objects arise.  The *)
(* field of object o is the handle named o; the other handles, the Roots,  *)
(* are local variables, each owned by one thread.  A thread reads and      *)
(* writes its own variables and the fields of the objects they hold; two   *)
(* threads never work on the same field at the same time (programs         *)
(* synchronise that themselves), but they share objects freely, and every  *)
(* atomic access to a counter is a step of its own.                        *)
(***************************************************************************)
EXTENDS Integers, Sequences, FiniteSets

CONSTANTS
  Threads,
  Roots,        \* handles that are local variables
  Objects,      \* heap cells an allocation may get; also the fields in them
  Nil,          \* nullptr
  InnerSource   \* whether a program assigns to a handle from a field of the
                \* very object that handle holds, as in `head = head.next`

Handles == Roots \cup Objects

ASSUME SetsAssumption == IsFiniteSet(Handles) /\ Roots \cap Objects = {}
ASSUME NilAssumption == Nil \notin Handles
ASSUME InnerAssumption == InnerSource \in BOOLEAN

VARIABLES
  alloc,    \* the field alloc of each handle
  ref,      \* the field ref: the object whose counter it points to
  count,    \* the value of each counter
  counter,  \* the heap cell of each counter: "none", "live" or "freed"
  object,   \* that of each object, which is "dying" while its destructor runs
  owner,    \* the thread each local variable belongs to
  pc,       \* where each thread is
  drops,    \* per thread, the handles whose drop() is on its call stack: the
            \* destination of the assignment, then the fields of dying objects
  src       \* the source of the assignment, Nil for a destructor

vars == <<alloc, ref, count, counter, object, owner, pc, drops, src>>
cells == <<count, counter, object>>

\* The handle whose drop() runs, and the one the operation began with.
Top(t) == drops[t][Len(drops[t])]
Dst(t) == drops[t][1]

TypeOK ==
  /\ alloc \in [Handles -> Objects \cup {Nil}]
  /\ ref \in [Handles -> Objects \cup {Nil}]
  /\ count \in [Objects -> Nat]
  /\ counter \in [Objects -> {"none", "live", "freed"}]
  /\ object \in [Objects -> {"none", "live", "dying", "freed"}]
  /\ owner \in [Roots -> Threads]
  /\ pc \in [Threads -> {"idle", "drop", "destroy", "dropped", "copy"}]
  /\ drops \in [Threads -> Seq(Handles)]
  /\ src \in [Threads -> Handles \cup {Nil}]

Init ==
  /\ alloc = [h \in Handles |-> Nil]
  /\ ref = [h \in Handles |-> Nil]
  /\ count = [o \in Objects |-> 0]
  /\ counter = [o \in Objects |-> "none"]
  /\ object = [o \in Objects |-> "none"]
  /\ owner \in [Roots -> Threads]
  /\ pc = [t \in Threads |-> "idle"]
  /\ drops = [t \in Threads |-> << >>]
  /\ src = [t \in Threads |-> Nil]

-----------------------------------------------------------------------------
(* What a program may name *)

\* Thread t holds object o by a variable other than d.
HeldBeside(t, o, d) == \E g \in Roots \ {d} : owner[g] = t /\ alloc[g] = o

\* No other thread works on the field of o.
FieldFree(t, o) == \A u \in Threads \ {t} : pc[u] # "idle" => o # Dst(u) /\ o # src[u]

CanWrite(t, d) ==
  \/ d \in Roots /\ owner[d] = t
  \/ d \in Objects /\ HeldBeside(t, d, d) /\ FieldFree(t, d)

CanRead(t, s, d) ==
  \/ s \in Roots /\ owner[s] = t
  \/ s \in Objects /\ HeldBeside(t, s, d) /\ FieldFree(t, s)
  \/ InnerSource /\ s \in Objects /\ alloc[d] = s /\ FieldFree(t, s)

-----------------------------------------------------------------------------
(* Operations *)

\* `let h = new(T)`: Ref::make allocates object and counter and counts one.
New(t, h) ==
  /\ pc[t] = "idle"
  /\ h \in Roots /\ owner[h] = t
  /\ alloc[h] = Nil /\ ref[h] = Nil
  /\ \E o \in Objects :
       /\ object[o] = "none"
       /\ object' = [object EXCEPT ![o] = "live"]
       /\ counter' = [counter EXCEPT ![o] = "live"]
       /\ count' = [count EXCEPT ![o] = 1]
       /\ alloc' = [alloc EXCEPT ![h] = o]
       /\ ref' = [ref EXCEPT ![h] = o]
  /\ UNCHANGED <<owner, pc, drops, src>>

\* A variable goes to another thread: the closure of a spawned thread.
Give(t, h) ==
  /\ pc[t] = "idle"
  /\ h \in Roots /\ owner[h] = t
  /\ \E u \in Threads \ {t} : owner' = [owner EXCEPT ![h] = u]
  /\ UNCHANGED <<alloc, ref, cells, pc, drops, src>>

\* Thread t calls drop() on d, and then goes on with source s.
Begin(t, d, s) ==
  /\ pc' = [pc EXCEPT ![t] = "drop"]
  /\ drops' = [drops EXCEPT ![t] = <<d>>]
  /\ src' = [src EXCEPT ![t] = s]
  /\ UNCHANGED <<alloc, ref, cells, owner>>

\* d = s: operator= returns at once on an assignment to itself, else runs
\* drop() on d first.
Assign(t, d, s) ==
  /\ pc[t] = "idle"
  /\ d # s /\ CanWrite(t, d) /\ CanRead(t, s, d)
  /\ ~(alloc[d] # Nil /\ alloc[d] = alloc[s])
  /\ Begin(t, d, s)

\* The destructor of a variable: drop().
Destruct(t, h) ==
  /\ pc[t] = "idle"
  /\ h \in Roots /\ owner[h] = t /\ ref[h] # Nil
  /\ Begin(t, h, Nil)

\* The fetch-and-add did not leave zero, or there is nothing to count: drop()
\* clears both fields and returns.
Leave(t, h) ==
  /\ count' = IF ref[h] = Nil THEN count ELSE [count EXCEPT ![ref[h]] = @ - 1]
  /\ ref' = [ref EXCEPT ![h] = Nil]
  /\ alloc' = [alloc EXCEPT ![h] = Nil]
  /\ pc' = [pc EXCEPT ![t] = "dropped"]

\* The fetch-and-add found the last reference.
Condemn(t, h) ==
  /\ count' = [count EXCEPT ![ref[h]] = @ - 1]
  /\ pc' = [pc EXCEPT ![t] = "destroy"]
  /\ UNCHANGED <<alloc, ref>>

\* Mutant: the object goes with the last but one reference.
DecrementEarly(t) ==
  /\ pc[t] = "drop"
  /\ IF ref[Top(t)] # Nil /\ count[ref[Top(t)]] <= 2
     THEN Condemn(t, Top(t))
     ELSE Leave(t, Top(t))
  /\ UNCHANGED <<counter, object, owner, drops, src>>

\* Mutant: the old value is compared with 0 instead of REFERENCE_DELTA.
DecrementNeverFrees(t) ==
  /\ pc[t] = "drop"
  /\ Leave(t, Top(t))
  /\ UNCHANGED <<counter, object, owner, drops, src>>

\* drop(): the null test, the fetch-and-add and the test of its result.
Decrement(t) ==
  /\ pc[t] = "drop"
  /\ IF ref[Top(t)] # Nil /\ count[ref[Top(t)]] = 1
     THEN Condemn(t, Top(t))
     ELSE Leave(t, Top(t))
  /\ UNCHANGED <<counter, object, owner, drops, src>>

\* drop(), last reference: the counter is deleted, and the destructor of the
\* object begins with drop() on the object's own field.
Destroy(t) ==
  /\ pc[t] = "destroy"
  /\ LET h == Top(t)
     IN  /\ counter' = [counter EXCEPT ![ref[h]] = "freed"]
         /\ ref' = [ref EXCEPT ![h] = Nil]
         /\ object' = [object EXCEPT ![alloc[h]] = "dying"]
         /\ drops' = [drops EXCEPT ![t] = Append(@, alloc[h])]
  /\ pc' = [pc EXCEPT ![t] = "drop"]
  /\ UNCHANGED <<alloc, count, owner, src>>

\* Mutant: the drop() that deleted the object is not resumed.
ReleaseForgets(t) ==
  /\ pc[t] = "dropped"
  /\ Len(drops[t]) > 1
  /\ object' = [object EXCEPT ![Top(t)] = "freed"]
  /\ pc' = [pc EXCEPT ![t] = "drop"]
  /\ UNCHANGED <<alloc, ref, count, counter, owner, drops, src>>

\* The object's field has been dropped: its memory goes, and the drop() that
\* deleted the object ends in turn.
Release(t) ==
  /\ pc[t] = "dropped"
  /\ Len(drops[t]) > 1
  /\ LET n == Len(drops[t])
     IN  /\ object' = [object EXCEPT ![Top(t)] = "freed"]
         /\ alloc' = [alloc EXCEPT ![drops[t][n - 1]] = Nil]
         /\ drops' = [drops EXCEPT ![t] = SubSeq(@, 1, n - 1)]
  /\ UNCHANGED <<ref, count, counter, owner, pc, src>>

\* The operation of t is over.
Return(t) ==
  /\ pc' = [pc EXCEPT ![t] = "idle"]
  /\ drops' = [drops EXCEPT ![t] = << >>]
  /\ src' = [src EXCEPT ![t] = Nil]

\* drop() of the destination has ended; a destructor is done, an assignment
\* goes on to copy the source.
Dropped(t) ==
  /\ pc[t] = "dropped"
  /\ Len(drops[t]) = 1
  /\ IF src[t] = Nil
     THEN Return(t)
     ELSE pc' = [pc EXCEPT ![t] = "copy"] /\ UNCHANGED <<drops, src>>
  /\ UNCHANGED <<alloc, ref, cells, owner>>

\* Mutant: the copy is not counted.
CopyUncounted(t) ==
  /\ pc[t] = "copy"
  /\ ref' = [ref EXCEPT ![Dst(t)] = ref[src[t]]]
  /\ alloc' = [alloc EXCEPT ![Dst(t)] = alloc[src[t]]]
  /\ Return(t)
  /\ UNCHANGED <<cells, owner>>

\* operator=: count the source's object and copy the two fields.
Copy(t) ==
  /\ pc[t] = "copy"
  /\ count' = IF ref[src[t]] = Nil THEN count ELSE [count EXCEPT ![ref[src[t]]] = @ + 1]
  /\ ref' = [ref EXCEPT ![Dst(t)] = ref[src[t]]]
  /\ alloc' = [alloc EXCEPT ![Dst(t)] = alloc[src[t]]]
  /\ Return(t)
  /\ UNCHANGED <<counter, object, owner>>

-----------------------------------------------------------------------------
\* The steps of an operation that has begun.
Run(t) == Decrement(t) \/ Destroy(t) \/ Release(t) \/ Dropped(t) \/ Copy(t)

Next ==
  \E t \in Threads :
    \/ \E h \in Roots : New(t, h) \/ Give(t, h) \/ Destruct(t, h)
    \/ \E d, s \in Handles : Assign(t, d, s)
    \/ Run(t)

Spec == Init /\ [][Next]_vars

\* A thread that is inside an operation goes on with it.
Fairness == \A t \in Threads : WF_vars(Run(t))

FairSpec == Spec /\ Fairness

-----------------------------------------------------------------------------
(* Properties *)

\* The handles that are counted for o: a handle is discounted as soon as its
\* fetch-and-add has brought the counter to zero.
Condemned(h) == \E t \in Threads : pc[t] = "destroy" /\ Top(t) = h
Holders(o) == {h \in Handles : ref[h] = o /\ ~Condemned(h)}

\* A counter is the number of handles that hold its object, in every
\* interleaving of assignments and destructors (ref.hpp, add_ref / drop_ref).
CountExact == \A o \in Objects : counter[o] = "live" => count[o] = Cardinality(Holders(o))

\* A held object and its counter are allocated: no handle dangles.
NoDanglingHandle ==
  \A o \in Objects : Holders(o) # {} => counter[o] = "live" /\ object[o] = "live"

\* drop() and operator= only read and write handles whose memory exists: local
\* variables, or fields of objects that have not been freed.
NoDanglingAccess ==
  \A t \in Threads : pc[t] # "idle" =>
    \A o \in Objects :
      (o = src[t] \/ \E i \in 1 .. Len(drops[t]) : o = drops[t][i])
        => object[o] \in {"live", "dying"}

\* "An allocation is automatically released as soon as the reference count
\* reaches zero" (README.md): when nobody is inside drop(), an object without
\* holders is gone, counter and all.
ReleasedAtZero ==
  (\A t \in Threads : pc[t] = "idle") =>
    \A o \in Objects : Holders(o) = {} =>
      object[o] \in {"none", "freed"} /\ counter[o] = object[o]

\* What a step may do to an object: its cell only goes from fresh to live, to
\* dying, to freed, and its counter is deleted when it starts to die.
CellStep ==
  \A o \in Objects : object'[o] # object[o] =>
    /\ <<object[o], object'[o]>> \in
         {<<"none", "live">>, <<"live", "dying">>, <<"dying", "freed">>}
    /\ object'[o] = "dying" => counter[o] = "live" /\ counter'[o] = "freed"

\* An object is deleted at most once, and so is its counter (ref.hpp, drop).
DeletedOnce == [][CellStep]_vars

\* Every assignment and destructor ends, however long the chain of objects it
\* destroys.
DropEnds == \A t \in Threads : (pc[t] # "idle") ~> (pc[t] = "idle")

-----------------------------------------------------------------------------
\* The life of an object as its holders see it, and the refinement: for any
\* number of threads the two heap cells and the counter behave as one object
\* that leaves with its last holder.
Fate(o) ==
  IF object[o] = "none" THEN "unborn"
  ELSE IF counter[o] = "live" /\ Holders(o) # {} THEN "alive"
  ELSE "gone"

Life == INSTANCE Lifetime WITH
  holders <- [o \in Objects |-> Holders(o)],
  fate <- [o \in Objects |-> Fate(o)]

\* Ref implements Lifetime: assignments, destructors and copies by several
\* threads are, step by step, creations, sharings and departures.
ImplementsLifetime == Life!Spec
=============================================================================
