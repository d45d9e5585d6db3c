--------------------------------- MODULE Box --------------------------------
(***************************************************************************)
(* jule::Trait and jule::Any (src/api/trait.hpp, any.hpp) beside the       *)
(* references they are made from and turned into: variables that hold      *)
(* something of a type which is only known when the program runs.          *)
(*                                                                         *)
(* A trait holds an object with a counted reference, as a reference does;  *)
(* an any owns a box of its own, with a value or a reference in it.  What  *)
(* is held is told by a type name, and a cast that the name allows reads   *)
(* the memory as that type without another look.                           *)
(*                                                                         *)
(* One thread: the counter of an object that is shared between threads is  *)
(* the subject of module Ref.                                              *)
(***************************************************************************)
EXTENDS Integers, FiniteSets

CONSTANTS
    Refs,     \* variables that are references, each of one type
    Traits,   \* variables of a trait that every type implements
    Anys,     \* variables of type any
    Objects,  \* heap cells of counted objects
    Boxes,    \* heap cells that an any may own
    Types,    \* the types of objects
    Values,   \* what an object or a box may contain
    TypeOf,   \* the type that each reference refers to
    Nil       \* nullptr

\* Everything that embeds a jule::Ref: a box does when a reference is in it.
Handles == Refs \union Traits \union Boxes

ASSUME SetsAssumption ==
    /\ IsFiniteSet(Handles)
    /\ Refs \intersect Traits = {} /\ Refs \intersect Boxes = {}
    /\ Traits \intersect Boxes = {}
ASSUME TypeOfAssumption == TypeOf \in [Refs -> Types]
ASSUME NilAssumption == Nil \notin Objects \union Boxes \union Values

VARIABLES
    held,   \* the object that each handle points to
    tag,    \* the type name in each trait and of each box
    plain,  \* the value in each box that holds no reference
    data,   \* the box that each any owns
    object, \* the contents of each object
    count,  \* the counter of each object; it is freed at zero
    ret     \* what the last cast or comparison gave, or Panic

vars == <<held, tag, plain, data, object, count, ret>>

\* typeid(T).name() and typeid(jule::Ref<T>).name()
Val(T) == <<"val", T>>
RefTo(T) == <<"ref", T>>
Tags == {Val(T) : T \in Types} \union {RefTo(T) : T \in Types}

Panic == "panic"
Quiet == "quiet"

TypeOK ==
    /\ held \in [Handles -> Objects \union {Nil}]
    /\ tag \in [Traits \union Boxes -> Tags \union {Nil}]
    /\ plain \in [Boxes -> Values \union {Nil}]
    /\ data \in [Anys -> Boxes \union {Nil}]
    /\ object \in [Objects -> [type : Types, val : Values]]
    /\ count \in [Objects -> Int]

Init ==
    /\ held = [h \in Handles |-> Nil]
    /\ tag = [h \in Traits \union Boxes |-> Nil]
    /\ plain = [b \in Boxes |-> Nil]
    /\ data = [a \in Anys |-> Nil]
    /\ \E T \in Types, x \in Values :
           object = [o \in Objects |-> [type |-> T, val |-> x]]
    /\ count = [o \in Objects |-> 0]
    /\ ret = Quiet

-----------------------------------------------------------------------------
\* Ref::drop and add_ref.
Dropped(c, o) == IF o = Nil THEN c ELSE [c EXCEPT ![o] = @ - 1]
Added(c, o) == IF o = Nil THEN c ELSE [c EXCEPT ![o] = @ + 1]

\* Ref::operator= of a handle that points to p.
Moved(c, p, o) == IF p # Nil /\ p = o THEN c ELSE Added(Dropped(c, p), o)

\* A handle comes to point to an object or to nothing.
Point(h, o) ==
    /\ held' = [held EXCEPT ![h] = o]
    /\ count' = Moved(count, held[h], o)

\* new (std::nothrow) T gives a cell that is not in use.
Fresh(o, T, x) ==
    /\ count[o] = 0
    /\ object' = [object EXCEPT ![o] = [type |-> T, val |-> x]]

\* jule::panic: a program may recover from it and go on.
Panics ==
    /\ ret' = Panic
    /\ UNCHANGED <<held, tag, plain, data, object, count>>

-----------------------------------------------------------------------------
(* References *)

\* new(T, x), and &T{...}: new_ref, new_struct.  When there is no memory for
\* the object or its counter the code panics before anything changes.
New(r, x) ==
    \/ /\ \E o \in Objects : Fresh(o, TypeOf[r], x) /\ Point(r, o)
       /\ ret' = Quiet
       /\ UNCHANGED <<tag, plain, data>>
    \/ Panics

RefAssign(r, s) ==
    /\ TypeOf[r] = TypeOf[s]
    /\ Point(r, held[s])
    /\ ret' = Quiet
    /\ UNCHANGED <<tag, plain, data, object>>

\* drop(r)
RefDrop(r) ==
    /\ Point(r, Nil)
    /\ ret' = Quiet
    /\ UNCHANGED <<tag, plain, data, object>>

\* An assignment through a reference, or a call of a trait's method that
\* changes the object: both look for nil first.
Write(h, x) ==
    \/ /\ held[h] # Nil
       /\ object' = [object EXCEPT ![held[h]].val = x]
       /\ ret' = Quiet
       /\ UNCHANGED <<held, tag, plain, data, count>>
    \/ held[h] = Nil /\ Panics

-----------------------------------------------------------------------------
(* Traits *)

\* Trait::operator= from a trait that points to o and is tagged g: a variable
\* that points there already keeps its own tag, and one that becomes nil too.
TraitTake(t, o, g) ==
    /\ Point(t, o)
    /\ tag' = IF o = Nil \/ o = held[t] THEN tag ELSE [tag EXCEPT ![t] = g]
    /\ ret' = Quiet
    /\ UNCHANGED <<plain, data>>

\* Trait(const T &): the value is copied into an object of its own.
TraitFromValue(t, T, x) ==
    \/ \E o \in Objects : Fresh(o, T, x) /\ TraitTake(t, o, Val(T))
    \/ Panics

\* Mutant: the new holder is not counted.
MutantTraitFromRef(t, r) ==
    /\ held' = [held EXCEPT ![t] = held[r]]
    /\ count' = Dropped(count, held[t])
    /\ tag' = [tag EXCEPT ![t] = RefTo(TypeOf[r])]
    /\ ret' = Quiet
    /\ UNCHANGED <<plain, data, object>>

\* Trait(const Ref<T> &)
TraitFromRef(t, r) ==
    /\ TraitTake(t, held[r], RefTo(TypeOf[r]))
    /\ UNCHANGED object

\* Mutant: the tag stays when the object changes.
MutantTraitAssign(t, u) ==
    /\ Point(t, held[u])
    /\ ret' = Quiet
    /\ UNCHANGED <<tag, plain, data, object>>

TraitAssign(t, u) ==
    /\ TraitTake(t, held[u], tag[u])
    /\ UNCHANGED object

TraitNil(t) ==
    /\ Point(t, Nil)
    /\ ret' = Quiet
    /\ UNCHANGED <<tag, plain, data, object>>

\* Trait::type_is, and the check of both casts: nil first, then the name.
TraitTypeIs(t, g) == held[t] # Nil /\ tag[t] = g

\* operator T: the memory is read as a T when the name is that of T.
TraitToValue(t, T) ==
    \/ /\ TraitTypeIs(t, Val(T))
       /\ ret' = object[held[t]].val
       /\ UNCHANGED <<held, tag, plain, data, object, count>>
    \/ ~TraitTypeIs(t, Val(T)) /\ Panics

\* operator Ref<T>: the reference that is returned is counted.
TraitToRef(t, r) ==
    \/ /\ TraitTypeIs(t, RefTo(TypeOf[r]))
       /\ Point(r, held[t])
       /\ ret' = Quiet
       /\ UNCHANGED <<tag, plain, data, object>>
    \/ ~TraitTypeIs(t, RefTo(TypeOf[r])) /\ Panics

\* operator== of two traits compares one of them with itself.
TraitEqual(t, u) ==
    /\ ret' = (held[t] = held[t])
    /\ UNCHANGED <<held, tag, plain, data, object, count>>

-----------------------------------------------------------------------------
(* Any *)

\* What remains of handles, counters, boxes and variables when a has released
\* its box: Any::dealloc calls the destructor of what is in it.
CountWithout(a) == IF data[a] = Nil THEN count ELSE Dropped(count, held[data[a]])
DataWithout(a) == [data EXCEPT ![a] = Nil]
Cleared(f, a) == IF data[a] = Nil THEN f ELSE [f EXCEPT ![data[a]] = Nil]

Dealloc(a) ==
    /\ held' = Cleared(held, a)
    /\ count' = CountWithout(a)
    /\ data' = DataWithout(a)
    /\ tag' = Cleared(tag, a)
    /\ plain' = Cleared(plain, a)
    /\ UNCHANGED object

\* a releases its box and then gets another, tagged g, with the value x or a
\* reference to o in it.  Without memory a is left with nothing.
AnyTake(a, g, x, o) ==
    \/ \E b \in Boxes :
          /\ \A c \in Anys : DataWithout(a)[c] # b
          /\ held' = [Cleared(held, a) EXCEPT ![b] = o]
          /\ count' = Added(CountWithout(a), o)
          /\ data' = [data EXCEPT ![a] = b]
          /\ tag' = [Cleared(tag, a) EXCEPT ![b] = g]
          /\ plain' = [Cleared(plain, a) EXCEPT ![b] = x]
          /\ ret' = Quiet
          /\ UNCHANGED object
    \/ Dealloc(a) /\ ret' = Panic

\* operator=(const T &) with a value and with a reference.
AnyFromValue(a, T, x) == AnyTake(a, Val(T), x, Nil)
AnyFromRef(a, r) == AnyTake(a, RefTo(TypeOf[r]), Nil, held[r])

\* Mutant: the box is shared and not copied.
MutantAnyAssign(a, s) ==
    /\ held' = Cleared(held, a)
    /\ count' = CountWithout(a)
    /\ data' = [data EXCEPT ![a] = data[s]]
    /\ ret' = Quiet
    /\ UNCHANGED <<tag, plain, object>>

\* operator=(const Any &): the box is copied, and the reference in it counted
\* once more.
AnyAssign(a, s) ==
    \/ /\ data[s] = Nil
       /\ Dealloc(a)
       /\ ret' = Quiet
    \/ /\ data[s] # Nil /\ data[s] # data[a]
       /\ AnyTake(a, tag[data[s]], plain[data[s]], held[data[s]])

AnyNil(a) == Dealloc(a) /\ ret' = Quiet

\* Any::type_is
TypeIs(a, g) == data[a] # Nil /\ tag[data[a]] = g

\* operator T, for a value and for a reference.
AnyToValue(a, T) ==
    \/ /\ TypeIs(a, Val(T))
       /\ ret' = plain[data[a]]
       /\ UNCHANGED <<held, tag, plain, data, object, count>>
    \/ ~TypeIs(a, Val(T)) /\ Panics

AnyToRef(a, r) ==
    \/ /\ TypeIs(a, RefTo(TypeOf[r]))
       /\ Point(r, held[data[a]])
       /\ ret' = Quiet
       /\ UNCHANGED <<tag, plain, data, object>>
    \/ ~TypeIs(a, RefTo(TypeOf[r])) /\ Panics

\* Ref::operator== compares what is referred to.
SameObject(o, p) ==
    \/ o = p
    \/ o # Nil /\ p # Nil /\ object[o].val = object[p].val

\* operator==(const Any &)
AnyEqual(a, s) ==
    /\ ret' = \/ data[a] = data[s]
              \/ /\ data[a] # Nil /\ data[s] # Nil
                 /\ tag[data[a]] = tag[data[s]]
                 /\ plain[data[a]] = plain[data[s]]
                 /\ SameObject(held[data[a]], held[data[s]])
    /\ UNCHANGED <<held, tag, plain, data, object, count>>

-----------------------------------------------------------------------------
Next ==
    \/ \E r \in Refs, x \in Values : New(r, x)
    \/ \E r, s \in Refs : RefAssign(r, s)
    \/ \E r \in Refs : RefDrop(r)
    \/ \E h \in Refs \union Traits, x \in Values : Write(h, x)
    \/ \E t \in Traits, T \in Types, x \in Values : TraitFromValue(t, T, x)
    \/ \E t \in Traits, r \in Refs : TraitFromRef(t, r)
    \/ \E t, u \in Traits : TraitAssign(t, u)
    \/ \E t \in Traits : TraitNil(t)
    \/ \E t \in Traits, T \in Types : TraitToValue(t, T)
    \/ \E t \in Traits, r \in Refs : TraitToRef(t, r)
    \/ \E t, u \in Traits : TraitEqual(t, u)
    \/ \E a \in Anys, T \in Types, x \in Values : AnyFromValue(a, T, x)
    \/ \E a \in Anys, r \in Refs : AnyFromRef(a, r)
    \/ \E a, s \in Anys : AnyAssign(a, s)
    \/ \E a \in Anys : AnyNil(a)
    \/ \E a \in Anys, T \in Types : AnyToValue(a, T)
    \/ \E a \in Anys, r \in Refs : AnyToRef(a, r)
    \/ \E a, s \in Anys : AnyEqual(a, s)

Spec == Init /\ [][Next]_vars

-----------------------------------------------------------------------------
\* The handles that point to an object.
Holders(o) == {h \in Handles : held[h] = o}

\* The counter of an object is the number of references, traits and boxes that
\* point to it, whatever was made of what and however often: no holder is left
\* with a freed object, and an object is freed when its last holder goes.
CountExact == \A o \in Objects : count[o] = Cardinality(Holders(o))

\* The type that the memory has behind each handle.
TagOf(h) == IF h \in Refs THEN RefTo(TypeOf[h]) ELSE tag[h]

\* The name that a cast looks at is that of the object it then reads, and all
\* who hold an object agree on it.  This is why a trait may skip the assignment
\* when it points to the same object already (Trait::operator=).
TagsTrue ==
    /\ \A h \in Handles : held[h] # Nil =>
           \E T \in Types : /\ object[held[h]].type = T
                            /\ TagOf(h) \in {Val(T), RefTo(T)}
    /\ \A g, h \in Handles : held[g] # Nil /\ held[g] = held[h] => TagOf(g) = TagOf(h)

\* A box belongs to one any, so that it is freed once; it holds what its name
\* says; and a box that belongs to none keeps no object alive, whether it was
\* released, replaced or left behind by an allocation that failed (Any).
BoxesOwned ==
    /\ \A a, s \in Anys : data[a] # Nil /\ data[a] = data[s] => a = s
    /\ \A b \in Boxes :
           \/ \E a \in Anys : data[a] = b
           \/ held[b] = Nil
    /\ \A a \in Anys : data[a] # Nil =>
           \E T \in Types :
               \/ tag[data[a]] = Val(T) /\ plain[data[a]] \in Values
                  /\ held[data[a]] = Nil
               \/ tag[data[a]] = RefTo(T) /\ plain[data[a]] = Nil
=============================================================================
