----------------------------- MODULE BoxProofs ------------------------------
(***************************************************************************)
(* Proofs about Box for any number of variables, objects, boxes and types: *)
(* counters are exact, casts read what they say, and boxes have one owner. *)
(* None of the three stands alone.  That a cell is not in use is known of  *)
(* its counter only when counters are exact; the counter is exact only     *)
(* when a box is not in two places; and a box copies its tag with what is  *)
(* in it, which is right only when the tag is.                             *)
(***************************************************************************)
EXTENDS Box, FiniteSetTheorems, TLAPS

IInv == TypeOK /\ CountExact /\ TagsTrue /\ BoxesOwned

HoldersIn(f, o) == {h \in Handles : f[h] = o}

\* The counters c are those of the handles f.
Exact(c, f) == \A o \in Objects : c[o] = Cardinality(HoldersIn(f, o))

ObjectOrNil == Objects \union {Nil}
HeldType == [Handles -> ObjectOrNil]
CountType == [Objects -> Int]

-----------------------------------------------------------------------------
(* Counting *)

LEMMA HoldersFinite ==
    ASSUME NEW f, NEW o
    PROVE  IsFiniteSet(HoldersIn(f, o))
<1>1. IsFiniteSet(Handles)
    BY SetsAssumption
<1>2. HoldersIn(f, o) \in SUBSET Handles
    BY DEF HoldersIn
<1> QED
    BY <1>1, <1>2, FS_Subset

\* A handle lets go of what it holds.
LEMMA DropExact ==
    ASSUME NEW f \in HeldType, NEW c \in CountType, Exact(c, f), NEW h \in Handles
    PROVE  /\ [f EXCEPT ![h] = Nil] \in HeldType
           /\ Dropped(c, f[h]) \in CountType
           /\ Exact(Dropped(c, f[h]), [f EXCEPT ![h] = Nil])
<1> DEFINE g == [f EXCEPT ![h] = Nil]
           d == Dropped(c, f[h])
<1>0. Nil \notin Objects
    BY NilAssumption
<1>1. g \in HeldType /\ d \in CountType
    BY DEF HeldType, CountType, ObjectOrNil, Dropped
<1>2. ASSUME NEW o \in Objects PROVE d[o] = Cardinality(HoldersIn(g, o))
    <2>1. IsFiniteSet(HoldersIn(f, o))
        BY HoldersFinite
    <2>2. HoldersIn(g, o) = HoldersIn(f, o) \ {h}
        BY <1>0 DEF HoldersIn, HeldType, ObjectOrNil
    <2>3. c[o] = Cardinality(HoldersIn(f, o))
        BY DEF Exact
    <2>4. h \in HoldersIn(f, o) <=> f[h] = o
        BY DEF HoldersIn
    <2>5. d[o] = IF f[h] = o THEN c[o] - 1 ELSE c[o]
        BY <1>0 DEF Dropped, CountType, HeldType, ObjectOrNil
    <2>6. Cardinality(HoldersIn(f, o) \ {h}) =
              IF h \in HoldersIn(f, o) THEN Cardinality(HoldersIn(f, o)) - 1
              ELSE Cardinality(HoldersIn(f, o))
        BY <2>1, FS_RemoveElement
    <2> QED
        BY <2>2, <2>3, <2>4, <2>5, <2>6
<1> QED
    BY <1>1, <1>2 DEF Exact

\* A handle that holds nothing takes o.
LEMMA AddExact ==
    ASSUME NEW f \in HeldType, NEW c \in CountType, Exact(c, f),
           NEW h \in Handles, f[h] = Nil, NEW o \in ObjectOrNil
    PROVE  /\ [f EXCEPT ![h] = o] \in HeldType
           /\ Added(c, o) \in CountType
           /\ Exact(Added(c, o), [f EXCEPT ![h] = o])
<1> DEFINE g == [f EXCEPT ![h] = o]
           d == Added(c, o)
<1>0. Nil \notin Objects
    BY NilAssumption
<1>1. g \in HeldType /\ d \in CountType
    BY DEF HeldType, CountType, ObjectOrNil, Added
<1>2. ASSUME NEW p \in Objects PROVE d[p] = Cardinality(HoldersIn(g, p))
    <2>1. IsFiniteSet(HoldersIn(f, p))
        BY HoldersFinite
    <2>2. HoldersIn(g, p) = IF p = o THEN HoldersIn(f, p) \union {h} ELSE HoldersIn(f, p)
        BY <1>0 DEF HoldersIn, HeldType, ObjectOrNil
    <2>3. c[p] = Cardinality(HoldersIn(f, p))
        BY DEF Exact
    <2>4. h \notin HoldersIn(f, p)
        BY <1>0 DEF HoldersIn
    <2>5. d[p] = IF p = o THEN c[p] + 1 ELSE c[p]
        BY <1>0 DEF Added, CountType, ObjectOrNil
    <2>6. Cardinality(HoldersIn(f, p) \union {h}) =
              IF h \in HoldersIn(f, p) THEN Cardinality(HoldersIn(f, p))
              ELSE Cardinality(HoldersIn(f, p)) + 1
        BY <2>1, FS_AddElement
    <2> QED
        BY <2>2, <2>3, <2>4, <2>5, <2>6
<1> QED
    BY <1>1, <1>2 DEF Exact

\* Ref::operator= counts right, also from an object to the same.
LEMMA PointCounts ==
    ASSUME TypeOK, CountExact, NEW h \in Handles, NEW o \in ObjectOrNil, Point(h, o)
    PROVE  held' \in HeldType /\ count' \in CountType /\ CountExact'
<1> DEFINE f == [held EXCEPT ![h] = Nil]
           c == Dropped(count, held[h])
<1>1. held \in HeldType /\ count \in CountType /\ Exact(count, held)
    BY DEF TypeOK, HeldType, CountType, ObjectOrNil, CountExact, Exact, Holders, HoldersIn
<1>2. f \in HeldType /\ c \in CountType /\ Exact(c, f)
    BY <1>1, DropExact
<1>3. f[h] = Nil
    BY <1>1 DEF HeldType
<1>4. /\ [f EXCEPT ![h] = o] \in HeldType
      /\ Added(c, o) \in CountType
      /\ Exact(Added(c, o), [f EXCEPT ![h] = o])
    BY <1>2, <1>3, AddExact
<1>5. held' = [f EXCEPT ![h] = o]
    BY <1>1 DEF Point, HeldType
<1>6. held' \in HeldType /\ count' \in CountType /\ Exact(count', held')
    <2>1. CASE held[h] # Nil /\ held[h] = o
        <3>1. held' = held /\ count' = count
            BY <1>1, <2>1 DEF Point, Moved, HeldType
        <3> QED
            BY <1>1, <3>1
    <2>2. CASE ~(held[h] # Nil /\ held[h] = o)
        <3>1. count' = Added(c, o)
            BY <2>2 DEF Point, Moved
        <3> QED
            BY <1>4, <1>5, <3>1
    <2> QED
        BY <2>1, <2>2
<1> QED
    BY <1>6 DEF CountExact, Exact, Holders, HoldersIn

\* No handle is left with a cell that operator new gives.
LEMMA FreshUnheld ==
    ASSUME TypeOK, CountExact, NEW o \in Objects, count[o] = 0, NEW h \in Handles
    PROVE  held[h] # o
<1>1. IsFiniteSet(HoldersIn(held, o))
    BY HoldersFinite
<1>2. Cardinality(HoldersIn(held, o)) = 0
    BY DEF CountExact, Holders, HoldersIn
<1>3. HoldersIn(held, o) = {}
    BY <1>1, <1>2, FS_EmptySet
<1> QED
    BY <1>3 DEF HoldersIn
-----------------------------------------------------------------------------
(* Tags and boxes *)

\* Handles may let go; one handle h takes o, and what it says of o is true and
\* what the others say who hold it.
LEMMA TagsKept ==
    ASSUME TagsTrue, NEW h \in Handles, NEW o \in ObjectOrNil,
           held' \in HeldType, held'[h] = o,
           \A g \in Handles \ {h} : held'[g] = held[g] \/ held'[g] = Nil,
           \A g \in Handles \ {h} : held'[g] # Nil => TagOf(g)' = TagOf(g),
           \A g \in Handles \ {h} : held'[g] # Nil =>
               object'[held'[g]].type = object[held'[g]].type,
           o # Nil => \E T \in Types : /\ object'[o].type = T
                                       /\ TagOf(h)' \in {Val(T), RefTo(T)},
           \A g \in Handles \ {h} : o # Nil /\ held[g] = o => TagOf(g) = TagOf(h)'
    PROVE  TagsTrue'
<1>1. ASSUME NEW g \in Handles, held'[g] # Nil
      PROVE  \E T \in Types : /\ object'[held'[g]].type = T
                              /\ TagOf(g)' \in {Val(T), RefTo(T)}
    <2>1. CASE g = h
        BY <1>1, <2>1
    <2>2. CASE g # h
        <3>1. held'[g] = held[g] /\ TagOf(g)' = TagOf(g)
              /\ object'[held'[g]].type = object[held'[g]].type
            BY <1>1, <2>2
        <3>2. PICK T \in Types : /\ object[held[g]].type = T
                                 /\ TagOf(g) \in {Val(T), RefTo(T)}
            BY <1>1, <3>1 DEF TagsTrue
        <3> QED
            BY <3>1, <3>2
    <2> QED
        BY <2>1, <2>2
<1>2. ASSUME NEW f \in Handles, NEW g \in Handles, held'[f] # Nil, held'[f] = held'[g]
      PROVE  TagOf(f)' = TagOf(g)'
    <2>1. CASE f # h /\ g # h
        <3>1. held[f] # Nil /\ held[f] = held[g]
            BY <1>2, <2>1
        <3>2. TagOf(f) = TagOf(g)
            BY <3>1 DEF TagsTrue
        <3> QED
            BY <1>2, <2>1, <3>2
    <2>2. CASE f = h /\ g # h
        BY <1>2, <2>2
    <2>3. CASE f # h /\ g = h
        BY <1>2, <2>3
    <2>4. CASE f = h /\ g = h
        BY <2>4
    <2> QED
        BY <2>1, <2>2, <2>3, <2>4
<1> QED
    BY <1>1, <1>2 DEF TagsTrue

\* Boxes that nothing touches stay as they are.
LEMMA BoxesKept ==
    ASSUME BoxesOwned, data' = data, plain' = plain,
           \A b \in Boxes : held'[b] = held[b] /\ tag'[b] = tag[b],
           \A a \in Anys : data[a] \in Boxes \union {Nil}
    PROVE  BoxesOwned'
<1>1. \A a \in Anys : data[a] # Nil => held'[data[a]] = held[data[a]]
                                       /\ tag'[data[a]] = tag[data[a]]
    OBVIOUS
<1> QED
    BY <1>1 DEF BoxesOwned

\* The parts of TypeOK.
TagType == [Traits \union Boxes -> Tags \union {Nil}]
PlainType == [Boxes -> Values \union {Nil}]
DataType == [Anys -> Boxes \union {Nil}]
ObjectType == [Objects -> [type : Types, val : Values]]

LEMMA TypeParts ==
    TypeOK <=> /\ held \in HeldType /\ tag \in TagType /\ plain \in PlainType
               /\ data \in DataType /\ object \in ObjectType /\ count \in CountType
    BY DEF TypeOK, HeldType, ObjectOrNil, TagType, PlainType, DataType, ObjectType, CountType

\* A step that changes none of the handles, boxes, objects and counters.
LEMMA QuietStep ==
    ASSUME IInv, UNCHANGED <<held, tag, plain, data, object, count>>
    PROVE  IInv'
<1>1. \A h \in Handles : TagOf(h)' = TagOf(h)
    BY DEF TagOf
<1>2. TypeOK' /\ CountExact' /\ BoxesOwned'
    BY DEF IInv, TypeOK, CountExact, Holders, BoxesOwned
<1>3. TagsTrue'
    BY <1>1 DEF IInv, TagsTrue
<1> QED
    BY <1>2, <1>3 DEF IInv

\* A reference of the right type, or a trait that is tagged with it, comes to
\* hold o, an object that was there or a new one.
LEMMA VariableTakes ==
    ASSUME IInv, NEW h \in Refs \union Traits, NEW o \in ObjectOrNil, Point(h, o),
           tag' \in TagType, \A k \in (Traits \union Boxes) \ {h} : tag'[k] = tag[k],
           UNCHANGED <<plain, data>>,
           \/ object' = object
           \/ \E T \in Types, x \in Values : o # Nil /\ Fresh(o, T, x),
           o # Nil => TagOf(h)' \in {Val(object'[o].type), RefTo(object'[o].type)},
           \A g \in Handles : o # Nil /\ held[g] = o => TagOf(g) = TagOf(h)'
    PROVE  IInv'
<1>1. h \in Handles /\ h \notin Boxes
    BY SetsAssumption DEF Handles
<1>2. held' \in HeldType /\ count' \in CountType /\ CountExact'
    BY <1>1, PointCounts DEF IInv
<1>3. held' = [held EXCEPT ![h] = o]
    BY DEF Point
<1>4. held \in HeldType /\ object \in ObjectType /\ plain \in PlainType /\ data \in DataType
    BY TypeParts DEF IInv
<1>5. \A g \in Handles \ {h} : held'[g] = held[g]
    BY <1>3, <1>4 DEF HeldType
<1>6. object' \in ObjectType
      /\ \A g \in Handles \ {h} : held'[g] # Nil =>
             object'[held'[g]].type = object[held'[g]].type
    <2>1. CASE object' = object
        BY <1>4, <2>1
    <2>2. CASE \E T \in Types, x \in Values : o # Nil /\ Fresh(o, T, x)
        <3>1. PICK T \in Types, x \in Values : o # Nil /\ Fresh(o, T, x)
            BY <2>2
        <3>2. o \in Objects /\ count[o] = 0
            BY <3>1 DEF ObjectOrNil, Fresh
        <3>3. \A g \in Handles : held[g] # o
            BY <3>2, FreshUnheld DEF IInv
        <3>4. object' = [object EXCEPT ![o] = [type |-> T, val |-> x]]
            BY <3>1 DEF Fresh
        <3> QED
            BY <1>4, <1>5, <3>2, <3>3, <3>4 DEF ObjectType
    <2> QED
        BY <2>1, <2>2
<1>7. TypeOK'
    <2>1. plain' \in PlainType /\ data' \in DataType
        BY <1>4
    <2> QED
        BY <1>2, <1>6, <2>1 DEF TypeOK, HeldType, ObjectOrNil, TagType, PlainType, DataType,
                                ObjectType, CountType
<1>8. TagsTrue'
    <2>1. held'[h] = o
        BY <1>1, <1>3, <1>4 DEF HeldType
    <2>2. \A g \in Handles \ {h} : TagOf(g)' = TagOf(g)
        BY DEF TagOf, Handles
    <2>3. o # Nil => \E T \in Types : /\ object'[o].type = T
                                      /\ TagOf(h)' \in {Val(T), RefTo(T)}
        BY <1>6 DEF ObjectOrNil, ObjectType
    <2> QED
        BY <1>1, <1>2, <1>5, <1>6, <2>1, <2>2, <2>3, TagsKept DEF IInv
<1>9. BoxesOwned'
    <2>1. \A b \in Boxes : held'[b] = held[b] /\ tag'[b] = tag[b]
        BY <1>1, <1>5 DEF Handles
    <2>2. \A a \in Anys : data[a] \in Boxes \union {Nil}
        BY <1>4 DEF DataType
    <2> QED
        BY <2>1, <2>2, BoxesKept DEF IInv
<1> QED
    BY <1>2, <1>7, <1>8, <1>9 DEF IInv
-----------------------------------------------------------------------------
(* The operations of references and traits *)

\* What TagsTrue says of one handle.
LEMMA TrueTag ==
    ASSUME IInv, NEW h \in Handles, held[h] # Nil
    PROVE  /\ held[h] \in Objects
           /\ TagOf(h) \in {Val(object[held[h]].type), RefTo(object[held[h]].type)}
           /\ \A g \in Handles : held[g] = held[h] => TagOf(g) = TagOf(h)
<1>1. held[h] \in Objects
    BY DEF IInv, TypeOK
<1>2. PICK T \in Types : object[held[h]].type = T /\ TagOf(h) \in {Val(T), RefTo(T)}
    BY DEF IInv, TagsTrue
<1>3. \A g \in Handles : held[g] = held[h] => TagOf(g) = TagOf(h)
    BY DEF IInv, TagsTrue
<1> QED
    BY <1>1, <1>2, <1>3

\* A reference takes what a handle with its tag has, or nothing.
LEMMA ReferenceTakes ==
    ASSUME IInv, NEW r \in Refs, NEW o \in ObjectOrNil, Point(r, o),
           UNCHANGED <<tag, plain, data, object>>,
           o # Nil => \E h \in Handles : held[h] = o /\ TagOf(h) = RefTo(TypeOf[r])
    PROVE  IInv'
<1>1. tag' \in TagType /\ \A k \in (Traits \union Boxes) \ {r} : tag'[k] = tag[k]
    BY TypeParts DEF IInv
<1>2. TagOf(r)' = RefTo(TypeOf[r])
    BY DEF TagOf
<1>3. /\ o # Nil => TagOf(r)' \in {Val(object'[o].type), RefTo(object'[o].type)}
      /\ \A g \in Handles : o # Nil /\ held[g] = o => TagOf(g) = TagOf(r)'
    <2> SUFFICES ASSUME o # Nil
                 PROVE  /\ TagOf(r)' \in {Val(object'[o].type), RefTo(object'[o].type)}
                        /\ \A g \in Handles : held[g] = o => TagOf(g) = TagOf(r)'
        OBVIOUS
    <2>1. PICK h \in Handles : held[h] = o /\ TagOf(h) = RefTo(TypeOf[r])
        OBVIOUS
    <2> QED
        BY <1>2, <2>1, TrueTag
<1> QED
    BY <1>1, <1>3, VariableTakes

LEMMA StepNew ==
    ASSUME IInv, NEW r \in Refs, NEW x \in Values, New(r, x)
    PROVE  IInv'
<1>1. CASE Panics
    BY <1>1, QuietStep DEF Panics
<1>2. ASSUME NEW o \in Objects, Fresh(o, TypeOf[r], x), Point(r, o),
             UNCHANGED <<tag, plain, data>>
      PROVE  IInv'
    <2>1. tag' \in TagType /\ \A k \in (Traits \union Boxes) \ {r} : tag'[k] = tag[k]
        BY <1>2, TypeParts DEF IInv
    <2>2. object \in ObjectType /\ TypeOf[r] \in Types
        BY TypeParts, TypeOfAssumption DEF IInv
    <2>3. object'[o].type = TypeOf[r]
        BY <1>2, <2>2 DEF Fresh, ObjectType
    <2>4. TagOf(r)' = RefTo(TypeOf[r])
        BY DEF TagOf
    <2>5. \A g \in Handles : held[g] # o
        BY <1>2, FreshUnheld DEF IInv, Fresh
    <2>6. o # Nil /\ o \in ObjectOrNil
        BY NilAssumption DEF ObjectOrNil
    <2> QED
        BY <1>2, <2>1, <2>2, <2>3, <2>4, <2>5, <2>6, VariableTakes
<1> QED
    BY <1>1, <1>2 DEF New

LEMMA StepRefAssign ==
    ASSUME IInv, NEW r \in Refs, NEW s \in Refs, RefAssign(r, s)
    PROVE  IInv'
<1>1. s \in Handles /\ held[s] \in ObjectOrNil
    BY DEF IInv, TypeOK, Handles, ObjectOrNil
<1>2. TagOf(s) = RefTo(TypeOf[r])
    BY DEF TagOf, RefAssign
<1> QED
    BY <1>1, <1>2, ReferenceTakes DEF RefAssign

LEMMA StepRefDrop ==
    ASSUME IInv, NEW r \in Refs, RefDrop(r)
    PROVE  IInv'
    BY ReferenceTakes DEF RefDrop, ObjectOrNil

LEMMA StepWrite ==
    ASSUME IInv, NEW h \in Refs \union Traits, NEW x \in Values, Write(h, x)
    PROVE  IInv'
<1>1. CASE Panics
    BY <1>1, QuietStep DEF Panics
<1>2. CASE /\ held[h] # Nil
           /\ object' = [object EXCEPT ![held[h]].val = x]
           /\ UNCHANGED <<held, tag, plain, data, count>>
    <2>1. object \in ObjectType /\ held \in HeldType
        BY TypeParts DEF IInv
    <2>2. object' \in ObjectType /\ \A o \in Objects : object'[o].type = object[o].type
        BY <1>2, <2>1 DEF ObjectType
    <2>3. TypeOK'
        BY <1>2, <2>2 DEF IInv, TypeOK, ObjectType
    <2>4. CountExact' /\ BoxesOwned'
        BY <1>2 DEF IInv, CountExact, Holders, BoxesOwned
    <2>5. TagsTrue'
        <3>1. \A g \in Handles : TagOf(g)' = TagOf(g) /\ held'[g] = held[g]
            BY <1>2 DEF TagOf
        <3>2. \A g \in Handles : held[g] # Nil => object'[held[g]].type = object[held[g]].type
            BY <2>1, <2>2 DEF HeldType, ObjectOrNil
        <3> QED
            BY <3>1, <3>2 DEF IInv, TagsTrue
    <2> QED
        BY <2>3, <2>4, <2>5 DEF IInv
<1> QED
    BY <1>1, <1>2 DEF Write

\* A trait is assigned from what holds o and is tagged g.
LEMMA TraitTakes ==
    ASSUME IInv, NEW t \in Traits, NEW o \in ObjectOrNil, NEW g \in Tags \union {Nil},
           TraitTake(t, o, g),
           \/ object' = object
           \/ \E T \in Types, x \in Values : o # Nil /\ Fresh(o, T, x),
           o # Nil => g \in {Val(object'[o].type), RefTo(object'[o].type)},
           \A h \in Handles : o # Nil /\ held[h] = o => TagOf(h) = g
    PROVE  IInv'
<1>1. t \in Handles /\ t \notin Refs
    BY SetsAssumption DEF Handles
<1>2. tag \in TagType
    BY TypeParts DEF IInv
<1>3. tag' \in TagType /\ \A k \in (Traits \union Boxes) \ {t} : tag'[k] = tag[k]
    BY <1>2 DEF TraitTake, TagType
<1>4. o # Nil => TagOf(t)' = g
    <2> SUFFICES ASSUME o # Nil PROVE tag'[t] = g
        BY <1>1 DEF TagOf
    <2>1. CASE o = held[t]
        <3>1. TagOf(t) = g /\ tag' = tag
            BY <1>1, <2>1 DEF TraitTake
        <3> QED
            BY <1>1, <3>1 DEF TagOf
    <2>2. CASE o # held[t]
        BY <1>2, <2>2 DEF TraitTake, TagType
    <2> QED
        BY <2>1, <2>2
<1> QED
    BY <1>3, <1>4, VariableTakes DEF TraitTake

LEMMA StepTraitFromValue ==
    ASSUME IInv, NEW t \in Traits, NEW T \in Types, NEW x \in Values, TraitFromValue(t, T, x)
    PROVE  IInv'
<1>1. CASE Panics
    BY <1>1, QuietStep DEF Panics
<1>2. ASSUME NEW o \in Objects, Fresh(o, T, x), TraitTake(t, o, Val(T))
      PROVE  IInv'
    <2>1. o \in ObjectOrNil /\ o # Nil /\ Val(T) \in Tags
        BY NilAssumption DEF ObjectOrNil, Tags
    <2>2. object'[o].type = T
        BY <1>2, TypeParts DEF IInv, Fresh, ObjectType
    <2>3. \A h \in Handles : held[h] # o
        BY <1>2, FreshUnheld DEF IInv, Fresh
    <2> QED
        BY <1>2, <2>1, <2>2, <2>3, TraitTakes
<1> QED
    BY <1>1, <1>2 DEF TraitFromValue

LEMMA StepTraitFromRef ==
    ASSUME IInv, NEW t \in Traits, NEW r \in Refs, TraitFromRef(t, r)
    PROVE  IInv'
<1>1. r \in Handles /\ held[r] \in ObjectOrNil
    BY DEF IInv, TypeOK, Handles, ObjectOrNil
<1>2. TagOf(r) = RefTo(TypeOf[r])
    BY DEF TagOf
<1>3. RefTo(TypeOf[r]) \in Tags
    BY TypeOfAssumption DEF Tags
<1> QED
    BY <1>1, <1>2, <1>3, TrueTag, TraitTakes DEF TraitFromRef

LEMMA StepTraitAssign ==
    ASSUME IInv, NEW t \in Traits, NEW u \in Traits, TraitAssign(t, u)
    PROVE  IInv'
<1>1. u \in Handles /\ u \notin Refs /\ held[u] \in ObjectOrNil
    BY SetsAssumption DEF IInv, TypeOK, Handles, ObjectOrNil
<1>2. TagOf(u) = tag[u] /\ tag[u] \in Tags \union {Nil}
    BY <1>1 DEF TagOf, IInv, TypeOK
<1> QED
    BY <1>1, <1>2, TrueTag, TraitTakes DEF TraitAssign

LEMMA StepTraitNil ==
    ASSUME IInv, NEW t \in Traits, TraitNil(t)
    PROVE  IInv'
<1>1. tag' \in TagType /\ Nil \in ObjectOrNil
    BY TypeParts DEF IInv, TraitNil, ObjectOrNil
<1> QED
    BY <1>1, VariableTakes DEF TraitNil

LEMMA StepTraitToRef ==
    ASSUME IInv, NEW t \in Traits, NEW r \in Refs, TraitToRef(t, r)
    PROVE  IInv'
<1>1. CASE Panics
    BY <1>1, QuietStep DEF Panics
<1>2. CASE TraitTypeIs(t, RefTo(TypeOf[r])) /\ Point(r, held[t])
           /\ UNCHANGED <<tag, plain, data, object>>
    <2>1. t \in Handles /\ t \notin Refs /\ held[t] \in ObjectOrNil
        BY SetsAssumption DEF IInv, TypeOK, Handles, ObjectOrNil
    <2>2. TagOf(t) = RefTo(TypeOf[r])
        BY <1>2, <2>1 DEF TagOf, TraitTypeIs
    <2> QED
        BY <1>2, <2>1, <2>2, ReferenceTakes
<1> QED
    BY <1>1, <1>2 DEF TraitToRef
-----------------------------------------------------------------------------
(* The operations of any *)

\* When an any has released its box, the counters are those of the handles that
\* are left, and the boxes of no any hold nothing.
LEMMA Released ==
    ASSUME IInv, NEW a \in Anys
    PROVE  /\ Cleared(held, a) \in HeldType
           /\ Cleared(tag, a) \in TagType
           /\ Cleared(plain, a) \in PlainType
           /\ DataWithout(a) \in DataType
           /\ CountWithout(a) \in CountType
           /\ Exact(CountWithout(a), Cleared(held, a))
           /\ \A h \in Handles : Cleared(held, a)[h] =
                  IF h = data[a] /\ data[a] # Nil THEN Nil ELSE held[h]
           /\ \A b \in Boxes : (\A c \in Anys : DataWithout(a)[c] # b) =>
                  Cleared(held, a)[b] = Nil
<1>1. /\ held \in HeldType /\ tag \in TagType /\ plain \in PlainType
      /\ data \in DataType /\ count \in CountType
    BY TypeParts DEF IInv
<1>2. Exact(count, held)
    BY DEF IInv, CountExact, Exact, Holders, HoldersIn
<1>3. DataWithout(a) \in DataType
    BY <1>1 DEF DataWithout, DataType
<1>4. \A b \in Boxes : (\A c \in Anys : DataWithout(a)[c] # b) => b = data[a] \/ held[b] = Nil
    BY <1>1 DEF IInv, BoxesOwned, DataWithout, DataType
<1>5. CASE data[a] = Nil
    <2>1. /\ Cleared(held, a) = held /\ Cleared(tag, a) = tag /\ Cleared(plain, a) = plain
          /\ CountWithout(a) = count
        BY <1>5 DEF Cleared, CountWithout
    <2>2. \A b \in Boxes : b # Nil
        BY NilAssumption
    <2> QED
        BY <1>1, <1>2, <1>3, <1>4, <1>5, <2>1, <2>2
<1>6. CASE data[a] # Nil
    <2>1. data[a] \in Boxes /\ data[a] \in Handles
        BY <1>1, <1>6 DEF DataType, Handles
    <2>2. /\ Cleared(held, a) = [held EXCEPT ![data[a]] = Nil]
          /\ Cleared(tag, a) = [tag EXCEPT ![data[a]] = Nil]
          /\ Cleared(plain, a) = [plain EXCEPT ![data[a]] = Nil]
          /\ CountWithout(a) = Dropped(count, held[data[a]])
        BY <1>6 DEF Cleared, CountWithout
    <2>3. Cleared(held, a) \in HeldType /\ CountWithout(a) \in CountType
          /\ Exact(CountWithout(a), Cleared(held, a))
        <3>1. /\ [held EXCEPT ![data[a]] = Nil] \in HeldType
              /\ Dropped(count, held[data[a]]) \in CountType
              /\ Exact(Dropped(count, held[data[a]]), [held EXCEPT ![data[a]] = Nil])
            BY <1>1, <1>2, <2>1, DropExact
        <3> QED
            BY <2>2, <3>1
    <2>4. Cleared(tag, a) \in TagType /\ Cleared(plain, a) \in PlainType
        BY <1>1, <2>1, <2>2 DEF TagType, PlainType
    <2>5. \A h \in Handles : Cleared(held, a)[h] = IF h = data[a] THEN Nil ELSE held[h]
        BY <1>1, <2>2 DEF HeldType
    <2>6. \A b \in Boxes : b \in Handles
        BY DEF Handles
    <2> QED
        BY <1>3, <1>4, <1>6, <2>3, <2>4, <2>5, <2>6
<1> QED
    BY <1>5, <1>6

LEMMA StepDealloc ==
    ASSUME IInv, NEW a \in Anys, Dealloc(a)
    PROVE  IInv'
<1>1. CASE data[a] = Nil
    <2>1. data \in DataType
        BY TypeParts DEF IInv
    <2>2. data' = data
        BY <1>1, <2>1 DEF Dealloc, DataWithout, DataType
    <2>3. UNCHANGED <<held, tag, plain, object, count>>
        BY <1>1 DEF Dealloc, Cleared, CountWithout
    <2> QED
        BY <2>2, <2>3, QuietStep
<1>2. CASE data[a] # Nil
    <2>0. /\ held \in HeldType /\ tag \in TagType /\ plain \in PlainType
          /\ data \in DataType /\ object \in ObjectType
        BY TypeParts DEF IInv
    <2>1. data[a] \in Boxes /\ data[a] \in Handles /\ data[a] \notin Refs
        BY <1>2, <2>0, SetsAssumption DEF DataType, Handles
    <2>2. /\ held' \in HeldType /\ tag' \in TagType /\ plain' \in PlainType
          /\ data' \in DataType /\ count' \in CountType /\ Exact(count', held')
          /\ \A h \in Handles : held'[h] = IF h = data[a] THEN Nil ELSE held[h]
        BY <1>2, Released DEF Dealloc
    <2>3. TypeOK'
        BY <2>0, <2>2 DEF Dealloc, TypeOK, HeldType, ObjectOrNil, TagType, PlainType,
                          DataType, ObjectType, CountType
    <2>4. CountExact'
        BY <2>2 DEF CountExact, Exact, Holders, HoldersIn
    <2>5. /\ tag' = [tag EXCEPT ![data[a]] = Nil]
          /\ plain' = [plain EXCEPT ![data[a]] = Nil]
          /\ data' = [data EXCEPT ![a] = Nil]
          /\ object' = object
        BY <1>2 DEF Dealloc, Cleared, DataWithout
    <2>6. TagsTrue'
        <3>1. \A g \in Handles \ {data[a]} : TagOf(g)' = TagOf(g) /\ held'[g] = held[g]
            <4>1. \A g \in Handles \ Refs : g \in Traits \union Boxes
                BY DEF Handles
            <4> QED
                BY <2>0, <2>2, <2>5, <4>1 DEF TagOf, TagType
        <3>2. held'[data[a]] = Nil /\ Nil \in ObjectOrNil
            BY <2>1, <2>2 DEF ObjectOrNil
        <3> QED
            BY <2>1, <2>2, <2>5, <3>1, <3>2, TagsKept DEF IInv
    <2>7. BoxesOwned'
        <3>1. \A c \in Anys : data'[c] # Nil => c # a /\ data'[c] = data[c]
            BY <2>0, <2>5 DEF DataType
        <3>2. \A c \in Anys : data'[c] # Nil => data[c] # data[a]
            BY <1>2, <3>1 DEF IInv, BoxesOwned
        <3>3. \A c, s \in Anys : data'[c] # Nil /\ data'[c] = data'[s] => c = s
            BY <3>1 DEF IInv, BoxesOwned
        <3>4. ASSUME NEW b \in Boxes, held'[b] # Nil
              PROVE  \E c \in Anys : data'[c] = b
            <4>1. b \in Handles /\ b # data[a] /\ held[b] # Nil
                BY <2>2, <3>4 DEF Handles
            <4>2. PICK c \in Anys : data[c] = b
                BY <4>1 DEF IInv, BoxesOwned
            <4> QED
                BY <2>0, <2>5, <4>1, <4>2 DEF DataType
        <3>5. \A c \in Anys : data'[c] # Nil =>
                  /\ tag'[data'[c]] = tag[data[c]]
                  /\ plain'[data'[c]] = plain[data[c]]
                  /\ held'[data'[c]] = held[data[c]]
            <4>1. \A b \in Boxes \ {data[a]} :
                      tag'[b] = tag[b] /\ plain'[b] = plain[b] /\ held'[b] = held[b]
                BY <2>0, <2>2, <2>5 DEF TagType, PlainType, Handles
            <4> QED
                BY <2>0, <3>1, <3>2, <4>1 DEF DataType
        <3> QED
            BY <3>1, <3>3, <3>4, <3>5 DEF IInv, BoxesOwned
    <2> QED
        BY <2>3, <2>4, <2>6, <2>7 DEF IInv
<1> QED
    BY <1>1, <1>2

\* The box b becomes a's, with the value x or a reference to o under the tag g.
Filled(a, b, g, x, o) ==
    /\ \A c \in Anys : DataWithout(a)[c] # b
    /\ held' = [Cleared(held, a) EXCEPT ![b] = o]
    /\ count' = Added(CountWithout(a), o)
    /\ data' = [data EXCEPT ![a] = b]
    /\ tag' = [Cleared(tag, a) EXCEPT ![b] = g]
    /\ plain' = [Cleared(plain, a) EXCEPT ![b] = x]
    /\ object' = object

\* x and o are what a box tagged g may have.
Fits(g, x, o) ==
    /\ \E T \in Types : \/ g = Val(T) /\ x \in Values /\ o = Nil
                        \/ g = RefTo(T) /\ x = Nil
    /\ o # Nil => g \in {Val(object[o].type), RefTo(object[o].type)}
    /\ \A h \in Handles : o # Nil /\ held[h] = o => TagOf(h) = g

\* An any gets a box with a value, or with a reference to o under the tag g.
LEMMA BoxTakes ==
    ASSUME IInv, NEW a \in Anys, NEW g, NEW x, NEW o \in ObjectOrNil,
           NEW b \in Boxes, Filled(a, b, g, x, o), Fits(g, x, o)
    PROVE  IInv'
<1> USE DEF Filled, Fits
<1>0. /\ held \in HeldType /\ tag \in TagType /\ plain \in PlainType
      /\ data \in DataType /\ object \in ObjectType
    BY TypeParts DEF IInv
<1>1. b \in Handles /\ b \notin Refs /\ b # Nil
    BY SetsAssumption, NilAssumption DEF Handles
<1>2. /\ Cleared(held, a) \in HeldType /\ Cleared(tag, a) \in TagType
      /\ Cleared(plain, a) \in PlainType /\ CountWithout(a) \in CountType
      /\ Exact(CountWithout(a), Cleared(held, a))
      /\ Cleared(held, a)[b] = Nil
    BY Released
<1>3. held' \in HeldType /\ count' \in CountType /\ Exact(count', held')
    <2>1. /\ [Cleared(held, a) EXCEPT ![b] = o] \in HeldType
          /\ Added(CountWithout(a), o) \in CountType
          /\ Exact(Added(CountWithout(a), o), [Cleared(held, a) EXCEPT ![b] = o])
        BY <1>1, <1>2, AddExact
    <2> QED
        BY <2>1
<1>4. g \in Tags /\ x \in Values \union {Nil}
    BY DEF Tags
<1>5. TypeOK'
    <2>1. tag' \in TagType /\ plain' \in PlainType /\ data' \in DataType
        BY <1>0, <1>2, <1>4 DEF TagType, PlainType, DataType
    <2> QED
        BY <1>0, <1>3, <2>1 DEF TypeOK, HeldType, ObjectOrNil, TagType, PlainType,
                                DataType, ObjectType, CountType
<1>6. CountExact'
    BY <1>3 DEF CountExact, Exact, Holders, HoldersIn
<1>7. \A h \in Handles \ {b} : held'[h] = IF h = data[a] /\ data[a] # Nil THEN Nil ELSE held[h]
    <2>1. \A h \in Handles : Cleared(held, a)[h] =
              IF h = data[a] /\ data[a] # Nil THEN Nil ELSE held[h]
        BY Released
    <2> QED
        BY <1>2, <2>1 DEF HeldType
<1>8. \A k \in (Traits \union Boxes) \ {b} : k # data[a] \/ data[a] = Nil => tag'[k] = tag[k]
    BY <1>0, <1>2 DEF Cleared, TagType
<1>9. \A k \in Boxes \ {b} : k # data[a] \/ data[a] = Nil => plain'[k] = plain[k]
    BY <1>0, <1>2 DEF Cleared, PlainType
<1>10. held'[b] = o /\ tag'[b] = g /\ plain'[b] = x
    BY <1>1, <1>2 DEF HeldType, TagType, PlainType
<1>11. TagsTrue'
    <2>1. \A h \in Handles \ {b} : held'[h] = held[h] \/ held'[h] = Nil
        BY <1>7
    <2>2. \A h \in Handles \ {b} : held'[h] # Nil => TagOf(h)' = TagOf(h) /\ held'[h] = held[h]
        <3>1. \A h \in Handles \ Refs : h \in Traits \union Boxes
            BY DEF Handles
        <3> QED
            BY <1>7, <1>8, <3>1 DEF TagOf
    <2>3. TagOf(b)' = g
        BY <1>1, <1>10 DEF TagOf
    <2>4. o # Nil => \E T \in Types : object'[o].type = T /\ TagOf(b)' \in {Val(T), RefTo(T)}
        BY <1>0, <2>3 DEF ObjectOrNil, ObjectType
    <2> QED
        BY <1>1, <1>3, <1>10, <2>1, <2>2, <2>3, <2>4, TagsKept DEF IInv
<1>12. \A c \in Anys \ {a} : data'[c] = data[c] /\ data[c] # b
    BY <1>0 DEF DataType, DataWithout
<1>13. data'[a] = b
    BY <1>0 DEF DataType
<1>14. BoxesOwned'
    <2>1. \A c, s \in Anys : data'[c] # Nil /\ data'[c] = data'[s] => c = s
        BY <1>12, <1>13 DEF IInv, BoxesOwned
    <2>2. ASSUME NEW k \in Boxes, held'[k] # Nil
          PROVE  \E c \in Anys : data'[c] = k
        <3>1. CASE k = b
            BY <1>13, <3>1
        <3>2. CASE k # b
            <4>1. k \in Handles
                BY DEF Handles
            <4>2. held[k] # Nil /\ ~(k = data[a] /\ data[a] # Nil)
                BY <1>7, <2>2, <3>2, <4>1
            <4>3. k # data[a]
                BY <4>2, NilAssumption
            <4>4. PICK c \in Anys : data[c] = k
                BY <4>2 DEF IInv, BoxesOwned
            <4> QED
                BY <1>12, <4>3, <4>4
        <3> QED
            BY <3>1, <3>2
    <2>3. ASSUME NEW c \in Anys, data'[c] # Nil
          PROVE  \E T \in Types :
                     \/ tag'[data'[c]] = Val(T) /\ plain'[data'[c]] \in Values
                        /\ held'[data'[c]] = Nil
                     \/ tag'[data'[c]] = RefTo(T) /\ plain'[data'[c]] = Nil
        <3>1. CASE c = a
            BY <1>10, <1>13, <3>1
        <3>2. CASE c # a
            <4>1. data'[c] = data[c] /\ data[c] \in Boxes \ {b} /\ data[c] # Nil
                BY <1>0, <1>12, <2>3, <3>2 DEF DataType
            <4>2. data[c] # data[a]
                BY <3>2, <4>1 DEF IInv, BoxesOwned
            <4>3. data[c] \in Handles
                BY <4>1 DEF Handles
            <4>4. /\ held'[data[c]] = held[data[c]] /\ tag'[data[c]] = tag[data[c]]
                  /\ plain'[data[c]] = plain[data[c]]
                BY <1>7, <1>8, <1>9, <4>1, <4>2, <4>3
            <4>5. \E T \in Types :
                      \/ tag[data[c]] = Val(T) /\ plain[data[c]] \in Values
                         /\ held[data[c]] = Nil
                      \/ tag[data[c]] = RefTo(T) /\ plain[data[c]] = Nil
                BY <4>1 DEF IInv, BoxesOwned
            <4> QED
                BY <4>1, <4>4, <4>5
        <3> QED
            BY <3>1, <3>2
    <2> QED
        BY <2>1, <2>2, <2>3 DEF BoxesOwned
<1> QED
    BY <1>5, <1>6, <1>11, <1>14 DEF IInv

LEMMA AnyTakes ==
    ASSUME IInv, NEW a \in Anys, NEW g, NEW x, NEW o \in ObjectOrNil, AnyTake(a, g, x, o),
           Fits(g, x, o)
    PROVE  IInv'
<1>1. CASE Dealloc(a)
    BY <1>1, StepDealloc
<1>2. ASSUME NEW b \in Boxes, Filled(a, b, g, x, o)
      PROVE  IInv'
    BY <1>2, BoxTakes
<1> QED
    BY <1>1, <1>2 DEF AnyTake, Filled

LEMMA StepAnyFromValue ==
    ASSUME IInv, NEW a \in Anys, NEW T \in Types, NEW x \in Values, AnyFromValue(a, T, x)
    PROVE  IInv'
<1>1. Nil \in ObjectOrNil
    BY DEF ObjectOrNil
<1>2. Fits(Val(T), x, Nil)
    BY DEF Fits
<1>3. AnyTake(a, Val(T), x, Nil)
    BY DEF AnyFromValue
<1> QED
    BY <1>1, <1>2, <1>3, AnyTakes

LEMMA StepAnyFromRef ==
    ASSUME IInv, NEW a \in Anys, NEW r \in Refs, AnyFromRef(a, r)
    PROVE  IInv'
<1>1. r \in Handles /\ held[r] \in ObjectOrNil
    BY DEF IInv, TypeOK, Handles, ObjectOrNil
<1>2. TagOf(r) = RefTo(TypeOf[r]) /\ TypeOf[r] \in Types
    BY TypeOfAssumption DEF TagOf
<1>3. Fits(RefTo(TypeOf[r]), Nil, held[r])
    BY <1>1, <1>2, TrueTag DEF Fits
<1>4. AnyTake(a, RefTo(TypeOf[r]), Nil, held[r])
    BY DEF AnyFromRef
<1> QED
    BY <1>1, <1>3, <1>4, AnyTakes

\* What an any has under its tag.
LEMMA BoxContents ==
    ASSUME IInv, NEW s \in Anys, data[s] # Nil
    PROVE  /\ data[s] \in Handles /\ held[data[s]] \in ObjectOrNil
           /\ TagOf(data[s]) = tag[data[s]]
           /\ \E T \in Types :
                  \/ tag[data[s]] = Val(T) /\ plain[data[s]] \in Values /\ held[data[s]] = Nil
                  \/ tag[data[s]] = RefTo(T) /\ plain[data[s]] = Nil
<1>1. data[s] \in Boxes
    BY DEF IInv, TypeOK
<1>2. data[s] \in Handles /\ data[s] \notin Refs
    BY <1>1, SetsAssumption DEF Handles
<1>3. held[data[s]] \in ObjectOrNil
    BY <1>2 DEF IInv, TypeOK, ObjectOrNil
<1> QED
    BY <1>2, <1>3 DEF TagOf, IInv, BoxesOwned

LEMMA StepAnyAssign ==
    ASSUME IInv, NEW a \in Anys, NEW s \in Anys, AnyAssign(a, s)
    PROVE  IInv'
<1>1. CASE Dealloc(a)
    BY <1>1, StepDealloc
<1>2. CASE data[s] # Nil /\ AnyTake(a, tag[data[s]], plain[data[s]], held[data[s]])
    <2>1. Fits(tag[data[s]], plain[data[s]], held[data[s]])
        BY <1>2, BoxContents, TrueTag DEF Fits
    <2>2. held[data[s]] \in ObjectOrNil
        BY <1>2, BoxContents
    <2> QED
        BY <1>2, <2>1, <2>2, AnyTakes
<1> QED
    BY <1>1, <1>2 DEF AnyAssign

LEMMA StepAnyToRef ==
    ASSUME IInv, NEW a \in Anys, NEW r \in Refs, AnyToRef(a, r)
    PROVE  IInv'
<1>1. CASE Panics
    BY <1>1, QuietStep DEF Panics
<1>2. CASE TypeIs(a, RefTo(TypeOf[r])) /\ Point(r, held[data[a]])
           /\ UNCHANGED <<tag, plain, data, object>>
    BY <1>2, BoxContents, ReferenceTakes DEF TypeIs
<1> QED
    BY <1>1, <1>2 DEF AnyToRef

-----------------------------------------------------------------------------
(* The specification *)

LEMMA InitInv == Init => IInv
<1> SUFFICES ASSUME Init PROVE IInv
    OBVIOUS
<1>1. TypeOK
    BY DEF Init, TypeOK
<1>2. \A h \in Handles : held[h] = Nil
    BY DEF Init
<1>3. CountExact
    <2>1. ASSUME NEW o \in Objects PROVE count[o] = Cardinality(Holders(o))
        <3>1. Holders(o) = {}
            BY <1>2, NilAssumption DEF Holders
        <3>2. count[o] = 0
            BY DEF Init
        <3> QED
            BY <3>1, <3>2, FS_EmptySet
    <2> QED
        BY <2>1 DEF CountExact
<1>4. TagsTrue
    BY <1>2 DEF TagsTrue
<1>5. BoxesOwned
    BY <1>2 DEF Init, BoxesOwned, Handles
<1> QED
    BY <1>1, <1>3, <1>4, <1>5 DEF IInv

LEMMA NextInv == IInv /\ [Next]_vars => IInv'
<1> SUFFICES ASSUME IInv, [Next]_vars PROVE IInv'
    OBVIOUS
<1>1. CASE UNCHANGED vars
    BY <1>1, QuietStep DEF vars
<1>2. CASE \E r \in Refs, x \in Values : New(r, x)
    BY <1>2, StepNew
<1>3. CASE \E r, s \in Refs : RefAssign(r, s)
    BY <1>3, StepRefAssign
<1>4. CASE \E r \in Refs : RefDrop(r)
    BY <1>4, StepRefDrop
<1>5. CASE \E h \in Refs \union Traits, x \in Values : Write(h, x)
    BY <1>5, StepWrite
<1>6. CASE \E t \in Traits, T \in Types, x \in Values : TraitFromValue(t, T, x)
    BY <1>6, StepTraitFromValue
<1>7. CASE \E t \in Traits, r \in Refs : TraitFromRef(t, r)
    BY <1>7, StepTraitFromRef
<1>8. CASE \E t, u \in Traits : TraitAssign(t, u)
    BY <1>8, StepTraitAssign
<1>9. CASE \E t \in Traits : TraitNil(t)
    BY <1>9, StepTraitNil
<1>10. CASE \E t \in Traits, T \in Types : TraitToValue(t, T)
    BY <1>10, QuietStep DEF TraitToValue, Panics
<1>11. CASE \E t \in Traits, r \in Refs : TraitToRef(t, r)
    BY <1>11, StepTraitToRef
<1>12. CASE \E t, u \in Traits : TraitEqual(t, u)
    BY <1>12, QuietStep DEF TraitEqual
<1>13. CASE \E a \in Anys, T \in Types, x \in Values : AnyFromValue(a, T, x)
    BY <1>13, StepAnyFromValue
<1>14. CASE \E a \in Anys, r \in Refs : AnyFromRef(a, r)
    BY <1>14, StepAnyFromRef
<1>15. CASE \E a, s \in Anys : AnyAssign(a, s)
    BY <1>15, StepAnyAssign
<1>16. CASE \E a \in Anys : AnyNil(a)
    BY <1>16, StepDealloc DEF AnyNil
<1>17. CASE \E a \in Anys, T \in Types : AnyToValue(a, T)
    BY <1>17, QuietStep DEF AnyToValue, Panics
<1>18. CASE \E a \in Anys, r \in Refs : AnyToRef(a, r)
    BY <1>18, StepAnyToRef
<1>19. CASE \E a, s \in Anys : AnyEqual(a, s)
    BY <1>19, QuietStep DEF AnyEqual
<1> QED
    BY <1>1, <1>2, <1>3, <1>4, <1>5, <1>6, <1>7, <1>8, <1>9, <1>10, <1>11, <1>12,
       <1>13, <1>14, <1>15, <1>16, <1>17, <1>18, <1>19 DEF Next

LEMMA Invariance == Spec => []IInv
    BY InitInv, NextInv, PTL DEF Spec

\* Variables, tags, boxes and objects keep their types (trait.hpp, any.hpp).
THEOREM TypeCorrect == Spec => []TypeOK
<1>1. IInv => TypeOK
    BY DEF IInv
<1> QED
    BY Invariance, <1>1, PTL

\* The counter of an object is the number of references, traits and boxes that
\* hold it: nothing dangles, and nothing is left without a holder (Ref::drop,
\* Trait::operator=, Any::dealloc).
THEOREM CountCorrect == Spec => []CountExact
<1>1. IInv => CountExact
    BY DEF IInv
<1> QED
    BY Invariance, <1>1, PTL

\* A cast that type_is allows reads memory of that type (Trait::operator T,
\* Any::operator T).
THEOREM TagsCorrect == Spec => []TagsTrue
<1>1. IInv => TagsTrue
    BY DEF IInv
<1> QED
    BY Invariance, <1>1, PTL

\* A box has at most one any, and one that has none holds nothing, also after
\* an allocation that failed (Any::operator=).
THEOREM BoxesCorrect == Spec => []BoxesOwned
<1>1. IInv => BoxesOwned
    BY DEF IInv
<1> QED
    BY Invariance, <1>1, PTL
=============================================================================
