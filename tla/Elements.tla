------------------------------ MODULE Elements ------------------------------
(***************************************************************************)
(* The elements of slices, arrays and maps (src/api/slice.hpp, array.hpp,  *)
(* map.hpp), and what append, copy and clone do with them (builtin.hpp,    *)
(* derive/clone.hpp).  Slices are windows that share arrays; arrays and    *)
(* maps are values; an element may be a reference, which is shared again.  *)
(*                                                                         *)
(* One thread.  When an array is freed, and a variable that is assigned    *)
(* nil, are the subject of module Slice: here an array lives as long as a  *)
(* slice has it, and nil is never assigned over an array.                  *)
(***************************************************************************)
EXTENDS Integers, Sequences, FiniteSets, Functions

CONSTANTS
    Programs, \* what a program works with: [items, slices, others]
    Slices,   \* slice variables
    Arrays,   \* heap cells of the arrays of slices
    Cells,    \* heap cells of referenced elements
    Vals,     \* values of integer elements, and keys
    Nil,      \* nullptr
    Unset,    \* what the memory holds that make() counts as elements
    Spare,    \* what the memory of capacity beyond a length holds
    First,    \* the operand `d[0]` of an append to d
    MaxLen,   \* bound: the elements of a slice
    N         \* the elements of an array variable

ASSUME ElementsAssumption ==
    /\ \A p \in Programs : /\ p.items \in {"int", "ref"}
                           /\ p.slices \subseteq Slices
                           /\ p.others \in BOOLEAN
    /\ 0 \in Vals /\ MaxLen \in Nat /\ N \in Nat
    /\ Nil \notin Arrays \union Cells
    /\ Spare \notin Vals \union Cells \union {Nil, Unset}
\* new[] finds room beside the arrays that the slices have.
ASSUME HeapAssumption ==
    \A f \in [Slices -> Arrays \union {Nil}] : Arrays \ Range(f) # {}

VARIABLES
    program, \* the program that runs: no step changes it
    win,     \* the window of each slice: array, offset, length, capacity
    store,   \* the elements of each array, up to its capacity
    arr,     \* a variable of type [N]T
    map,     \* a variable of type [int:T]
    call     \* the last call: no step reads it

vars == <<program, win, store, arr, map, call>>

\* What the next step depends on.
View == <<program, win, store, arr, map>>

NilSlice == [arr |-> Nil, off |-> 0, len |-> 0, cap |-> 0]

\* What a default constructed element is: a reference is nil, and an integer
\* that nothing initialises is whatever the memory holds.
Raw(mark) == IF program.items = "ref" THEN Nil ELSE mark

\* The value of a missing key, which a map initialises.
Default == IF program.items = "ref" THEN Nil ELSE 0

Init ==
    /\ program \in Programs
    /\ win = [v \in Slices |-> NilSlice]
    /\ store = [a \in Arrays |-> <<>>]
    /\ arr = [i \in 1 .. N |-> Default]
    /\ map = <<>>
    /\ call = [op |-> "none"]

\* A call that gives d, of s and of other operands.
Call(op, d, s, args) == call' = [op |-> op, d |-> d, s |-> s, args |-> args]

-----------------------------------------------------------------------------
(* Memory *)

ItemsOf(w, st) == IF w.arr = Nil THEN <<>>
                  ELSE SubSeq(st[w.arr], w.off + 1, w.off + w.len)
Items(v) == ItemsOf(win[v], store)

UsedArrays == {win[v].arr : v \in Slices}
UsedCells == Cells \intersect
                 (UNION {Range(store[a]) : a \in Arrays}
                      \union Range(arr) \union Range(map))

FreshArray == CHOOSE a \in Arrays : a \notin UsedArrays
FreshCells == Cells \ UsedCells

\* The array s with the items written from the place after pos on.
WriteAt(s, pos, items) ==
    [i \in DOMAIN s |-> IF i \in pos + 1 .. pos + Len(items)
                        THEN items[i - pos] ELSE s[i]]

\* d becomes w, the arrays st.  An array that no slice has any longer is freed,
\* and what no slice shows is as good as memory that was never written.
Become(d, w, st) ==
    LET next == [win EXCEPT ![d] = w]
        shows(v, a, i) == /\ next[v].arr = a
                          /\ next[v].off < i /\ i <= next[v].off + next[v].len
    IN  /\ win' = next
        /\ store' = [a \in Arrays |->
                        IF \A v \in Slices : next[v].arr # a THEN <<>>
                        ELSE [i \in DOMAIN st[a] |->
                                 IF \E v \in Slices : shows(v, a, i)
                                 THEN st[a][i] ELSE Raw(Spare)]]

\* The elements that a program has at hand: a value; a reference that something
\* refers to, nil, or a new one.
Given == IF program.items = "int" THEN Vals
         ELSE {Nil} \union UsedCells
                  \union (IF FreshCells = {} THEN {} ELSE {CHOOSE x \in FreshCells : TRUE})

\* alloc_new(0, n) filled with n elements.
Filled(d, items) ==
    LET a == FreshArray
    IN  Become(d, [arr |-> a, off |-> 0, len |-> Len(items), cap |-> Len(items)],
               [store EXCEPT ![a] = items])

-----------------------------------------------------------------------------
(* Slices *)

\* make([]T, n, c): Slice::alloc without the element to begin with, as the
\* generated code calls it for every type but enumerations.
Make(d, n, c) ==
    LET a == FreshArray
    IN  /\ Become(d, [arr |-> a, off |-> 0, len |-> n, cap |-> c],
                  [store EXCEPT ![a] =
                      [i \in 1 .. c |-> Raw(IF i <= n THEN Unset ELSE Spare)]])
        /\ Call("make", d, d, <<n, c>>)
        /\ UNCHANGED <<arr, map>>

\* []T{x}: Slice(std::initializer_list).
Literal(d, x) ==
    /\ Filled(d, <<x>>)
    /\ Call("literal", d, d, <<x>>)
    /\ UNCHANGED <<arr, map>>

\* d = s[i:j]; beyond s and for nil the code panics.
Cut(d, s, i, j) ==
    /\ win[s].arr # Nil
    /\ i <= j /\ j <= win[s].len
    /\ Become(d, [win[s] EXCEPT !.off = @ + i, !.len = j - i, !.cap = @ - i], store)
    /\ Call("cut", d, s, <<i, j>>)
    /\ UNCHANGED <<arr, map>>

\* v[i] = x: out of range the code panics.
Set(v, i, x) ==
    /\ i < win[v].len
    /\ store' = [store EXCEPT ![win[v].arr] = WriteAt(@, win[v].off + i, <<x>>)]
    /\ Call("set", v, v, <<i, x>>)
    /\ UNCHANGED <<win, arr, map>>

\* What std::copy may write when it copies the first n elements of c to the
\* place after pos in array a.  When that place is within what it reads, the
\* language leaves the result open: an implementation moves the whole memory,
\* or goes from element to element and meets what it has written.
CopyResults(c, n, a, pos) ==
    LET items == SubSeq(ItemsOf(c, store), 1, n)
        shift == pos - c.off
    IN  {items} \union
        IF c.arr = a /\ 0 < shift /\ shift < n
        THEN {[i \in 1 .. n |-> items[((i - 1) % shift) + 1]]} ELSE {}

\* Mutant: the elements are not copied to the new array.
MutantAllocForAppend(s, n) ==
    IF s.len + n <= s.cap THEN [w |-> s, st |-> store]
    ELSE LET a == FreshArray
             c == 2 * (s.len + n)
         IN  [w  |-> [arr |-> a, off |-> 0, len |-> s.len, cap |-> c],
              st |-> [store EXCEPT ![a] = [i \in 1 .. c |-> Raw(Spare)]]]

\* alloc_for_append: s itself when it has room for n more elements, else a copy
\* of it with twice the room.
AllocForAppend(s, n) ==
    IF s.len + n <= s.cap THEN [w |-> s, st |-> store]
    ELSE LET a == FreshArray
             c == 2 * (s.len + n)
         IN  [w  |-> [arr |-> a, off |-> 0, len |-> s.len, cap |-> c],
              st |-> [store EXCEPT ![a] =
                         WriteAt([i \in 1 .. c |-> Raw(Spare)], 0, ItemsOf(s, store))]]

\* Mutant: the new elements go to the beginning of the slice.
MutantAppend(d, s, c) ==
    /\ win[c].len > 0 /\ win[s].len + win[c].len <= MaxLen
    /\ LET got == AllocForAppend(win[s], win[c].len)
       IN  Become(d, [got.w EXCEPT !.len = @ + win[c].len],
                  [got.st EXCEPT ![got.w.arr] = WriteAt(@, got.w.off, Items(c))])
    /\ Call("append", d, s, <<c>>)
    /\ UNCHANGED <<arr, map>>

\* d = append(s, c...)
Append2(d, s, c) ==
    /\ win[s].len + win[c].len <= MaxLen
    /\ \/ /\ win[c].len = 0
          /\ win[s].arr # Nil \/ win[d].arr = Nil
          /\ Become(d, win[s], store)
       \/ /\ win[c].len > 0
          /\ LET got == AllocForAppend(win[s], win[c].len)
                 end == got.w.off + got.w.len
             IN  \E items \in CopyResults(win[c], win[c].len, got.w.arr, end) :
                     Become(d, [got.w EXCEPT !.len = @ + win[c].len],
                            [got.st EXCEPT ![got.w.arr] = WriteAt(@, end, items)])
    /\ Call("append", d, s, <<c>>)
    /\ UNCHANGED <<arr, map>>

\* Slice::push: into the spare room, or into a copy with twice the room.
Pushed(m, x) ==
    IF m.w.len < m.w.cap
    THEN [w  |-> [m.w EXCEPT !.len = @ + 1],
          st |-> [m.st EXCEPT ![m.w.arr] = WriteAt(@, m.w.off + m.w.len, <<x>>)]]
    ELSE LET a == FreshArray
             c == 2 * (m.w.len + 1)
         IN  [w  |-> [arr |-> a, off |-> 0, len |-> m.w.len + 1, cap |-> c],
              st |-> [m.st EXCEPT ![a] = WriteAt([i \in 1 .. c |-> Raw(Spare)], 0,
                                                 ItemsOf(m.w, m.st) \o <<x>>)]]

\* d = append(s, x, y) as it is generated when the elements are written out:
\* d is made ready first, and the elements are then evaluated and pushed one
\* after the other.  When the first one is d[0] and there is nothing yet to read,
\* it panics, and d stays as it was made ready.
AppendEach(d, s, operands) ==
    LET ready == IF d = s THEN [w |-> win[s], st |-> store]
                 ELSE AllocForAppend(win[s], Len(operands))
        value(m, x) == IF x = First THEN m.st[m.w.arr][m.w.off + 1] ELSE x
        pushed(m, x) == Pushed(m, value(m, x))
        done == IF Len(operands) = 1 THEN pushed(ready, operands[1])
                ELSE pushed(pushed(ready, operands[1]), operands[2])
    IN  /\ win[s].len + Len(operands) <= MaxLen
        /\ \/ /\ operands[1] = First => win[s].len > 0
              /\ Become(d, done.w, done.st)
              /\ Call("push", d, s, operands)
           \/ /\ operands[1] = First /\ win[s].len = 0
              /\ Become(d, ready.w, ready.st)
              /\ Call("push panics", d, s, operands)
        /\ UNCHANGED <<arr, map>>

\* copy(d, s)
Copy(d, s) ==
    LET n == IF win[d].len < win[s].len THEN win[d].len ELSE win[s].len
    IN  /\ n > 0
        /\ \E items \in CopyResults(win[s], n, win[d].arr, win[d].off) :
               store' = [store EXCEPT ![win[d].arr] = WriteAt(@, win[d].off, items)]
        /\ Call("copy", d, s, <<>>)
        /\ UNCHANGED <<win, arr, map>>

-----------------------------------------------------------------------------
(* Arrays, maps and clones *)

ArraySet(i, x) ==
    /\ arr' = [arr EXCEPT ![i] = x]
    /\ Call("set", Nil, Nil, <<i, x>>)
    /\ UNCHANGED <<win, store, map>>

\* d = arr[i:j]: the elements are copied out; an empty slice would be nil.
ArraySlice(d, i, j) ==
    /\ i < j
    /\ Filled(d, SubSeq(arr, i + 1, j))
    /\ Call("slice", d, Nil, <<i, j>>)
    /\ UNCHANGED <<arr, map>>

MapSet(k, x) ==
    /\ map' = [j \in DOMAIN map \union {k} |-> IF j = k THEN x ELSE map[j]]
    /\ Call("set", Nil, Nil, <<k, x>>)
    /\ UNCHANGED <<win, store, arr>>

\* Reading map[k] makes an entry for a key that has none.
MapRead(k) ==
    /\ k \notin DOMAIN map
    /\ map' = [j \in DOMAIN map \union {k} |-> IF j = k THEN Default ELSE map[j]]
    /\ Call("read", Nil, Nil, <<k>>)
    /\ UNCHANGED <<win, store, arr>>

\* del(k), and clear() when no key is kept.
MapKeep(keys) ==
    /\ map' = [j \in keys |-> map[j]]
    /\ Call("keep", Nil, Nil, <<>>)
    /\ UNCHANGED <<win, store, arr>>

\* map.keys() and map.values(), in the order of the hash table: any order.
Listings == Surjection(1 .. Cardinality(DOMAIN map), DOMAIN map)
MapKeys(d) ==
    /\ program.items = "int"
    /\ \E keys \in Listings : Filled(d, keys)
    /\ Call("keys", d, Nil, <<>>)
    /\ UNCHANGED <<arr, map>>
MapValues(d) ==
    /\ \E keys \in Listings : Filled(d, [i \in DOMAIN keys |-> map[keys[i]]])
    /\ Call("values", d, Nil, <<>>)
    /\ UNCHANGED <<arr, map>>

\* Mutant: a reference is cloned to itself.
MutantClones(items) == items

\* The places of references that are not nil, and what they can be cloned to.
Real(items) == {i \in DOMAIN items : items[i] \in Cells /\ program.items = "ref"}
Copies(items) == Injection(Real(items), FreshCells)

\* jule::clone of each element of a list or a map: a reference that is not nil
\* becomes a new one for every place it stands at, anything else stays what it is.
Clones(items) ==
    LET new == CHOOSE f \in Copies(items) : TRUE
    IN  [i \in DOMAIN items |-> IF i \in Real(items) THEN new[i] ELSE items[i]]

Enough(items) == Copies(items) # {}

\* The clone of a nil slice is an empty one that is not nil.
CloneSlice(d, s) ==
    /\ Enough(Items(s))
    /\ Filled(d, Clones(Items(s)))
    /\ Call("clone", d, s, <<>>)
    /\ UNCHANGED <<arr, map>>

\* arr = clone(arr)
CloneArray ==
    /\ Enough(arr)
    /\ arr' = Clones(arr)
    /\ Call("clone array", Nil, Nil, <<>>)
    /\ UNCHANGED <<win, store, map>>

\* map = clone(map)
CloneMap ==
    /\ Enough(map)
    /\ map' = Clones(map)
    /\ Call("clone map", Nil, Nil, <<>>)
    /\ UNCHANGED <<win, store, arr>>

-----------------------------------------------------------------------------
Operand == Vals \union {First}

SliceStep ==
    \E d, s \in program.slices :
        \/ \E c \in 0 .. MaxLen : \E n \in 0 .. c : d = s /\ Make(d, n, c)
        \/ \E x \in Given : d = s /\ Literal(d, x)
        \/ \E i, j \in 0 .. MaxLen : Cut(d, s, i, j)
        \/ \E i \in 0 .. MaxLen - 1, x \in Given : d = s /\ Set(d, i, x)
        \/ \E c \in program.slices : Append2(d, s, c)
        \/ \E x, y \in Operand :
               program.items = "int" /\ (AppendEach(d, s, <<x>>) \/ AppendEach(d, s, <<x, y>>))
        \/ Copy(d, s)
        \/ CloneSlice(d, s)

OtherStep ==
    /\ program.others
    /\ \/ \E i \in 1 .. N, x \in Given : ArraySet(i, x)
       \/ \E d \in program.slices, i, j \in 0 .. N : ArraySlice(d, i, j)
       \/ \E k \in Vals, x \in Given : MapSet(k, x)
       \/ \E k \in Vals : MapRead(k)
       \/ \E keys \in SUBSET DOMAIN map : MapKeep(keys)
       \/ \E d \in program.slices : MapKeys(d) \/ MapValues(d)
       \/ CloneArray
       \/ CloneMap

Next ==
    /\ UNCHANGED program
    /\ SliceStep \/ OtherStep

Spec == Init /\ [][Next]_vars

-----------------------------------------------------------------------------
\* Nobody sees the memory beyond a length: whatever grows or is cut, copied out
\* or cloned, an element was written before it can be read (alloc_for_append,
\* push, append, Array::slice, Map::keys and values, clone).
NoSpareSeen ==
    /\ \A v \in Slices : Spare \notin Range(Items(v))
    /\ Spare \notin Range(arr) \union Range(map)

\* make() returns a slice whose "field within its length is initialized with
\* the default value" (std/builtin.jule:132-134).
MadeInitialised == \A v \in Slices : Unset \notin Range(Items(v))

\* The elements of the slice that the call gives.
Result == ItemsOf(win'[call'.d], store')

\* The places, in arrays, of the elements of s, and of those that an append to s
\* may add.
Shown(s) == {<<win[s].arr, i>> : i \in win[s].off + 1 .. win[s].off + win[s].len}
Room(s) == {<<win[s].arr, i>> : i \in win[s].off + win[s].len + 1 .. win[s].off + win[s].cap}

\* append gives the elements of the one and then those of the other, in the old
\* array or in a new one, whoever shares what; the generated form with pushes
\* does the same as long as no operand reads the slice that is assigned to, or it
\* is the one that is added to and has something to read.
\* Left out is the overlap for which the language leaves std::copy open: what is
\* added begins in s and goes on where it is added.
AppendAdds ==
    [][LET d == call'.d
           s == call'.s
       IN  /\ call'.op = "append" =>
                 LET c == call'.args[1]
                 IN  Shown(c) \intersect Room(s) = {} => Result = Items(s) \o Items(c)
           /\ call'.op = "push"
              /\ (First \in Range(call'.args) => d = s /\ Items(s) # <<>>) =>
                 Result = Items(s) \o
                     [i \in DOMAIN call'.args |-> IF call'.args[i] = First THEN Items(s)[1]
                                                  ELSE call'.args[i]]]_vars

\* The operands of append are what they were when it was called: it "adds to the
\* target slice ... and returns the new allocation" (std/builtin.jule:146-149).
OperandsFirst ==
    [][call'.op = "push"
       /\ (First \in Range(call'.args) => Items(call'.d) # <<>>) =>
         LET value(x) == IF x = First THEN Items(call'.d)[1] ELSE x
         IN  Result = Items(call'.s) \o
                 [i \in DOMAIN call'.args |-> value(call'.args[i])]]_vars

\* An append changes what another slice sees only beyond the end of the slice
\* that it adds to, a copy only what the destination sees, and what is cut,
\* cloned or taken out of an array or a map changes nothing that anybody sees.
OthersKeep ==
    [][call'.op \notin {"make", "literal", "set", "read", "keep"} =>
         LET written == CASE call'.op \in {"append", "push", "push panics"} -> Room(call'.s)
                          [] call'.op = "copy" -> Shown(call'.d)
                          [] OTHER -> {}
         IN  \A v \in Slices : \A i \in 1 .. win[v].len :
                 v = call'.d \/ <<win[v].arr, win[v].off + i>> \in written
                     \/ Items(v)'[i] = Items(v)[i]]_vars

\* A clone is equal to what it was made of, and shares neither the array nor a
\* reference with anything that was there before (derive/clone.hpp).
CloneDeep ==
    [][LET copied(before, after) ==
               /\ DOMAIN after = DOMAIN before
               /\ \A i \in DOMAIN before :
                      IF program.items = "ref" /\ before[i] # Nil
                      THEN after[i] \in Cells \ UsedCells
                      ELSE after[i] = before[i]
       IN  /\ call'.op = "clone" => /\ win'[call'.d].arr \notin UsedArrays
                                   /\ copied(Items(call'.s), Result)
           /\ call'.op = "clone array" => copied(arr, arr')
           /\ call'.op = "clone map" => copied(map, map')]_vars
=============================================================================
