---------------------------- MODULE ValuesProofs ----------------------------
(***************************************************************************)
(* Proofs about the values of a Jule program: for any number of slices,    *)
(* arrays and cells about Elements, and for every rune and every string of *)
(* bytes about Text and what it rests on.                                  *)
(*                                                                         *)
(* The inductive invariant of Elements says that the window of each slice  *)
(* lies within its array and that what it shows was written; everything    *)
(* else follows from what one call writes and where (Derived).  That of    *)
(* Text says that the result is what the operation makes of the string, so *)
(* that the properties are facts about Str, Utf8 and Utf16.                *)
(***************************************************************************)
EXTENDS Elements, Text, FiniteSetTheorems, TLAPS

\* What the memory of a program holds that works with elements of a kind, and
\* what of it may be seen.
Elem(kind) == IF kind = "ref" THEN Cells \union {Nil} ELSE Vals \union {Unset, Spare}
Proper(kind) == IF kind = "ref" THEN Cells \union {Nil} ELSE Vals \union {Unset}

Window == [arr : Arrays \union {Nil}, off : Nat, len : Nat, cap : Nat]
Stores(kind) == [Arrays -> Seq(Elem(kind))]

\* The window w lies within its array among the arrays st and shows elements.
Fits(w, st, kind) ==
    /\ w \in Window
    /\ w.len <= w.cap
    /\ w.arr = Nil => w.cap = 0
    /\ w.arr # Nil => w.off + w.cap <= Len(st[w.arr])
    /\ \A i \in 1 .. w.len : st[w.arr][w.off + i] \in Proper(kind)

SlicesFit ==
    /\ program \in Programs
    /\ win \in [Slices -> Window]
    /\ store \in Stores(program.items)
    /\ \A v \in Slices : Fits(win[v], store, program.items)

OthersProper ==
    /\ arr \in [1 .. N -> Proper(program.items)]
    /\ map \in [DOMAIN map -> Proper(program.items)]
    /\ DOMAIN map \subseteq Vals /\ IsFiniteSet(DOMAIN map)

IInv == SlicesFit /\ OthersProper

-----------------------------------------------------------------------------
(* Items and writing *)

LEMMA SeqsEqual ==
    ASSUME NEW S, NEW s \in Seq(S), NEW t \in Seq(S), Len(s) = Len(t),
           \A i \in 1 .. Len(s) : s[i] = t[i]
    PROVE  s = t
    OBVIOUS

LEMMA ProperIsElem ==
    ASSUME NEW kind
    PROVE  /\ Proper(kind) \subseteq Elem(kind)
           /\ Spare \notin Proper(kind)
    BY ElementsAssumption DEF Proper, Elem

LEMMA FunctionIsSeq ==
    ASSUME NEW S, NEW n \in Nat, NEW t \in [1 .. n -> S]
    PROVE  t \in Seq(S) /\ Len(t) = n
    OBVIOUS

LEMMA Concatenated ==
    ASSUME NEW S, NEW s \in Seq(S), NEW t \in Seq(S)
    PROVE  /\ s \o t \in Seq(S) /\ Len(s \o t) = Len(s) + Len(t)
           /\ \A i \in 1 .. Len(s) : (s \o t)[i] = s[i]
           /\ \A i \in Len(s) + 1 .. Len(s) + Len(t) : (s \o t)[i] = t[i - Len(s)]
    OBVIOUS

\* A place behind l elements that is one of the next n is within the capacity.
LEMMA WithinRoom ==
    ASSUME NEW off \in Nat, NEW l \in Nat, NEW n \in Nat, NEW c \in Nat, l + n <= c,
           NEW pos \in Nat, pos = off + l, NEW i \in pos + 1 .. pos + n
    PROVE  i \in off + l + 1 .. off + c /\ i - pos \in 1 .. n
    OBVIOUS

\* What a window shows, element by element.
LEMMA ItemsAre ==
    ASSUME NEW kind, NEW st \in Stores(kind), NEW w, Fits(w, st, kind)
    PROVE  /\ ItemsOf(w, st) \in Seq(Proper(kind))
           /\ Len(ItemsOf(w, st)) = w.len
           /\ \A i \in 1 .. w.len : ItemsOf(w, st)[i] = st[w.arr][w.off + i]
<1>1. CASE w.arr = Nil
    <2>1. w.len = 0
        BY <1>1 DEF Fits, Window
    <2> QED
        BY <1>1, <2>1 DEF ItemsOf
<1>2. CASE w.arr # Nil
    <2> DEFINE s == st[w.arr]
    <2>1. /\ w.arr \in Arrays
          /\ w.off \in Nat /\ w.len \in Nat /\ w.cap \in Nat
          /\ w.off + w.len <= Len(s)
        BY <1>2 DEF Fits, Window
    <2>2. s \in Seq(Elem(kind))
        BY <2>1 DEF Stores
    <2>3. ItemsOf(w, st) = SubSeq(s, w.off + 1, w.off + w.len)
        BY <1>2 DEF ItemsOf
    <2> HIDE DEF s
    <2>4. SubSeq(s, w.off + 1, w.off + w.len)
              = [i \in 1 .. w.len |-> s[w.off + i]]
        BY <2>1, <2>2
    <2>5. \A i \in 1 .. w.len : s[w.off + i] \in Proper(kind)
        BY DEF Fits, s
    <2>6. /\ [i \in 1 .. w.len |-> s[w.off + i]] \in Seq(Proper(kind))
          /\ Len([i \in 1 .. w.len |-> s[w.off + i]]) = w.len
        BY <2>1, <2>5
    <2>7. \A i \in 1 .. w.len : [j \in 1 .. w.len |-> s[w.off + j]][i] = s[w.off + i]
        OBVIOUS
    <2> QED
        BY <2>3, <2>4, <2>6, <2>7 DEF s
<1> QED
    BY <1>1, <1>2

\* Windows that show the same at each place show the same.
LEMMA SameItems ==
    ASSUME NEW kind,
           NEW st \in Stores(kind), NEW w, Fits(w, st, kind),
           NEW su \in Stores(kind), NEW u, Fits(u, su, kind),
           w.len = u.len,
           \A i \in 1 .. w.len : st[w.arr][w.off + i] = su[u.arr][u.off + i]
    PROVE  ItemsOf(w, st) = ItemsOf(u, su)
<1>1. /\ ItemsOf(w, st) \in Seq(Proper(kind)) /\ Len(ItemsOf(w, st)) = w.len
      /\ \A i \in 1 .. w.len : ItemsOf(w, st)[i] = st[w.arr][w.off + i]
    BY ItemsAre
<1>2. /\ ItemsOf(u, su) \in Seq(Proper(kind)) /\ Len(ItemsOf(u, su)) = u.len
      /\ \A i \in 1 .. u.len : ItemsOf(u, su)[i] = su[u.arr][u.off + i]
    BY ItemsAre
<1> QED
    BY <1>1, <1>2, SeqsEqual

\* What WriteAt writes, and that it writes nothing else.
LEMMA Written ==
    ASSUME NEW S, NEW s \in Seq(S), NEW pos \in Nat, NEW items \in Seq(S)
    PROVE  /\ WriteAt(s, pos, items) \in Seq(S)
           /\ Len(WriteAt(s, pos, items)) = Len(s)
           /\ \A i \in 1 .. Len(s) :
                  WriteAt(s, pos, items)[i] =
                      IF i \in pos + 1 .. pos + Len(items) THEN items[i - pos] ELSE s[i]
<1> DEFINE t == [i \in 1 .. Len(s) |-> IF i \in pos + 1 .. pos + Len(items)
                                        THEN items[i - pos] ELSE s[i]]
<1>1. \A i \in 1 .. Len(s) : t[i] \in S
    <2> SUFFICES ASSUME NEW i \in 1 .. Len(s) PROVE t[i] \in S
        OBVIOUS
    <2>1. CASE i \in pos + 1 .. pos + Len(items)
        <3>1. i - pos \in 1 .. Len(items)
            BY <2>1
        <3>2. items[i - pos] \in S
            BY <3>1
        <3> QED
            BY <2>1, <3>2
    <2>2. CASE i \notin pos + 1 .. pos + Len(items)
        BY <2>2
    <2> QED
        BY <2>1, <2>2
<1>2. DOMAIN s = 1 .. Len(s)
    OBVIOUS
<1>3. WriteAt(s, pos, items) = t
    BY <1>2 DEF WriteAt
<1> QED
    BY <1>1, <1>3

\* The arrays st when the items are written behind the end of w, and w with them.
Extended(st, w, items) == [st EXCEPT ![w.arr] = WriteAt(@, w.off + w.len, items)]
Longer(w, n) == [w EXCEPT !.len = @ + n]

\* The places behind the end of w that are w's to use.
RoomOf(w) == {<<w.arr, i>> : i \in w.off + w.len + 1 .. w.off + w.cap}

\* The places of x that are not in the room of w hold in su what they hold in st.
SameOutside(x, su, st, w) ==
    \A i \in 1 .. x.len :
        \/ <<x.arr, x.off + i>> \in RoomOf(w)
        \/ su[x.arr][x.off + i] = st[x.arr][x.off + i]

\* Writing to the memory of a window behind its end adds to what it shows, and
\* leaves what any window shows before that end.
LEMMA WrittenBehind ==
    ASSUME NEW kind, NEW st \in Stores(kind), NEW w, Fits(w, st, kind),
           NEW items \in Seq(Proper(kind)),
           items # <<>>, w.len + Len(items) <= w.cap
    PROVE  LET su == Extended(st, w, items)
               u == Longer(w, Len(items))
           IN  /\ su \in Stores(kind) /\ Fits(u, su, kind)
               /\ ItemsOf(u, su) = ItemsOf(w, st) \o items
               /\ \A x : Fits(x, st, kind) =>
                      Fits(x, su, kind) /\ SameOutside(x, su, st, w)
<1> DEFINE pos == w.off + w.len
           su == Extended(st, w, items)
           u == Longer(w, Len(items))
<1>0. pos = w.off + w.len
    OBVIOUS
<1> HIDE DEF pos, su, u
<1>1. /\ w \in Window /\ w.arr \in Arrays
      /\ w.off \in Nat /\ w.len \in Nat /\ w.cap \in Nat /\ pos \in Nat
      /\ w.off + w.cap <= Len(st[w.arr])
      /\ Len(items) \in Nat /\ Len(items) > 0 /\ w.len + Len(items) <= w.cap
    BY <1>0 DEF Fits, Window
<1>2. st[w.arr] \in Seq(Elem(kind)) /\ items \in Seq(Elem(kind))
    BY <1>1, ProperIsElem DEF Stores
<1>3. /\ su[w.arr] \in Seq(Elem(kind))
      /\ Len(su[w.arr]) = Len(st[w.arr])
      /\ \A i \in 1 .. Len(st[w.arr]) :
             su[w.arr][i] = IF i \in pos + 1 .. pos + Len(items)
                            THEN items[i - pos] ELSE st[w.arr][i]
    <2>1. su[w.arr] = WriteAt(st[w.arr], pos, items)
        BY <1>0, <1>1 DEF Stores, su, Extended
    <2> QED
        BY <1>1, <1>2, <2>1, Written
<1>4. \A a \in Arrays : a # w.arr => su[a] = st[a]
    BY DEF Stores, su, Extended
<1>5. su \in Stores(kind)
    <2>1. DOMAIN su = Arrays
        BY DEF Stores, su, Extended
    <2>2. su = [a \in Arrays |-> su[a]]
        BY <2>1 DEF Stores, su, Extended
    <2> QED
        BY <1>3, <1>4, <2>2 DEF Stores
<1>6. /\ u \in Window /\ u.arr = w.arr /\ u.off = w.off /\ u.cap = w.cap
      /\ u.len = w.len + Len(items)
    BY <1>1 DEF Window, u, Longer
<1>7. \A i \in 1 .. w.len : su[w.arr][w.off + i] = st[w.arr][w.off + i]
    <2> TAKE i \in 1 .. w.len
    <2>1. w.off + i \in 1 .. Len(st[w.arr]) /\ w.off + i \notin pos + 1 .. pos + Len(items)
        BY <1>0, <1>1
    <2> QED
        BY <1>3, <2>1
<1>8. \A i \in 1 .. Len(items) : su[w.arr][pos + i] = items[i]
    <2> TAKE i \in 1 .. Len(items)
    <2>1. /\ pos + i \in 1 .. Len(st[w.arr]) /\ pos + i \in pos + 1 .. pos + Len(items)
          /\ (pos + i) - pos = i
        <3>1. pos + i \in pos + 1 .. pos + Len(items) /\ (pos + i) - pos = i
            BY <1>1
        <3> DEFINE j == pos + i
        <3>2. j \in pos + 1 .. pos + Len(items)
            BY <3>1
        <3> HIDE DEF j
        <3>3. j \in w.off + w.len + 1 .. w.off + w.cap
            BY <1>0, <1>1, <3>2, WithinRoom
        <3>4. j \in 1 .. Len(st[w.arr])
            BY <1>1, <3>3
        <3> QED
            BY <3>1, <3>4 DEF j
    <2> QED
        BY <1>3, <2>1
<1>9. Fits(u, su, kind)
    <2>1. ASSUME NEW i \in 1 .. u.len PROVE su[u.arr][u.off + i] \in Proper(kind)
        <3>1. CASE i <= w.len
            BY <1>1, <1>6, <1>7, <3>1 DEF Fits
        <3>2. CASE i > w.len
            <4>1. i - w.len \in 1 .. Len(items) /\ u.off + i = pos + (i - w.len)
                BY <1>0, <1>1, <1>6, <3>2
            <4>2. su[w.arr][pos + (i - w.len)] = items[i - w.len]
                BY <1>8, <4>1
            <4> QED
                BY <1>6, <4>1, <4>2
        <3> QED
            BY <1>1, <1>6, <3>1, <3>2
    <2> QED
        BY <1>1, <1>3, <1>6, <2>1 DEF Fits
<1>10. ItemsOf(u, su) = ItemsOf(w, st) \o items
    <2>1. /\ ItemsOf(w, st) \in Seq(Proper(kind)) /\ Len(ItemsOf(w, st)) = w.len
          /\ \A i \in 1 .. w.len : ItemsOf(w, st)[i] = st[w.arr][w.off + i]
        BY ItemsAre
    <2>2. /\ ItemsOf(u, su) \in Seq(Proper(kind)) /\ Len(ItemsOf(u, su)) = u.len
          /\ \A i \in 1 .. u.len : ItemsOf(u, su)[i] = su[u.arr][u.off + i]
        BY <1>5, <1>9, ItemsAre
    <2> DEFINE both == ItemsOf(w, st) \o items
    <2>3. /\ both \in Seq(Proper(kind)) /\ Len(both) = w.len + Len(items)
          /\ \A i \in 1 .. w.len : both[i] = ItemsOf(w, st)[i]
          /\ \A i \in w.len + 1 .. w.len + Len(items) : both[i] = items[i - w.len]
        <3> HIDE DEF both
        <3>1. both = ItemsOf(w, st) \o items
            BY DEF both
        <3> DEFINE before == ItemsOf(w, st)
        <3>2. before \in Seq(Proper(kind)) /\ Len(before) = w.len
            BY <2>1
        <3> HIDE DEF before
        <3>3. /\ before \o items \in Seq(Proper(kind))
              /\ Len(before \o items) = Len(before) + Len(items)
              /\ \A i \in 1 .. Len(before) : (before \o items)[i] = before[i]
              /\ \A i \in Len(before) + 1 .. Len(before) + Len(items) :
                     (before \o items)[i] = items[i - Len(before)]
            BY <3>2, Concatenated
        <3>4. both = before \o items
            BY <3>1 DEF before
        <3> HIDE DEF both
        <3>5. /\ both \in Seq(Proper(kind)) /\ Len(both) = w.len + Len(items)
              /\ \A i \in 1 .. w.len : both[i] = before[i]
              /\ \A i \in w.len + 1 .. w.len + Len(items) : both[i] = items[i - w.len]
            BY <3>2, <3>3, <3>4
        <3> QED
            BY <3>5 DEF before
    <2> HIDE DEF both
    <2>4. ASSUME NEW i \in 1 .. u.len PROVE ItemsOf(u, su)[i] = both[i]
        <3>1. CASE i <= w.len
            <4>1. i \in 1 .. w.len
                BY <1>1, <1>6, <3>1
            <4> QED
                BY <1>6, <1>7, <2>1, <2>2, <2>3, <4>1
        <3>2. CASE i > w.len
            <4>1. i - w.len \in 1 .. Len(items) /\ u.off + i = pos + (i - w.len)
                  /\ i \in w.len + 1 .. w.len + Len(items)
                BY <1>0, <1>1, <1>6, <3>2
            <4>2. su[w.arr][pos + (i - w.len)] = items[i - w.len]
                BY <1>8, <4>1
            <4> QED
                BY <1>6, <2>2, <2>3, <4>1, <4>2
        <3> QED
            BY <1>1, <1>6, <3>1, <3>2
    <2>5. ItemsOf(u, su) = both
        BY <1>6, <2>2, <2>3, <2>4, SeqsEqual
    <2> QED
        BY <2>5 DEF both
<1>11. ASSUME NEW x, Fits(x, st, kind)
       PROVE  Fits(x, su, kind) /\ SameOutside(x, su, st, w)
    <2>1. /\ x \in Window /\ x.off \in Nat /\ x.len \in Nat /\ x.cap \in Nat /\ x.len <= x.cap
          /\ x.arr = Nil => x.cap = 0
          /\ x.arr # Nil => x.arr \in Arrays /\ x.off + x.cap <= Len(st[x.arr])
        BY <1>11 DEF Fits, Window
    <2>2. ASSUME NEW i \in 1 .. x.len
          PROVE  /\ su[x.arr][x.off + i] \in Proper(kind)
                 /\ \/ <<x.arr, x.off + i>> \in RoomOf(w)
                    \/ su[x.arr][x.off + i] = st[x.arr][x.off + i]
        <3>1. st[x.arr][x.off + i] \in Proper(kind)
            BY <1>11 DEF Fits
        <3>2. x.arr \in Arrays /\ x.off + i \in 1 .. Len(st[x.arr])
            BY <2>1
        <3>3. CASE x.arr # w.arr
            BY <1>4, <3>1, <3>2, <3>3
        <3>4. CASE x.arr = w.arr /\ x.off + i \notin pos + 1 .. pos + Len(items)
            BY <1>3, <3>1, <3>2, <3>4
        <3>5. CASE x.arr = w.arr /\ x.off + i \in pos + 1 .. pos + Len(items)
            <4>1. su[x.arr][x.off + i] = items[(x.off + i) - pos]
                BY <1>3, <3>2, <3>5
            <4>2. (x.off + i) - pos \in 1 .. Len(items)
                <5>1. x.off + i \in Int
                    BY <2>1
                <5> QED
                    BY <1>1, <3>5, <5>1
            <4>3. x.off + i \in w.off + w.len + 1 .. w.off + w.cap
                BY <1>0, <1>1, <3>5, WithinRoom
            <4>4. <<x.arr, x.off + i>> \in RoomOf(w)
                BY <3>5, <4>3 DEF RoomOf
            <4> QED
                BY <4>1, <4>2, <4>4
        <3> QED
            BY <3>3, <3>4, <3>5
    <2>3. x.arr # Nil => x.off + x.cap <= Len(su[x.arr])
        BY <1>3, <1>4, <2>1
    <2> QED
        BY <2>1, <2>2, <2>3 DEF Fits, SameOutside
<1> QED
    BY <1>5, <1>9, <1>10, <1>11 DEF su, u

-----------------------------------------------------------------------------
(* New arrays, and what the slices show after a call *)

\* new[] gives an array that no slice has.
LEMMA FreshIsNew ==
    ASSUME SlicesFit
    PROVE  /\ FreshArray \in Arrays /\ FreshArray \notin UsedArrays
           /\ \A v \in Slices : win[v].arr # FreshArray
<1> DEFINE f == [v \in Slices |-> win[v].arr]
<1>1. f \in [Slices -> Arrays \union {Nil}]
    BY DEF SlicesFit, Window
<1>2. Range(f) = UsedArrays
    BY DEF Range, UsedArrays
<1>3. \E a \in Arrays : a \notin UsedArrays
    BY <1>1, <1>2, HeapAssumption
<1>4. FreshArray \in Arrays /\ FreshArray \notin UsedArrays
    BY <1>3 DEF FreshArray
<1> QED
    BY <1>4 DEF UsedArrays

\* The arrays st when s is the array a.
Put(st, a, s) == [st EXCEPT ![a] = s]

\* An array that a window does not have is written without it.
LEMMA ElsewhereKept ==
    ASSUME NEW kind, NEW st \in Stores(kind), NEW a \in Arrays, NEW s \in Seq(Elem(kind)),
           NEW x, Fits(x, st, kind), x.arr # a
    PROVE  LET su == Put(st, a, s)
           IN  /\ su \in Stores(kind)
               /\ Fits(x, su, kind)
               /\ ItemsOf(x, su) = ItemsOf(x, st)
<1> DEFINE su == Put(st, a, s)
<1>1. su \in Stores(kind)
    BY DEF Put, Stores
<1>2. ASSUME x.arr # Nil PROVE x.arr \in Arrays /\ su[x.arr] = st[x.arr]
    BY <1>2 DEF Put, Stores, Fits, Window
<1>3. x.arr = Nil => 1 .. x.len = {}
    BY DEF Fits, Window
<1> HIDE DEF su
<1>4. Fits(x, su, kind)
    BY <1>2, <1>3 DEF Fits
<1>5. ItemsOf(x, su) = ItemsOf(x, st)
    BY <1>2 DEF ItemsOf
<1> QED
    BY <1>1, <1>4, <1>5 DEF su

\* The window of a new array.
NewWindow(a, n, c) == [arr |-> a, off |-> 0, len |-> n, cap |-> c]

LEMMA NewWindowFits ==
    ASSUME NEW kind, NEW st \in Stores(kind), NEW a \in Arrays, NEW s \in Seq(Elem(kind)),
           NEW n \in Nat, n <= Len(s), \A i \in 1 .. n : s[i] \in Proper(kind)
    PROVE  LET su == Put(st, a, s)
               w == NewWindow(a, n, Len(s))
           IN  /\ su \in Stores(kind)
               /\ Fits(w, su, kind)
               /\ ItemsOf(w, su) = SubSeq(s, 1, n)
<1> DEFINE su == Put(st, a, s)
           w == NewWindow(a, n, Len(s))
<1>1. su \in Stores(kind) /\ su[a] = s
    BY DEF Put, Stores
<1>2. /\ w \in Window
      /\ w.arr = a /\ w.off = 0 /\ w.len = n /\ w.cap = Len(s)
    BY DEF NewWindow, Window
<1>3. a # Nil
    BY ElementsAssumption
<1> HIDE DEF su, w
<1>4. Fits(w, su, kind)
    BY <1>1, <1>2, <1>3 DEF Fits
<1>5. ItemsOf(w, su) = SubSeq(s, 1, n)
    BY <1>1, <1>2, <1>3 DEF ItemsOf
<1> QED
    BY <1>1, <1>4, <1>5 DEF su, w

\* The windows when d has become w.
Given2(d, w) == [win EXCEPT ![d] = w]

LEMMA BecomeShows ==
    ASSUME SlicesFit, NEW d \in Slices, NEW w, NEW st \in Stores(program.items),
           \A v \in Slices : Fits(Given2(d, w)[v], st, program.items),
           Become(d, w, st), UNCHANGED program
    PROVE  /\ SlicesFit'
           /\ win' = Given2(d, w) /\ win'[d] = w
           /\ \A v \in Slices : v # d => win'[v] = win[v]
           /\ \A v \in Slices : ItemsOf(win'[v], store') = ItemsOf(win'[v], st)
<1> DEFINE kind == program.items
           next == Given2(d, w)
<1>1. /\ win' = next /\ win'[d] = w
      /\ \A v \in Slices : v # d => win'[v] = win[v]
    BY DEF Become, SlicesFit, Given2
<1>2. \A v \in Slices : Fits(next[v], st, kind)
    OBVIOUS
<1>3. next \in [Slices -> Window]
    <2>1. w \in Window
        BY <1>1, <1>2 DEF Fits
    <2> QED
        BY <2>1 DEF SlicesFit, Given2
<1>4. Raw(Spare) \in Elem(kind)
    BY DEF Raw, Elem
<1> DEFINE shows(v, a, i) == /\ next[v].arr = a
                             /\ next[v].off < i /\ i <= next[v].off + next[v].len
           left(a) == [i \in DOMAIN st[a] |->
                          IF \E v \in Slices : shows(v, a, i) THEN st[a][i] ELSE Raw(Spare)]
<1>5. store' = [a \in Arrays |-> IF \A v \in Slices : next[v].arr # a THEN <<>> ELSE left(a)]
    BY DEF Become, Given2
<1>6. ASSUME NEW a \in Arrays
      PROVE  /\ left(a) \in Seq(Elem(kind)) /\ Len(left(a)) = Len(st[a])
             /\ \A i \in 1 .. Len(st[a]) :
                    (\E v \in Slices : shows(v, a, i)) => left(a)[i] = st[a][i]
    <2>1. st[a] \in Seq(Elem(kind)) /\ DOMAIN st[a] = 1 .. Len(st[a]) /\ Len(st[a]) \in Nat
        BY DEF Stores
    <2>2. \A i \in 1 .. Len(st[a]) : st[a][i] \in Elem(kind)
        BY <2>1
    <2> DEFINE t == [i \in 1 .. Len(st[a]) |->
                        IF \E v \in Slices : shows(v, a, i) THEN st[a][i] ELSE Raw(Spare)]
    <2>3. \A i \in 1 .. Len(st[a]) : t[i] \in Elem(kind)
        BY <1>4, <2>2
    <2>4. left(a) = t
        BY <2>1
    <2>5. \A i \in 1 .. Len(st[a]) : (\E v \in Slices : shows(v, a, i)) => t[i] = st[a][i]
        OBVIOUS
    <2>6. t \in Seq(Elem(kind)) /\ Len(t) = Len(st[a])
        <3>1. t \in [1 .. Len(st[a]) -> Elem(kind)]
            <4> HIDE DEF shows, kind
            <4> QED
                BY <2>3
        <3> HIDE DEF t
        <3> QED
            BY <2>1, <3>1, FunctionIsSeq
    <2> HIDE DEF t, shows, left
    <2> QED
        BY <2>4, <2>5, <2>6
<1> HIDE DEF left
<1>7. store' \in Stores(kind)
    <2>1. ASSUME NEW a \in Arrays PROVE store'[a] \in Seq(Elem(kind))
        <3>1. <<>> \in Seq(Elem(kind))
            OBVIOUS
        <3>2. store'[a] = <<>> \/ store'[a] = left(a)
            BY <1>5
        <3> HIDE DEF kind
        <3> QED
            BY <1>6, <3>1, <3>2
    <2>2. store' = [a \in Arrays |-> store'[a]]
        BY <1>5
    <2> QED
        BY <2>1, <2>2 DEF Stores
<1>8. ASSUME NEW v \in Slices, next[v].arr # Nil
      PROVE  /\ next[v].arr \in Arrays
             /\ Len(store'[next[v].arr]) = Len(st[next[v].arr])
             /\ \A i \in 1 .. next[v].len :
                    store'[next[v].arr][next[v].off + i] = st[next[v].arr][next[v].off + i]
    <2> DEFINE x == next[v]
    <2>1. /\ x.arr \in Arrays /\ x.off \in Nat /\ x.len \in Nat /\ x.cap \in Nat
          /\ x.len <= x.cap /\ x.off + x.cap <= Len(st[x.arr])
        BY <1>2, <1>8 DEF Fits, Window
    <2>2. store'[x.arr] = left(x.arr)
        BY <1>5, <2>1
    <2>3. ASSUME NEW i \in 1 .. x.len
          PROVE  x.off + i \in 1 .. Len(st[x.arr]) /\ shows(v, x.arr, x.off + i)
        <3>1. st[x.arr] \in Seq(Elem(kind))
            BY <2>1 DEF Stores
        <3>2. Len(st[x.arr]) \in Nat
            BY <3>1
        <3> HIDE DEF x
        <3>3. x.off + i \in 1 .. Len(st[x.arr]) /\ x.off < x.off + i /\ x.off + i <= x.off + x.len
            BY <2>1, <3>2
        <3> QED
            BY <3>3 DEF x
    <2> HIDE DEF x, shows
    <2> QED
        BY <1>6, <2>1, <2>2, <2>3 DEF x
<1>9. ASSUME NEW v \in Slices PROVE Fits(next[v], store', kind)
    <2>1. CASE next[v].arr = Nil
        <3>1. 1 .. next[v].len = {}
            BY <1>2, <2>1 DEF Fits, Window
        <3> QED
            BY <1>2, <2>1, <3>1 DEF Fits
    <2>2. CASE next[v].arr # Nil
        BY <1>2, <1>8, <2>2 DEF Fits
    <2> QED
        BY <2>1, <2>2
<1>10. ASSUME NEW v \in Slices PROVE ItemsOf(next[v], store') = ItemsOf(next[v], st)
    <2>1. CASE next[v].arr = Nil
        BY <2>1 DEF ItemsOf
    <2>2. CASE next[v].arr # Nil
        <3> HIDE DEF next
        <3> QED
            BY <1>2, <1>7, <1>8, <1>9, <2>2, SameItems
    <2> QED
        BY <2>1, <2>2
<1> HIDE DEF next
<1>11. SlicesFit'
    BY <1>1, <1>3, <1>7, <1>9 DEF SlicesFit
<1> QED
    BY <1>1, <1>10, <1>11 DEF next

LEMMA WholeSeq ==
    ASSUME NEW S, NEW s \in Seq(S)
    PROVE  SubSeq(s, 1, Len(s)) = s
    OBVIOUS

\* What every slice but d shows stays.
OthersStay(d) == \A v \in Slices : v # d => win'[v] = win[v] /\ Items(v)' = Items(v)

\* A new array a with what s holds: the slice d shows the first n elements of
\* it, the others what they showed.
LEMMA FreshGives ==
    ASSUME SlicesFit, UNCHANGED program, NEW d \in Slices,
           NEW s \in Seq(Elem(program.items)), NEW n \in Nat, n <= Len(s),
           \A i \in 1 .. n : s[i] \in Proper(program.items),
           Become(d, NewWindow(FreshArray, n, Len(s)), Put(store, FreshArray, s))
    PROVE  /\ SlicesFit'
           /\ win'[d].arr = FreshArray
           /\ Items(d)' = SubSeq(s, 1, n)
           /\ OthersStay(d)
<1> DEFINE kind == program.items
           a == FreshArray
           st == Put(store, a, s)
           w == NewWindow(a, n, Len(s))
<1>1. a \in Arrays /\ \A v \in Slices : win[v].arr # a
    BY FreshIsNew
<1>2. store \in Stores(kind) /\ \A v \in Slices : Fits(win[v], store, kind)
    BY DEF SlicesFit
<1>0. s \in Seq(Elem(kind)) /\ \A i \in 1 .. n : s[i] \in Proper(kind)
    OBVIOUS
<1>3. /\ st \in Stores(kind) /\ Fits(w, st, kind)
      /\ ItemsOf(w, st) = SubSeq(s, 1, n)
    <2> HIDE DEF kind, a
    <2> QED
        BY <1>0, <1>1, <1>2, NewWindowFits
<1>4. ASSUME NEW v \in Slices
      PROVE  Fits(win[v], st, kind) /\ ItemsOf(win[v], st) = ItemsOf(win[v], store)
    <2> HIDE DEF kind, a
    <2> QED
        BY <1>0, <1>1, <1>2, ElsewhereKept
<1>5. ASSUME NEW v \in Slices
      PROVE  Given2(d, w)[v] = IF v = d THEN w ELSE win[v]
    BY DEF Given2, SlicesFit
<1>6. Become(d, w, st)
    OBVIOUS
<1>7. w.arr = a
    BY DEF NewWindow
<1> HIDE DEF w, st, a
<1>8. \A v \in Slices : Fits(Given2(d, w)[v], st, kind)
    BY <1>3, <1>4, <1>5
<1>9. /\ SlicesFit' /\ win'[d] = w
      /\ \A v \in Slices : v # d => win'[v] = win[v]
      /\ \A v \in Slices : ItemsOf(win'[v], store') = ItemsOf(win'[v], st)
    BY <1>3, <1>6, <1>8, BecomeShows
<1> QED
    BY <1>3, <1>4, <1>7, <1>9 DEF OthersStay, Items, a

\* alloc_new(0, n) filled with elements that may be seen.
LEMMA FilledGives ==
    ASSUME SlicesFit, UNCHANGED program, NEW d \in Slices,
           NEW items \in Seq(Proper(program.items)), Filled(d, items)
    PROVE  /\ SlicesFit'
           /\ win'[d].arr \notin UsedArrays
           /\ Items(d)' = items
           /\ OthersStay(d)
<1> DEFINE kind == program.items
<1>1. items \in Seq(Elem(kind)) /\ Len(items) \in Nat
    BY ProperIsElem
<1>2. \A i \in 1 .. Len(items) : items[i] \in Proper(kind)
    OBVIOUS
<1>3. Become(d, NewWindow(FreshArray, Len(items), Len(items)),
             Put(store, FreshArray, items))
    BY DEF Filled, NewWindow, Put
<1>4. /\ SlicesFit' /\ win'[d].arr = FreshArray
      /\ Items(d)' = SubSeq(items, 1, Len(items)) /\ OthersStay(d)
    BY <1>1, <1>2, <1>3, FreshGives
<1> QED
    BY <1>4, FreshIsNew, WholeSeq

-----------------------------------------------------------------------------
(* Growing *)

\* The memory of a new array of n elements behind the given ones.
Behind(items, n) == WriteAt([i \in 1 .. n |-> Raw(Spare)], 0, items)

LEMMA BehindIs ==
    ASSUME program \in Programs, NEW items \in Seq(Proper(program.items)),
           NEW n \in Nat, Len(items) <= n
    PROVE  /\ Behind(items, n) \in Seq(Elem(program.items))
           /\ Len(Behind(items, n)) = n
           /\ \A i \in 1 .. Len(items) : Behind(items, n)[i] \in Proper(program.items)
           /\ SubSeq(Behind(items, n), 1, Len(items)) = items
<1> DEFINE kind == program.items
           raw == [i \in 1 .. n |-> Raw(Spare)]
           s == Behind(items, n)
<1>1. Raw(Spare) \in Elem(kind)
    BY DEF Raw, Elem
<1>2. raw \in Seq(Elem(kind)) /\ Len(raw) = n
    <2>1. raw \in [1 .. n -> Elem(kind)]
        BY <1>1
    <2> HIDE DEF raw
    <2> QED
        BY <2>1, FunctionIsSeq
<1>3. items \in Seq(Elem(kind)) /\ Len(items) \in Nat
    BY ProperIsElem
<1>4. s = WriteAt(raw, 0, items)
    BY DEF Behind
<1> HIDE DEF raw, s, kind
<1>5. /\ s \in Seq(Elem(kind)) /\ Len(s) = n
      /\ \A i \in 1 .. n : s[i] = IF i \in 0 + 1 .. 0 + Len(items) THEN items[i - 0] ELSE raw[i]
    BY <1>2, <1>3, <1>4, Written
<1>6. \A i \in 1 .. Len(items) : s[i] = items[i]
    BY <1>3, <1>5
<1>7. \A i \in 1 .. Len(items) : items[i] \in Proper(kind)
    BY DEF kind
<1>8. SubSeq(s, 1, Len(items)) = [i \in 1 .. Len(items) |-> s[i]]
    BY <1>3, <1>5
<1>9. SubSeq(s, 1, Len(items)) = items
    <2>1. items = [i \in 1 .. Len(items) |-> items[i]]
        OBVIOUS
    <2> QED
        BY <1>6, <1>8, <2>1
<1> QED
    BY <1>5, <1>6, <1>7, <1>9 DEF s, kind

\* m is what comes of adding to s, up to now: a window w, in the memory of s or
\* in a new array, that shows the items, and memory in which only the room of s
\* may have changed for the slices.
Derived(m, s, items) ==
    /\ m.st \in Stores(program.items)
    /\ Fits(m.w, m.st, program.items)
    /\ ItemsOf(m.w, m.st) = items
    /\ \/ /\ m.w.arr = win[s].arr /\ m.w.off = win[s].off
          /\ m.w.cap = win[s].cap /\ win[s].len <= m.w.len
       \/ \A v \in Slices : win[v].arr # m.w.arr
    /\ \A v \in Slices :
           /\ Fits(win[v], m.st, program.items)
           /\ SameOutside(win[v], m.st, store, win[s])

Memory(w, st) == [w |-> w, st |-> st]

LEMMA NothingAdded ==
    ASSUME SlicesFit, NEW s \in Slices
    PROVE  Derived(Memory(win[s], store), s, Items(s))
<1>1. win[s].len \in Nat
    BY DEF SlicesFit, Window
<1> QED
    BY <1>1 DEF Derived, Memory, SlicesFit, Items, SameOutside

\* What was added is shown by a window in a new array as well, when that array
\* is written instead.
LEMMA Moved ==
    ASSUME SlicesFit, NEW s \in Slices, NEW m, NEW items, Derived(m, s, items),
           NEW more \in Seq(Proper(program.items)),
           NEW n \in Nat, Len(more) <= n
    PROVE  Derived(Memory(NewWindow(FreshArray, Len(more), n),
                          Put(m.st, FreshArray, Behind(more, n))), s, more)
<1> DEFINE kind == program.items
           a == FreshArray
           cells == Behind(more, n)
           su == Put(m.st, a, cells)
           w == NewWindow(a, Len(more), n)
           new == Memory(w, su)
<1>1. a \in Arrays /\ \A v \in Slices : win[v].arr # a
    BY FreshIsNew
<1>2. /\ cells \in Seq(Elem(kind)) /\ Len(cells) = n
      /\ \A i \in 1 .. Len(more) : cells[i] \in Proper(kind)
      /\ SubSeq(cells, 1, Len(more)) = more
    BY BehindIs DEF SlicesFit
<1>3. /\ m.st \in Stores(kind)
      /\ \A v \in Slices :
           /\ Fits(win[v], m.st, kind)
           /\ SameOutside(win[v], m.st, store, win[s])
    BY DEF Derived
<1>4. Len(more) \in Nat /\ w.arr = a /\ new.w = w /\ new.st = su
    BY DEF NewWindow, Memory
<1> HIDE DEF a, cells, kind
<1>5. su \in Stores(kind) /\ Fits(w, su, kind) /\ ItemsOf(w, su) = more
    BY <1>1, <1>2, <1>3, <1>4, NewWindowFits
<1>6. ASSUME NEW v \in Slices
      PROVE  /\ Fits(win[v], su, kind)
             /\ SameOutside(win[v], su, store, win[s])
    <2>1. Fits(win[v], su, kind)
        BY <1>1, <1>2, <1>3, ElsewhereKept
    <2>2. su[win[v].arr] = m.st[win[v].arr] \/ win[v].len = 0
        <3>1. CASE win[v].arr \in Arrays
            BY <1>1, <1>3, <3>1 DEF Put, Stores
        <3>2. CASE win[v].arr \notin Arrays
            BY <2>1, <3>2 DEF Fits, Window
        <3> QED
            BY <3>1, <3>2
    <2>3. ASSUME win[v].len = 0 PROVE 1 .. win[v].len = {}
        BY <2>3
    <2> QED
        BY <1>3, <2>1, <2>2, <2>3 DEF SameOutside
<1> HIDE DEF w, su, new
<1> QED
    BY <1>1, <1>4, <1>5, <1>6 DEF Derived, w, su, new, a, cells, kind

\* Items are written behind what was added, where there is room for them.
LEMMA Added ==
    ASSUME SlicesFit, NEW s \in Slices, NEW m, NEW items, Derived(m, s, items),
           NEW more \in Seq(Proper(program.items)),
           more # <<>>, m.w.len + Len(more) <= m.w.cap
    PROVE  Derived(Memory(Longer(m.w, Len(more)), Extended(m.st, m.w, more)), s, items \o more)
<1> DEFINE kind == program.items
           su == Extended(m.st, m.w, more)
           u == Longer(m.w, Len(more))
           new == Memory(u, su)
<1>1. /\ m.st \in Stores(kind) /\ Fits(m.w, m.st, kind) /\ ItemsOf(m.w, m.st) = items
      /\ \A v \in Slices :
           /\ Fits(win[v], m.st, kind)
           /\ SameOutside(win[v], m.st, store, win[s])
    BY DEF Derived
<1>2. \/ /\ m.w.arr = win[s].arr /\ m.w.off = win[s].off
         /\ m.w.cap = win[s].cap /\ win[s].len <= m.w.len
      \/ \A v \in Slices : win[v].arr # m.w.arr
    BY DEF Derived
<1>3. /\ su \in Stores(kind) /\ Fits(u, su, kind)
      /\ ItemsOf(u, su) = items \o more
      /\ \A x : Fits(x, m.st, kind) =>
             Fits(x, su, kind) /\ SameOutside(x, su, m.st, m.w)
    <2> DEFINE w == m.w
               st == m.st
    <2>1. /\ st \in Stores(kind) /\ Fits(w, st, kind) /\ ItemsOf(w, st) = items
          /\ more \in Seq(Proper(kind)) /\ w.len + Len(more) <= w.cap
        BY <1>1
    <2> HIDE DEF w, st, kind
    <2>2. /\ Extended(st, w, more) \in Stores(kind)
          /\ Fits(Longer(w, Len(more)), Extended(st, w, more), kind)
          /\ ItemsOf(Longer(w, Len(more)), Extended(st, w, more)) = ItemsOf(w, st) \o more
          /\ \A x : Fits(x, st, kind) =>
                 Fits(x, Extended(st, w, more), kind) /\ SameOutside(x, Extended(st, w, more), st, w)
        BY <2>1, WrittenBehind
    <2> QED
        BY <2>1, <2>2 DEF w, st
<1>4. /\ m.w \in Window /\ win[s] \in Window
      /\ m.w.off \in Nat /\ m.w.len \in Nat /\ m.w.cap \in Nat
      /\ win[s].off \in Nat /\ win[s].len \in Nat /\ Len(more) \in Nat
    BY <1>1 DEF SlicesFit, Fits, Window
<1>5. /\ u.arr = m.w.arr /\ u.off = m.w.off /\ u.cap = m.w.cap
      /\ u.len = m.w.len + Len(more) /\ new.w = u /\ new.st = su
    BY <1>4 DEF Longer, Window, Memory
<1> HIDE DEF su, u, new, kind
<1>6. \/ /\ u.arr = win[s].arr /\ u.off = win[s].off
         /\ u.cap = win[s].cap /\ win[s].len <= u.len
      \/ \A v \in Slices : win[v].arr # u.arr
    BY <1>2, <1>4, <1>5
<1>7. ASSUME NEW v \in Slices, NEW i \in 1 .. win[v].len,
             <<win[v].arr, win[v].off + i>> \in RoomOf(m.w)
      PROVE  <<win[v].arr, win[v].off + i>> \in RoomOf(win[s])
    <2>1. PICK j \in m.w.off + m.w.len + 1 .. m.w.off + m.w.cap :
              <<win[v].arr, win[v].off + i>> = <<m.w.arr, j>>
        BY <1>7 DEF RoomOf
    <2>2. /\ m.w.arr = win[s].arr /\ m.w.off = win[s].off
          /\ m.w.cap = win[s].cap /\ win[s].len <= m.w.len
        BY <1>2, <2>1
    <2>3. j \in win[s].off + win[s].len + 1 .. win[s].off + win[s].cap
        BY <1>4, <2>1, <2>2
    <2> QED
        BY <2>1, <2>2, <2>3 DEF RoomOf
<1>8. ASSUME NEW v \in Slices
      PROVE  /\ Fits(win[v], su, kind)
             /\ SameOutside(win[v], su, store, win[s])
    BY <1>1, <1>3, <1>7 DEF SameOutside
<1> QED
    BY <1>3, <1>5, <1>6, <1>8 DEF Derived, su, u, new, kind

\* alloc_for_append adds nothing and makes room.
LEMMA GrownIs ==
    ASSUME SlicesFit, NEW s \in Slices, NEW n \in Nat
    PROVE  LET got == AllocForAppend(win[s], n)
           IN  /\ Derived(got, s, Items(s))
               /\ got.w.len = win[s].len /\ got.w.len + n <= got.w.cap
               /\ got.w.arr = win[s].arr => got.w = win[s]
<1> DEFINE kind == program.items
           got == AllocForAppend(win[s], n)
           c == 2 * (win[s].len + n)
<1>1. /\ win[s] \in Window /\ win[s].len \in Nat /\ win[s].cap \in Nat
      /\ store \in Stores(kind) /\ Fits(win[s], store, kind)
    BY DEF SlicesFit, Window
<1>2. Items(s) \in Seq(Proper(kind)) /\ Len(Items(s)) = win[s].len
    BY <1>1, ItemsAre DEF Items
<1>3. CASE win[s].len + n <= win[s].cap
    <2>1. got = Memory(win[s], store)
        BY <1>3 DEF AllocForAppend, Memory
    <2> QED
        BY <1>3, <2>1, NothingAdded DEF Memory
<1>4. CASE ~ win[s].len + n <= win[s].cap
    <2>1. c \in Nat /\ win[s].len <= c /\ win[s].len + n <= c
        BY <1>1
    <2>2. got = Memory(NewWindow(FreshArray, Len(Items(s)), c),
                       Put(store, FreshArray, Behind(Items(s), c)))
        BY <1>2, <1>4 DEF AllocForAppend, Memory, NewWindow, Put, Behind, Items
    <2> HIDE DEF got, c
    <2> DEFINE old == Memory(win[s], store)
    <2>3. Derived(old, s, Items(s)) /\ old.st = store
        BY NothingAdded DEF Memory
    <2> HIDE DEF old
    <2>4. Derived(got, s, Items(s))
        BY <1>2, <2>1, <2>2, <2>3, Moved
    <2>5. got.w.len = win[s].len /\ got.w.cap = c /\ got.w.arr = FreshArray
        BY <1>2, <2>2 DEF Memory, NewWindow
    <2> QED
        BY <2>1, <2>4, <2>5, FreshIsNew DEF got
<1> QED
    BY <1>3, <1>4

\* Slice::push adds one element.
LEMMA PushedIs ==
    ASSUME SlicesFit, NEW s \in Slices, NEW m, NEW items, Derived(m, s, items),
           NEW x \in Proper(program.items)
    PROVE  /\ Derived(Pushed(m, x), s, items \o <<x>>)
           /\ items \in Seq(Proper(program.items))
           /\ items # <<>> => m.st[m.w.arr][m.w.off + 1] = items[1]
<1> DEFINE kind == program.items
           c == 2 * (m.w.len + 1)
           more == items \o <<x>>
<1>1. /\ m.st \in Stores(kind) /\ Fits(m.w, m.st, kind) /\ ItemsOf(m.w, m.st) = items
      /\ m.w \in Window /\ m.w.len \in Nat /\ m.w.cap \in Nat /\ m.w.len <= m.w.cap
    BY DEF Derived, Fits, Window
<1>2. /\ items \in Seq(Proper(kind)) /\ Len(items) = m.w.len
      /\ \A i \in 1 .. m.w.len : items[i] = m.st[m.w.arr][m.w.off + i]
    BY <1>1, ItemsAre
<1>3. <<x>> \in Seq(Proper(kind)) /\ Len(<<x>>) = 1 /\ <<x>> # <<>>
    OBVIOUS
<1>4. more \in Seq(Proper(kind)) /\ Len(more) = m.w.len + 1
    BY <1>2, <1>3, Concatenated
<1>5. items # <<>> => m.st[m.w.arr][m.w.off + 1] = items[1]
    <2>1. ASSUME items # <<>> PROVE 1 \in 1 .. m.w.len
        BY <1>1, <1>2, <2>1
    <2> QED
        BY <1>2, <2>1
<1>6. CASE m.w.len < m.w.cap
    <2>1. Pushed(m, x) = Memory(Longer(m.w, Len(<<x>>)), Extended(m.st, m.w, <<x>>))
        BY <1>3, <1>6 DEF Pushed, Memory, Longer, Extended
    <2>2. m.w.len + Len(<<x>>) <= m.w.cap
        BY <1>1, <1>3, <1>6
    <2> QED
        BY <1>2, <1>3, <1>5, <2>1, <2>2, Added
<1>7. CASE ~ m.w.len < m.w.cap
    <2>1. Pushed(m, x) = Memory(NewWindow(FreshArray, Len(more), c),
                                Put(m.st, FreshArray, Behind(more, c)))
        BY <1>1, <1>4, <1>7 DEF Pushed, Memory, NewWindow, Put, Behind
    <2>2. c \in Nat /\ Len(more) <= c
        BY <1>1, <1>4
    <2> HIDE DEF c, more
    <2>3. Derived(Pushed(m, x), s, more)
        BY <1>4, <2>1, <2>2, Moved
    <2> QED
        BY <1>2, <1>5, <2>3 DEF more
<1> QED
    BY <1>6, <1>7

\* What every slice but d shows stays, where it is not in the room of s.
OthersStayOutside(d, s) ==
    \A v \in Slices : v # d =>
        /\ win'[v] = win[v]
        /\ \A i \in 1 .. win[v].len :
               \/ <<win[v].arr, win[v].off + i>> \in RoomOf(win[s])
               \/ Items(v)'[i] = Items(v)[i]

\* d is assigned what was added to s.
LEMMA DerivedGives ==
    ASSUME SlicesFit, UNCHANGED program, NEW d \in Slices, NEW s \in Slices,
           NEW m, NEW items, Derived(m, s, items), Become(d, m.w, m.st)
    PROVE  /\ SlicesFit'
           /\ Items(d)' = items
           /\ OthersStayOutside(d, s)
<1> DEFINE kind == program.items
<1>1. /\ m.st \in Stores(kind) /\ Fits(m.w, m.st, kind) /\ ItemsOf(m.w, m.st) = items
      /\ \A v \in Slices :
             Fits(win[v], m.st, kind) /\ SameOutside(win[v], m.st, store, win[s])
    BY DEF Derived
<1>2. \A v \in Slices : Given2(d, m.w)[v] = IF v = d THEN m.w ELSE win[v]
    BY DEF Given2, SlicesFit
<1>3. \A v \in Slices : Fits(Given2(d, m.w)[v], m.st, kind)
    BY <1>1, <1>2
<1>4. /\ SlicesFit' /\ win'[d] = m.w
      /\ \A v \in Slices : v # d => win'[v] = win[v]
      /\ \A v \in Slices : ItemsOf(win'[v], store') = ItemsOf(win'[v], m.st)
    BY <1>1, <1>3, BecomeShows
<1>5. Items(d)' = items
    BY <1>1, <1>4 DEF Items
<1>6. ASSUME NEW v \in Slices, v # d, NEW i \in 1 .. win[v].len
      PROVE  \/ <<win[v].arr, win[v].off + i>> \in RoomOf(win[s])
             \/ Items(v)'[i] = Items(v)[i]
    <2>1. /\ Fits(win[v], store, kind) /\ store \in Stores(kind)
          /\ Fits(win[v], m.st, kind)
        BY <1>1 DEF SlicesFit
    <2>2. Items(v)'[i] = m.st[win[v].arr][win[v].off + i]
        <3>1. Items(v)' = ItemsOf(win[v], m.st)
            BY <1>4, <1>6 DEF Items
        <3> QED
            BY <1>1, <2>1, <3>1, ItemsAre
    <2>3. Items(v)[i] = store[win[v].arr][win[v].off + i]
        BY <2>1, ItemsAre DEF Items
    <2> QED
        BY <1>1, <2>2, <2>3 DEF SameOutside
<1> QED
    BY <1>4, <1>5, <1>6 DEF OthersStayOutside

-----------------------------------------------------------------------------
(* What each call does to the slices *)

\* The place after pos in the array a is among the first n that c shows, behind
\* the first of them.
Overlaps(c, n, a, pos) == win[c].arr = a /\ win[c].off < pos /\ pos < win[c].off + n

\* What std::copy may write are elements that may be seen, n of them; they are
\* the ones to copy when the place to write is not among those.
LEMMA CopiedIs ==
    ASSUME SlicesFit, NEW c \in Slices, NEW n \in Nat, n <= win[c].len, NEW a, NEW pos \in Nat,
           NEW items \in CopyResults(win[c], n, a, pos)
    PROVE  /\ items \in [1 .. n -> Proper(program.items)]
           /\ items = SubSeq(Items(c), 1, n) \/ Overlaps(c, n, a, pos)
<1> DEFINE kind == program.items
           shift == pos - win[c].off
           all == ItemsOf(win[c], store)
           first == SubSeq(all, 1, n)
           again == [i \in 1 .. n |-> first[((i - 1) % shift) + 1]]
<1>1. /\ win[c].off \in Nat /\ win[c].len \in Nat
      /\ all \in Seq(Proper(kind)) /\ Len(all) = win[c].len
    BY ItemsAre DEF SlicesFit, Window
<1>2. \/ items = first
      \/ items = again /\ win[c].arr = a /\ 0 < shift /\ shift < n
    BY DEF CopyResults
<1> HIDE DEF all
<1>3. first \in Seq(Proper(kind)) /\ Len(first) = n
    BY <1>1
<1>4. ASSUME 0 < shift, shift < n PROVE again \in Seq(Proper(kind)) /\ Len(again) = n
    <2> HIDE DEF first
    <2>1. shift \in Nat \ {0}
        BY <1>1, <1>4
    <2>2. ASSUME NEW i \in 1 .. n PROVE first[((i - 1) % shift) + 1] \in Proper(kind)
        <3>1. (i - 1) % shift \in 0 .. shift - 1
            BY <2>1
        <3> DEFINE j == (i - 1) % shift
        <3> HIDE DEF j, shift
        <3>2. j + 1 \in 1 .. n
            BY <1>4, <2>1, <3>1 DEF j
        <3> QED
            BY <1>3, <3>2 DEF j
    <2>3. again \in [1 .. n -> Proper(kind)]
        BY <2>2
    <2> HIDE DEF again
    <2> QED
        BY <2>3, FunctionIsSeq
<1>5. 0 < shift /\ shift < n => win[c].off < pos /\ pos < win[c].off + n
    BY <1>1, SMTT(30)
<1> HIDE DEF first, again, shift
<1>6. items \in Seq(Proper(kind)) /\ Len(items) = n
    BY <1>2, <1>3, <1>4
<1>7. items \in [1 .. n -> Proper(kind)]
    BY <1>6
<1> QED
    BY <1>2, <1>5, <1>7 DEF first, all, Items, Overlaps

LEMMA Append2Gives ==
    ASSUME SlicesFit, UNCHANGED program, NEW d \in Slices, NEW s \in Slices, NEW c \in Slices,
           Append2(d, s, c)
    PROVE  /\ SlicesFit' /\ OthersStayOutside(d, s)
           /\ Shown(c) \intersect Room(s) = {} => Items(d)' = Items(s) \o Items(c)
<1> DEFINE kind == program.items
           n == win[c].len
           got == AllocForAppend(win[s], n)
           end == got.w.off + got.w.len
<1>1. /\ n \in Nat /\ win[c] \in Window /\ win[s] \in Window /\ store \in Stores(kind)
      /\ Fits(win[c], store, kind) /\ Fits(win[s], store, kind)
    BY DEF SlicesFit, Window
<1>2. /\ Items(c) \in Seq(Proper(kind)) /\ Len(Items(c)) = n
      /\ Items(s) \in Seq(Proper(kind))
    BY <1>1, ItemsAre DEF Items
<1>3. CASE n = 0 /\ Become(d, win[s], store)
    <2> DEFINE old == Memory(win[s], store)
    <2>1. Derived(old, s, Items(s)) /\ Become(d, old.w, old.st)
        BY <1>3, NothingAdded DEF Memory
    <2> HIDE DEF old
    <2>2. SlicesFit' /\ Items(d)' = Items(s) /\ OthersStayOutside(d, s)
        BY <2>1, DerivedGives
    <2>3. Items(s) \o Items(c) = Items(s)
        <3>1. Items(c) = <<>>
            BY <1>2, <1>3
        <3> QED
            BY <1>2, <3>1
    <2> QED
        BY <2>2, <2>3
<1>4. ASSUME n > 0, NEW items \in CopyResults(win[c], n, got.w.arr, end),
             Become(d, [got.w EXCEPT !.len = @ + n],
                    [got.st EXCEPT ![got.w.arr] = WriteAt(@, end, items)])
      PROVE  /\ SlicesFit' /\ OthersStayOutside(d, s)
             /\ Shown(c) \intersect Room(s) = {} => Items(d)' = Items(s) \o Items(c)
    <2>1. /\ Derived(got, s, Items(s))
          /\ got.w.len = win[s].len /\ got.w.len + n <= got.w.cap
          /\ got.w.arr = win[s].arr => got.w = win[s]
        BY <1>1, GrownIs
    <2> HIDE DEF got, n
    <2>2. got.w.off \in Nat /\ got.w.len \in Nat /\ end \in Nat
        BY <2>1 DEF Derived, Fits, Window
    <2>10. items \in CopyResults(win[c], n, got.w.arr, end)
        BY <1>4
    <2> HIDE DEF end
    <2>3. /\ items \in Seq(Proper(kind)) /\ Len(items) = n
          /\ items = SubSeq(Items(c), 1, n) \/ Overlaps(c, n, got.w.arr, end)
        <3>1. n <= win[c].len /\ n \in Nat
            BY <1>1 DEF n
        <3> QED
            <4>1. items \in [1 .. n -> Proper(kind)]
                BY <2>2, <2>10, <3>1, CopiedIs
            <4>2. items = SubSeq(Items(c), 1, n) \/ Overlaps(c, n, got.w.arr, end)
                BY <2>2, <2>10, <3>1, CopiedIs
            <4> QED
                BY <3>1, <4>1, <4>2, FunctionIsSeq
    <2>4. items # <<>>
        BY <1>4, <2>3
    <2> DEFINE new == Memory(Longer(got.w, Len(items)), Extended(got.st, got.w, items))
    <2>5. Derived(new, s, Items(s) \o items)
        BY <2>1, <2>3, <2>4, Added
    <2>6. Become(d, new.w, new.st)
        BY <1>4, <2>3 DEF Memory, Longer, Extended, end
    <2> HIDE DEF new
    <2>7. SlicesFit' /\ Items(d)' = Items(s) \o items /\ OthersStayOutside(d, s)
        BY <2>5, <2>6, DerivedGives
    <2>8. ASSUME Overlaps(c, n, got.w.arr, end)
          PROVE  Shown(c) \intersect Room(s) # {}
        <3>1. got.w.arr = win[s].arr
            BY <2>1, <2>8 DEF Derived, Overlaps
        <3>2. end = win[s].off + win[s].len
            BY <2>1, <3>1 DEF end
        <3> DEFINE place == end + 1
        <3>3. place \in win[c].off + 1 .. win[c].off + win[c].len
            BY <1>1, <2>2, <2>8 DEF n, Window, Overlaps
        <3>4. win[s].len + n <= win[s].cap /\ win[s].cap \in Nat /\ win[s].len \in Nat /\ win[s].off \in Nat
            BY <1>1, <2>1, <3>1 DEF Window
        <3>5. place \in win[s].off + win[s].len + 1 .. win[s].off + win[s].cap
            BY <1>1, <1>4, <2>2, <3>2, <3>4
        <3> HIDE DEF place
        <3>6. <<win[c].arr, place>> \in Shown(c)
            BY <3>3 DEF Shown
        <3>7. <<win[c].arr, place>> \in Room(s)
            BY <2>8, <3>1, <3>5 DEF Room, Overlaps
        <3> QED
            BY <3>6, <3>7
    <2>9. SubSeq(Items(c), 1, n) = Items(c)
        BY <1>2, WholeSeq DEF n
    <2> QED
        BY <2>3, <2>7, <2>8, <2>9
<1> QED
    BY <1>3, <1>4 DEF Append2

\* One operand, read and pushed.
ReadPushed(m, x) == Pushed(m, IF x = First THEN m.st[m.w.arr][m.w.off + 1] ELSE x)

LEMMA ReadPushedIs ==
    ASSUME SlicesFit, program.items = "int", NEW s \in Slices, NEW m, NEW items,
           Derived(m, s, items), NEW x \in Operand, x = First => items # <<>>
    PROVE  /\ Derived(ReadPushed(m, x), s,
                      items \o <<IF x = First THEN items[1] ELSE x>>)
           /\ items \in Seq(Proper(program.items))
<1> DEFINE kind == program.items
           y == IF x = First THEN m.st[m.w.arr][m.w.off + 1] ELSE x
           z == IF x = First THEN items[1] ELSE x
<1>1. m.st \in Stores(kind) /\ Fits(m.w, m.st, kind) /\ ItemsOf(m.w, m.st) = items
    BY DEF Derived
<1>2. items \in Seq(Proper(kind))
    BY <1>1, ItemsAre
<1>3. z \in Proper(kind)
    <2>1. CASE x = First
        <3>1. items # <<>>
            BY <2>1
        <3>2. items[1] \in Proper(kind)
            BY <1>2, <3>1
        <3> QED
            BY <2>1, <3>2
    <2>2. CASE x # First
        BY <2>2 DEF Operand, Proper
    <2> QED
        BY <2>1, <2>2
<1>4. /\ Derived(Pushed(m, z), s, items \o <<z>>)
      /\ items # <<>> => m.st[m.w.arr][m.w.off + 1] = items[1]
    BY <1>3, PushedIs
<1>5. y = z
    BY <1>4
<1> QED
    BY <1>2, <1>4, <1>5 DEF ReadPushed

LEMMA CallIs ==
    ASSUME NEW op, NEW d, NEW s, NEW args, Call(op, d, s, args)
    PROVE  call'.op = op /\ call'.d = d /\ call'.s = s /\ call'.args = args
    BY DEF Call

LEMMA AppendEachGives ==
    ASSUME SlicesFit, UNCHANGED program, program.items = "int",
           NEW d \in Slices, NEW s \in Slices, NEW operands,
           \/ \E x \in Operand : operands = <<x>>
           \/ \E x, y \in Operand : operands = <<x, y>>,
           AppendEach(d, s, operands)
    PROVE  /\ SlicesFit' /\ OthersStayOutside(d, s)
           /\ call'.op = "push" /\ (First \in Range(operands) => Items(s) # <<>>) =>
                  Items(d)' = Items(s) \o [i \in DOMAIN operands |->
                                  IF operands[i] = First THEN Items(s)[1] ELSE operands[i]]
<1> DEFINE kind == program.items
           value(x) == IF x = First THEN Items(s)[1] ELSE x
           added == Items(s) \o [i \in DOMAIN operands |-> value(operands[i])]
           ready == IF d = s THEN Memory(win[s], store)
                    ELSE AllocForAppend(win[s], Len(operands))
           done == IF Len(operands) = 1 THEN ReadPushed(ready, operands[1])
                   ELSE ReadPushed(ReadPushed(ready, operands[1]), operands[2])
<1>1. Len(operands) \in Nat
    OBVIOUS
<1>2. \/ (operands[1] = First => win[s].len > 0) /\ Become(d, done.w, done.st)
      \/ call'.op = "push panics" /\ Become(d, ready.w, ready.st)
    <2>1. \/ (operands[1] = First => win[s].len > 0) /\ Become(d, done.w, done.st)
          \/ Call("push panics", d, s, operands) /\ Become(d, ready.w, ready.st)
        BY Zenon DEF AppendEach, ReadPushed, Memory
    <2>2. Call("push panics", d, s, operands) => call'.op = "push panics"
        BY CallIs
    <2> HIDE DEF done, ready
    <2> QED
        BY <2>1, <2>2
<1>3. Derived(ready, s, Items(s))
    <2>1. CASE d = s
        BY <2>1, NothingAdded
    <2>2. CASE d # s
        BY <1>1, <2>2, GrownIs, SMTT(30)
    <2> QED
        BY <2>1, <2>2
<1>4. Items(s) \in Seq(Proper(kind)) /\ Len(Items(s)) = win[s].len
    BY ItemsAre DEF SlicesFit, Items
<1> HIDE DEF ready
<1>5. CASE call'.op = "push panics" /\ Become(d, ready.w, ready.st)
    BY <1>3, <1>5, DerivedGives
<1>6. CASE (operands[1] = First => win[s].len > 0) /\ Become(d, done.w, done.st)
    <2>1. operands[1] = First => Items(s) # <<>>
        <3>1. ASSUME Items(s) = <<>> PROVE Len(Items(s)) = 0
            BY <3>1
        <3> QED
            BY <1>4, <1>6, <3>1
    <2>2. ASSUME NEW x \in Operand, operands = <<x>>
          PROVE  \E items : /\ Derived(done, s, items)
                            /\ (First \in Range(operands) => Items(s) # <<>>) => items = added
        <3>1. x = First => Items(s) # <<>>
            BY <2>1, <2>2
        <3>2. Derived(ReadPushed(ready, x), s, Items(s) \o <<value(x)>>)
            BY <1>3, <3>1, ReadPushedIs
        <3>3. done = ReadPushed(ready, x)
            BY <2>2
        <3>4. [i \in DOMAIN operands |-> value(operands[i])] = <<value(x)>>
            BY <2>2
        <3> HIDE DEF done, value
        <3> QED
            BY <3>2, <3>3, <3>4
    <2>3. ASSUME NEW x \in Operand, NEW y \in Operand, operands = <<x, y>>
          PROVE  \E items : /\ Derived(done, s, items)
                            /\ (First \in Range(operands) => Items(s) # <<>>) => items = added
        <3>1. x = First => Items(s) # <<>>
            BY <2>1, <2>3
        <3> DEFINE once == ReadPushed(ready, x)
                   begun == Items(s) \o <<value(x)>>
                   second == IF y = First THEN begun[1] ELSE y
        <3>2. Derived(once, s, begun)
            BY <1>3, <3>1, ReadPushedIs
        <3>3. begun # <<>> /\ (Items(s) # <<>> => begun[1] = Items(s)[1])
            BY <1>4
        <3>4. Derived(ReadPushed(once, y), s, begun \o <<second>>)
            <4> HIDE DEF once, begun
            <4> QED
                BY <3>2, <3>3, ReadPushedIs
        <3>5. done = ReadPushed(once, y)
            BY <2>3
        <3>6. ASSUME First \in Range(operands) => Items(s) # <<>>
              PROVE  begun \o <<second>> = added
            <4>1. y = First => Items(s) # <<>>
                <5>1. y \in Range(operands)
                    BY <2>3 DEF Range
                <5> QED
                    BY <3>6, <5>1
            <4>2. second = value(y)
                BY <3>3, <4>1
            <4>3. [i \in DOMAIN operands |-> value(operands[i])] = <<value(x), value(y)>>
                BY <2>3
            <4> HIDE DEF value, second
            <4>4. (Items(s) \o <<value(x)>>) \o <<value(y)>> = Items(s) \o <<value(x), value(y)>>
                BY <1>4
            <4> QED
                BY <4>2, <4>3, <4>4
        <3> HIDE DEF once, begun, second, value, done, added
        <3> QED
            BY <3>4, <3>5, <3>6
    <2>4. PICK items : /\ Derived(done, s, items)
                       /\ (First \in Range(operands) => Items(s) # <<>>) => items = added
        BY <2>2, <2>3
    <2> HIDE DEF done
    <2> QED
        BY <1>6, <2>4, DerivedGives
<1> QED
    BY <1>2, <1>5, <1>6

LEMMA CutGives ==
    ASSUME SlicesFit, UNCHANGED program, NEW d \in Slices, NEW s \in Slices,
           NEW i \in Nat, NEW j \in Nat, Cut(d, s, i, j)
    PROVE  SlicesFit' /\ OthersStay(d)
<1> DEFINE kind == program.items
           w == [win[s] EXCEPT !.off = @ + i, !.len = j - i, !.cap = @ - i]
<1>1. /\ win[s].arr # Nil /\ i <= j /\ j <= win[s].len /\ Become(d, w, store)
    BY DEF Cut
<1>2. /\ Fits(win[s], store, kind) /\ win[s] \in Window /\ win[s].arr \in Arrays
      /\ win[s].off \in Nat /\ win[s].len \in Nat /\ win[s].cap \in Nat
      /\ win[s].len <= win[s].cap
      /\ win[s].off + win[s].cap <= Len(store[win[s].arr])
    BY <1>1 DEF SlicesFit, Fits, Window
<1>3. Len(store[win[s].arr]) \in Nat
    <2>1. store[win[s].arr] \in Seq(Elem(kind))
        BY <1>2 DEF SlicesFit, Stores
    <2> QED
        BY <2>1
<1>4. /\ w \in Window /\ w.arr = win[s].arr /\ w.off = win[s].off + i
      /\ w.len = j - i /\ w.cap = win[s].cap - i
    <2>1. win[s].off + i \in Nat /\ j - i \in Nat /\ win[s].cap - i \in Nat
        BY <1>1, <1>2
    <2> QED
        BY <1>2, <2>1 DEF Window
<1> HIDE DEF w
<1>5. Fits(w, store, kind)
    <2>1. ASSUME NEW n \in 1 .. w.len PROVE store[w.arr][w.off + n] \in Proper(kind)
        <3>1. i + n \in 1 .. win[s].len /\ w.off + n = win[s].off + (i + n)
            BY <1>1, <1>2, <1>4
        <3> QED
            BY <1>2, <1>4, <3>1 DEF Fits
    <2>2. w.len <= w.cap /\ w.off + w.cap <= Len(store[w.arr])
        BY <1>1, <1>2, <1>3, <1>4
    <2> QED
        BY <1>1, <1>4, <2>1, <2>2 DEF Fits
<1>6. \A v \in Slices : Fits(Given2(d, w)[v], store, kind)
    BY <1>5 DEF SlicesFit, Given2
<1>7. /\ SlicesFit' /\ \A v \in Slices : v # d => win'[v] = win[v]
      /\ \A v \in Slices : ItemsOf(win'[v], store') = ItemsOf(win'[v], store)
    BY <1>1, <1>6, BecomeShows DEF SlicesFit
<1> QED
    BY <1>7 DEF OthersStay, Items

LEMMA MakeGives ==
    ASSUME SlicesFit, UNCHANGED program, NEW d \in Slices,
           NEW c \in Nat, NEW n \in 0 .. c, Make(d, n, c)
    PROVE  SlicesFit' /\ OthersStay(d)
<1> DEFINE kind == program.items
           s == [i \in 1 .. c |-> Raw(IF i <= n THEN Unset ELSE Spare)]
<1>1. \A i \in 1 .. c : /\ s[i] \in Elem(kind)
                        /\ i <= n => s[i] \in Proper(kind)
    BY DEF Raw, Elem, Proper
<1>2. s \in Seq(Elem(kind)) /\ Len(s) = c
    <2>1. s \in [1 .. c -> Elem(kind)]
        BY <1>1
    <2> HIDE DEF s
    <2> QED
        BY <2>1, FunctionIsSeq
<1>3. Become(d, NewWindow(FreshArray, n, c), Put(store, FreshArray, s))
    BY DEF Make, NewWindow, Put
<1> HIDE DEF s
<1>4. \A i \in 1 .. n : s[i] \in Proper(kind)
    BY <1>1
<1> QED
    BY <1>2, <1>3, <1>4, FreshGives

\* What every slice shows stays, where d does not show it.
OthersStayUnseen(d) ==
    \A v \in Slices :
        /\ win'[v] = win[v]
        /\ \A i \in 1 .. win[v].len :
               \/ <<win[v].arr, win[v].off + i>> \in Shown(d)
               \/ Items(v)'[i] = Items(v)[i]

\* Elements are written to places that d shows.
LEMMA WrittenOver ==
    ASSUME SlicesFit, UNCHANGED <<program, win>>, NEW d \in Slices,
           NEW items \in Seq(Proper(program.items)), items # <<>>,
           NEW p \in Nat, p + Len(items) <= win[d].len,
           store' = [store EXCEPT ![win[d].arr] = WriteAt(@, win[d].off + p, items)]
    PROVE  SlicesFit' /\ OthersStayUnseen(d)
<1> DEFINE kind == program.items
           w == [arr |-> win[d].arr, off |-> win[d].off, len |-> p, cap |-> win[d].len]
<1>1. /\ win[d] \in Window /\ Fits(win[d], store, kind) /\ store \in Stores(kind)
      /\ win[d].off \in Nat /\ win[d].len \in Nat /\ win[d].cap \in Nat
      /\ win[d].len <= win[d].cap /\ Len(items) \in Nat /\ Len(items) > 0
      /\ win[d].arr \in Arrays \union {Nil} /\ (win[d].arr = Nil => win[d].cap = 0)
    BY DEF SlicesFit, Fits, Window
<1>2. /\ w \in Window /\ w.arr = win[d].arr /\ w.off = win[d].off
      /\ w.len = p /\ w.cap = win[d].len
    BY <1>1 DEF Window
<1>3. store' = Extended(store, w, items)
    BY <1>2 DEF Extended
<1> HIDE DEF w
<1>4. Fits(w, store, kind)
    <2>1. \A i \in 1 .. w.len : i \in 1 .. win[d].len
        BY <1>1, <1>2
    <2>2. win[d].arr # Nil
        BY <1>1
    <2>3. win[d].off + win[d].len <= Len(store[win[d].arr])
        <3>1. store[win[d].arr] \in Seq(Elem(kind))
            BY <1>1, <2>2 DEF Stores
        <3>2. Len(store[win[d].arr]) \in Nat
            BY <3>1
        <3>3. win[d].off + win[d].cap <= Len(store[win[d].arr])
            BY <2>2, <1>1 DEF Fits
        <3>4. win[d].off + win[d].len <= win[d].off + win[d].cap
            BY <1>1
        <3> DEFINE end == win[d].off + win[d].len
                   limit == win[d].off + win[d].cap
                   room == Len(store[win[d].arr])
        <3>5. end \in Nat /\ limit \in Nat /\ room \in Nat /\ end <= limit /\ limit <= room
            BY <1>1, <3>2, <3>3, <3>4
        <3> HIDE DEF end, limit, room
        <3>6. end <= room
            BY <3>5
        <3> QED
            BY <3>6 DEF end, room
    <2>4. w.len <= w.cap
        BY <1>1, <1>2
    <2> QED
        BY <1>1, <1>2, <2>1, <2>2, <2>3, <2>4 DEF Fits
<1>5. w.len + Len(items) <= w.cap
    BY <1>2
<1>6. /\ Extended(store, w, items) \in Stores(kind)
      /\ \A x : Fits(x, store, kind) =>
             Fits(x, Extended(store, w, items), kind)
             /\ SameOutside(x, Extended(store, w, items), store, w)
    <2> HIDE DEF kind
    <2>1. items \in Seq(Proper(kind))
        BY DEF kind
    <2> QED
        BY <1>1, <1>4, <1>5, <2>1, WrittenBehind
<1>7. RoomOf(w) \subseteq Shown(d)
    <2>1. w.off + w.len + 1 .. w.off + w.cap \subseteq win[d].off + 1 .. win[d].off + win[d].len
        BY <1>1, <1>2
    <2> QED
        BY <1>2, <2>1 DEF RoomOf, Shown
<1>8. ASSUME NEW v \in Slices
      PROVE  /\ Fits(win[v], store', kind)
             /\ \A i \in 1 .. win[v].len :
                    \/ <<win[v].arr, win[v].off + i>> \in Shown(d)
                    \/ Items(v)'[i] = Items(v)[i]
    <2>1. Fits(win[v], store, kind)
        BY DEF SlicesFit
    <2>2. Fits(win[v], store', kind) /\ SameOutside(win[v], store', store, w)
        BY <1>3, <1>6, <2>1
    <2>3. \A i \in 1 .. win[v].len : /\ Items(v)'[i] = store'[win[v].arr][win[v].off + i]
                                     /\ Items(v)[i] = store[win[v].arr][win[v].off + i]
        <3>1. Items(v)' = ItemsOf(win[v], store') /\ Items(v) = ItemsOf(win[v], store)
            BY DEF Items
        <3>2. store' \in Stores(kind)
            BY <1>3, <1>6
        <3> DEFINE x == win[v]
                   su == store'
        <3>3. Fits(x, store, kind) /\ Fits(x, su, kind) /\ su \in Stores(kind)
            BY <2>1, <2>2, <3>2
        <3> HIDE DEF x, su, kind
        <3>4. \A i \in 1 .. x.len : /\ ItemsOf(x, su)[i] = su[x.arr][x.off + i]
                                    /\ ItemsOf(x, store)[i] = store[x.arr][x.off + i]
            BY <1>1, <3>3, ItemsAre
        <3> QED
            BY <3>1, <3>4 DEF x, su
    <2> QED
        BY <1>7, <2>2, <2>3 DEF SameOutside
<1>9. SlicesFit'
    BY <1>3, <1>6, <1>8 DEF SlicesFit
<1> QED
    BY <1>8, <1>9 DEF OthersStayUnseen

\* The elements at hand may be seen.
LEMMA GivenIsProper ==
    ASSUME program \in Programs
    PROVE  Given \subseteq Proper(program.items)
<1>1. program.items \in {"int", "ref"}
    BY ElementsAssumption
<1>2. UsedCells \subseteq Cells
    BY DEF UsedCells
<1>3. FreshCells # {} => (CHOOSE x \in FreshCells : TRUE) \in Cells
    BY DEF FreshCells
<1> QED
    BY <1>1, <1>2, <1>3 DEF Given, Proper

LEMMA SetGives ==
    ASSUME SlicesFit, UNCHANGED program, NEW v \in Slices, NEW i \in Nat, NEW x \in Given,
           Set(v, i, x)
    PROVE  SlicesFit'
<1>1. x \in Proper(program.items)
    BY GivenIsProper DEF SlicesFit
<1>2. <<x>> \in Seq(Proper(program.items)) /\ <<x>> # <<>> /\ Len(<<x>>) = 1
    BY <1>1
<1>3. win[v].len \in Nat
    BY DEF SlicesFit, Window
<1>4. /\ i + Len(<<x>>) <= win[v].len /\ UNCHANGED win
      /\ store' = [store EXCEPT ![win[v].arr] = WriteAt(@, win[v].off + i, <<x>>)]
    BY <1>2, <1>3 DEF Set
<1> QED
    BY <1>2, <1>4, WrittenOver

LEMMA CopyGives ==
    ASSUME SlicesFit, UNCHANGED program, NEW d \in Slices, NEW s \in Slices, Copy(d, s)
    PROVE  SlicesFit' /\ OthersStayUnseen(d)
<1> DEFINE kind == program.items
           n == IF win[d].len < win[s].len THEN win[d].len ELSE win[s].len
<1>1. /\ win[d].len \in Nat /\ win[s].len \in Nat /\ win[d].off \in Nat
    BY DEF SlicesFit, Window
<1>2. n \in Nat /\ n <= win[s].len /\ n <= win[d].len
    BY <1>1
<1>3. PICK items \in CopyResults(win[s], n, win[d].arr, win[d].off) :
          store' = [store EXCEPT ![win[d].arr] = WriteAt(@, win[d].off, items)]
    BY DEF Copy
<1>4. n > 0 /\ UNCHANGED win
    BY DEF Copy
<1> HIDE DEF n
<1>5. items \in [1 .. n -> Proper(kind)]
    <2> DEFINE a == win[d].arr
               pos == win[d].off
    <2>1. items \in CopyResults(win[s], n, a, pos) /\ pos \in Nat
        BY <1>1, <1>3
    <2> HIDE DEF a, pos
    <2> QED
        BY <1>2, <2>1, CopiedIs
<1>6. items \in Seq(Proper(kind)) /\ Len(items) = n
    BY <1>2, <1>5, FunctionIsSeq
<1>7. items # <<>>
    BY <1>4, <1>6
<1>8. store' = [store EXCEPT ![win[d].arr] = WriteAt(@, win[d].off + 0, items)]
    <2> DEFINE t(pos) == WriteAt(store[win[d].arr], pos, items)
               now == t(win[d].off)
               then == t(win[d].off + 0)
    <2>1. store' = [store EXCEPT ![win[d].arr] = now]
        BY <1>3
    <2>2. now = then
        <3>1. win[d].off + 0 = win[d].off
            BY <1>1
        <3> HIDE DEF t
        <3> QED
            BY <3>1
    <2> HIDE DEF now, then
    <2>3. store' = [store EXCEPT ![win[d].arr] = then]
        BY <2>1, <2>2
    <2> QED
        BY <2>3 DEF then
<1>9. 0 + Len(items) <= win[d].len
    BY <1>2, <1>6
<1> QED
    BY <1>4, <1>6, <1>7, <1>8, <1>9, WrittenOver

\* What the program has copied deeply: references that are not nil were made new,
\* and what is nil or no reference is what it was.
Copied(before, after) ==
    /\ DOMAIN after = DOMAIN before
    /\ \A i \in DOMAIN before :
           IF program.items = "ref" /\ before[i] # Nil
           THEN after[i] \in Cells \ UsedCells
           ELSE after[i] = before[i]

LEMMA ClonesAre ==
    ASSUME program \in Programs, NEW items,
           items \in [DOMAIN items -> Proper(program.items)], Enough(items)
    PROVE  /\ Clones(items) \in [DOMAIN items -> Proper(program.items)]
           /\ Copied(items, Clones(items))
<1> DEFINE new == CHOOSE f \in Copies(items) : TRUE
<1>1. new \in Copies(items)
    BY DEF Enough
<1>2. new \in [Real(items) -> FreshCells]
    BY <1>1 DEF Copies, Injection
<1>3. Clones(items) = [i \in DOMAIN items |-> IF i \in Real(items) THEN new[i] ELSE items[i]]
    BY DEF Clones
<1> HIDE DEF new
<1>4. ASSUME NEW i \in DOMAIN items
      PROVE  /\ Clones(items)[i] \in Proper(program.items)
             /\ IF program.items = "ref" /\ items[i] # Nil
                THEN Clones(items)[i] \in Cells \ UsedCells
                ELSE Clones(items)[i] = items[i]
    <2>1. items[i] \in Proper(program.items)
        OBVIOUS
    <2>2. CASE i \in Real(items)
        <3>1. program.items = "ref" /\ items[i] \in Cells /\ items[i] # Nil
            BY <2>2, ElementsAssumption DEF Real
        <3>2. Clones(items)[i] \in Cells \ UsedCells
            BY <1>2, <1>3, <2>2 DEF FreshCells
        <3> QED
            BY <3>1, <3>2 DEF Proper
    <2>3. CASE i \notin Real(items)
        <3>1. Clones(items)[i] = items[i]
            BY <1>3, <2>3
        <3>2. program.items = "ref" => items[i] = Nil
            BY <2>1, <2>3 DEF Real, Proper
        <3> QED
            BY <2>1, <3>1, <3>2
    <2> QED
        BY <2>2, <2>3
<1> QED
    BY <1>3, <1>4 DEF Copied

-----------------------------------------------------------------------------
(* Steps *)

LEMMA InitIInv ==
    ASSUME Init
    PROVE  IInv
<1>1. program \in Programs /\ program.items \in {"int", "ref"}
    BY ElementsAssumption DEF Init
<1>2. NilSlice \in Window
    BY DEF NilSlice, Window
<1>3. win = [v \in Slices |-> NilSlice] /\ store = [a \in Arrays |-> <<>>]
    BY DEF Init
<1>4. store \in Stores(program.items)
    <2>1. <<>> \in Seq(Elem(program.items))
        OBVIOUS
    <2> QED
        BY <1>3, <2>1 DEF Stores
<1>5. ASSUME NEW v \in Slices PROVE Fits(win[v], store, program.items)
    <2>1. win[v].arr = Nil /\ win[v].len = 0 /\ win[v].cap = 0 /\ win[v] \in Window
        BY <1>2, <1>3 DEF NilSlice
    <2> QED
        BY <2>1 DEF Fits
<1>6. SlicesFit
    BY <1>1, <1>2, <1>3, <1>4, <1>5 DEF SlicesFit
<1>7. Default \in Proper(program.items)
    BY <1>1, ElementsAssumption DEF Default, Proper
<1>8. OthersProper
    <2>1. DOMAIN map = {}
        BY DEF Init
    <2> QED
        BY <1>7, <2>1, FS_EmptySet DEF Init, OthersProper
<1> QED
    BY <1>6, <1>8 DEF IInv

\* The properties of one step.
AddsStep ==
    LET d == call'.d
        s == call'.s
    IN  /\ call'.op = "append" =>
              LET c == call'.args[1]
              IN  Shown(c) \intersect Room(s) = {} => Result = Items(s) \o Items(c)
        /\ call'.op = "push"
           /\ (First \in Range(call'.args) => d = s /\ Items(s) # <<>>) =>
              Result = Items(s) \o
                  [i \in DOMAIN call'.args |-> IF call'.args[i] = First THEN Items(s)[1]
                                               ELSE call'.args[i]]

KeepsStep ==
    call'.op \notin {"make", "literal", "set", "read", "keep"} =>
        LET written == CASE call'.op \in {"append", "push", "push panics"} -> Room(call'.s)
                         [] call'.op = "copy" -> Shown(call'.d)
                         [] OTHER -> {}
        IN  \A v \in Slices : \A i \in 1 .. win[v].len :
                v = call'.d \/ <<win[v].arr, win[v].off + i>> \in written
                    \/ Items(v)'[i] = Items(v)[i]

ClonesStep ==
    LET copied(before, after) ==
            /\ DOMAIN after = DOMAIN before
            /\ \A i \in DOMAIN before :
                   IF program.items = "ref" /\ before[i] # Nil
                   THEN after[i] \in Cells \ UsedCells
                   ELSE after[i] = before[i]
    IN  /\ call'.op = "clone" => /\ win'[call'.d].arr \notin UsedArrays
                                /\ copied(Items(call'.s), Result)
        /\ call'.op = "clone array" => copied(arr, arr')
        /\ call'.op = "clone map" => copied(map, map')

StepRight == IInv' /\ AddsStep /\ KeepsStep /\ ClonesStep

LEMMA OthersRemain ==
    ASSUME OthersProper, UNCHANGED <<program, arr, map>>
    PROVE  OthersProper'
    BY DEF OthersProper

\* A call that gives d and changes nothing that another slice shows.
LEMMA StayKeeps ==
    ASSUME NEW d, call'.d = d, OthersStay(d)
    PROVE  KeepsStep
    BY DEF OthersStay, KeepsStep

\* A call that changes no slice.
LEMMA NothingKeeps ==
    ASSUME UNCHANGED <<win, store>>
    PROVE  KeepsStep
    BY DEF KeepsStep, Items, ItemsOf

LEMMA MakeRight ==
    ASSUME IInv, UNCHANGED program, NEW d \in Slices, NEW c \in Nat, NEW n \in 0 .. c,
           Make(d, n, c)
    PROVE  StepRight
<1>1. SlicesFit' /\ OthersStay(d)
    BY MakeGives DEF IInv
<1>2. call'.op = "make" /\ call'.d = d /\ UNCHANGED <<arr, map>>
    BY CallIs DEF Make
<1>3. OthersProper'
    BY <1>2, OthersRemain DEF IInv
<1> QED
    BY <1>1, <1>2, <1>3 DEF StepRight, IInv, AddsStep, KeepsStep, ClonesStep

\* A call, other than an append or a clone, that fills a new array with elements.
LEMMA FilledRight ==
    ASSUME IInv, UNCHANGED program, NEW d \in Slices,
           NEW items \in Seq(Proper(program.items)), Filled(d, items),
           call'.d = d, call'.op \in {"literal", "slice", "keys", "values"},
           UNCHANGED <<arr, map>>
    PROVE  StepRight
<1>1. SlicesFit' /\ OthersStay(d)
    BY FilledGives DEF IInv
<1>2. OthersProper'
    BY OthersRemain DEF IInv
<1>3. KeepsStep
    BY <1>1, StayKeeps
<1> QED
    BY <1>1, <1>2, <1>3 DEF StepRight, IInv, AddsStep, ClonesStep

LEMMA LiteralRight ==
    ASSUME IInv, UNCHANGED program, NEW d \in Slices, NEW x \in Given, Literal(d, x)
    PROVE  StepRight
<1>1. x \in Proper(program.items)
    BY GivenIsProper DEF IInv, SlicesFit
<1>2. <<x>> \in Seq(Proper(program.items))
    BY <1>1
<1>3. /\ Filled(d, <<x>>) /\ call'.d = d /\ call'.op = "literal" /\ UNCHANGED <<arr, map>>
    BY CallIs DEF Literal
<1> QED
    BY <1>2, <1>3, FilledRight

LEMMA CutRight ==
    ASSUME IInv, UNCHANGED program, NEW d \in Slices, NEW s \in Slices,
           NEW i \in Nat, NEW j \in Nat, Cut(d, s, i, j)
    PROVE  StepRight
<1>1. SlicesFit' /\ OthersStay(d)
    BY CutGives DEF IInv
<1>2. call'.op = "cut" /\ call'.d = d /\ UNCHANGED <<arr, map>>
    BY CallIs DEF Cut
<1>3. OthersProper'
    BY <1>2, OthersRemain DEF IInv
<1>4. KeepsStep
    BY <1>1, <1>2, StayKeeps
<1> QED
    BY <1>1, <1>2, <1>3, <1>4 DEF StepRight, IInv, AddsStep, ClonesStep

LEMMA SetRight ==
    ASSUME IInv, UNCHANGED program, NEW v \in Slices, NEW i \in Nat, NEW x \in Given,
           Set(v, i, x)
    PROVE  StepRight
<1>1. SlicesFit'
    BY SetGives DEF IInv
<1>2. call'.op = "set" /\ UNCHANGED <<arr, map>>
    BY CallIs DEF Set
<1>3. OthersProper'
    BY <1>2, OthersRemain DEF IInv
<1> QED
    BY <1>1, <1>2, <1>3 DEF StepRight, IInv, AddsStep, KeepsStep, ClonesStep

\* A call that adds to s and gives d.
LEMMA OutsideKeeps ==
    ASSUME NEW d, NEW s, call'.d = d, call'.s = s,
           call'.op \in {"append", "push", "push panics"},
           OthersStayOutside(d, s)
    PROVE  KeepsStep
<1>1. Room(s) = RoomOf(win[s])
    BY DEF Room, RoomOf
<1> QED
    BY <1>1 DEF OthersStayOutside, KeepsStep

LEMMA Append2Right ==
    ASSUME IInv, UNCHANGED program, NEW d \in Slices, NEW s \in Slices, NEW c \in Slices,
           Append2(d, s, c)
    PROVE  StepRight
<1>1. /\ SlicesFit' /\ OthersStayOutside(d, s)
      /\ Shown(c) \intersect Room(s) = {} => Items(d)' = Items(s) \o Items(c)
    BY Append2Gives DEF IInv
<1>2. /\ call'.op = "append" /\ call'.d = d /\ call'.s = s /\ call'.args = <<c>>
      /\ UNCHANGED <<arr, map>>
    BY CallIs DEF Append2
<1>3. OthersProper'
    BY <1>2, OthersRemain DEF IInv
<1>4. KeepsStep
    BY <1>1, <1>2, OutsideKeeps
<1>5. Result = Items(d)' /\ call'.args[1] = c
    BY <1>2 DEF Result, Items
<1>6. AddsStep
    BY <1>1, <1>2, <1>5 DEF AddsStep
<1> QED
    BY <1>1, <1>2, <1>3, <1>4, <1>6 DEF StepRight, IInv, ClonesStep

LEMMA AppendEachRight ==
    ASSUME IInv, UNCHANGED program, program.items = "int",
           NEW d \in Slices, NEW s \in Slices, NEW operands,
           \/ \E x \in Operand : operands = <<x>>
           \/ \E x, y \in Operand : operands = <<x, y>>,
           AppendEach(d, s, operands)
    PROVE  StepRight
<1>1. /\ SlicesFit' /\ OthersStayOutside(d, s)
      /\ call'.op = "push" /\ (First \in Range(operands) => Items(s) # <<>>) =>
             Items(d)' = Items(s) \o [i \in DOMAIN operands |->
                             IF operands[i] = First THEN Items(s)[1] ELSE operands[i]]
    BY AppendEachGives DEF IInv
<1>2. /\ call'.op \in {"push", "push panics"} /\ call'.d = d /\ call'.s = s /\ call'.args = operands
      /\ UNCHANGED <<arr, map>>
    BY CallIs DEF AppendEach
<1>3. OthersProper'
    BY <1>2, OthersRemain DEF IInv
<1>4. KeepsStep
    BY <1>1, <1>2, OutsideKeeps
<1>5. Result = Items(d)'
    BY <1>2 DEF Result, Items
<1>6. AddsStep
    BY <1>1, <1>2, <1>5 DEF AddsStep
<1> QED
    BY <1>1, <1>2, <1>3, <1>4, <1>6 DEF StepRight, IInv, ClonesStep

LEMMA CopyRight ==
    ASSUME IInv, UNCHANGED program, NEW d \in Slices, NEW s \in Slices, Copy(d, s)
    PROVE  StepRight
<1>1. SlicesFit' /\ OthersStayUnseen(d)
    BY CopyGives DEF IInv
<1>2. call'.op = "copy" /\ call'.d = d /\ UNCHANGED <<arr, map>>
    BY CallIs DEF Copy
<1>3. OthersProper'
    BY <1>2, OthersRemain DEF IInv
<1>4. KeepsStep
    BY <1>1, <1>2 DEF OthersStayUnseen, KeepsStep
<1> QED
    BY <1>1, <1>2, <1>3, <1>4 DEF StepRight, IInv, AddsStep, ClonesStep

LEMMA CloneSliceRight ==
    ASSUME IInv, UNCHANGED program, NEW d \in Slices, NEW s \in Slices, CloneSlice(d, s)
    PROVE  StepRight
<1> DEFINE items == Items(s)
           copies == Clones(items)
<1>1. items \in Seq(Proper(program.items))
    BY ItemsAre DEF IInv, SlicesFit, Items
<1>2. items \in [DOMAIN items -> Proper(program.items)] /\ Enough(items)
    BY <1>1 DEF CloneSlice
<1>3. copies \in [DOMAIN items -> Proper(program.items)] /\ Copied(items, copies)
    <2> HIDE DEF items
    <2> QED
        BY <1>2, ClonesAre DEF IInv, SlicesFit
<1>4. copies \in Seq(Proper(program.items))
    <2> HIDE DEF copies
    <2>1. DOMAIN items = 1 .. Len(items) /\ Len(items) \in Nat
        BY <1>1
    <2> HIDE DEF items
    <2> QED
        BY <1>3, <2>1, FunctionIsSeq
<1>5. /\ Filled(d, copies) /\ UNCHANGED <<arr, map>>
      /\ call'.op = "clone" /\ call'.d = d /\ call'.s = s
    BY CallIs DEF CloneSlice
<1> HIDE DEF copies
<1>6. /\ SlicesFit' /\ win'[d].arr \notin UsedArrays
      /\ Items(d)' = copies /\ OthersStay(d)
    BY <1>4, <1>5, FilledGives DEF IInv
<1>7. OthersProper'
    BY <1>5, OthersRemain DEF IInv
<1>8. KeepsStep
    BY <1>5, <1>6, StayKeeps
<1>9. Result = copies
    BY <1>5, <1>6 DEF Result, Items
<1>10. ClonesStep
    BY <1>3, <1>5, <1>6, <1>9 DEF ClonesStep, Copied
<1> QED
    BY <1>5, <1>6, <1>7, <1>8, <1>10 DEF StepRight, IInv, AddsStep

\* A call that changes the array or the map only, and clones neither.
LEMMA OtherSetRight ==
    ASSUME IInv, UNCHANGED <<program, win, store>>, call'.op \in {"set", "read", "keep"},
           arr' \in [1 .. N -> Proper(program.items)],
           map' \in [DOMAIN map' -> Proper(program.items)],
           DOMAIN map' \subseteq Vals, IsFiniteSet(DOMAIN map')
    PROVE  StepRight
<1>1. SlicesFit'
    BY DEF IInv, SlicesFit
<1>2. OthersProper'
    BY DEF OthersProper
<1> QED
    BY <1>1, <1>2 DEF StepRight, IInv, AddsStep, KeepsStep, ClonesStep

LEMMA ArraySetRight ==
    ASSUME IInv, UNCHANGED program, NEW i \in 1 .. N, NEW x \in Given, ArraySet(i, x)
    PROVE  StepRight
<1>1. x \in Proper(program.items)
    BY GivenIsProper DEF IInv, SlicesFit
<1>2. arr' \in [1 .. N -> Proper(program.items)]
    BY <1>1 DEF ArraySet, IInv, OthersProper
<1>3. UNCHANGED <<win, store, map>> /\ call'.op = "set"
    BY CallIs DEF ArraySet
<1>4. /\ map' \in [DOMAIN map' -> Proper(program.items)]
      /\ DOMAIN map' \subseteq Vals /\ IsFiniteSet(DOMAIN map')
    BY <1>3 DEF IInv, OthersProper
<1> QED
    BY <1>2, <1>3, <1>4, OtherSetRight

LEMMA ArraySliceRight ==
    ASSUME IInv, UNCHANGED program, NEW d \in Slices, NEW i \in 0 .. N, NEW j \in 0 .. N,
           ArraySlice(d, i, j)
    PROVE  StepRight
<1>1. arr \in Seq(Proper(program.items)) /\ Len(arr) = N
    BY ElementsAssumption, FunctionIsSeq DEF IInv, OthersProper
<1>2. SubSeq(arr, i + 1, j) \in Seq(Proper(program.items))
    BY <1>1, ElementsAssumption
<1>3. /\ Filled(d, SubSeq(arr, i + 1, j)) /\ UNCHANGED <<arr, map>>
      /\ call'.op = "slice" /\ call'.d = d
    BY CallIs DEF ArraySlice
<1> QED
    BY <1>2, <1>3, FilledRight

\* One more key, or the same, with a value that may be seen.
LEMMA PutRight ==
    ASSUME IInv, UNCHANGED <<program, win, store, arr>>, call'.op \in {"set", "read"},
           NEW k \in Vals, NEW x \in Proper(program.items),
           map' = [j \in DOMAIN map \union {k} |-> IF j = k THEN x ELSE map[j]]
    PROVE  StepRight
<1>1. /\ arr \in [1 .. N -> Proper(program.items)]
      /\ map \in [DOMAIN map -> Proper(program.items)]
      /\ DOMAIN map \subseteq Vals /\ IsFiniteSet(DOMAIN map)
    BY DEF IInv, OthersProper
<1>2. DOMAIN map' = DOMAIN map \union {k}
    OBVIOUS
<1>3. IsFiniteSet(DOMAIN map')
    BY <1>1, <1>2, FS_AddElement
<1>4. map' \in [DOMAIN map' -> Proper(program.items)]
    BY <1>1, <1>2
<1> QED
    BY <1>1, <1>2, <1>3, <1>4, OtherSetRight

LEMMA MapSetRight ==
    ASSUME IInv, UNCHANGED program, NEW k \in Vals, NEW x \in Given, MapSet(k, x)
    PROVE  StepRight
<1>1. x \in Proper(program.items)
    BY GivenIsProper DEF IInv, SlicesFit
<1>2. /\ UNCHANGED <<win, store, arr>> /\ call'.op = "set"
      /\ map' = [j \in DOMAIN map \union {k} |-> IF j = k THEN x ELSE map[j]]
    BY CallIs DEF MapSet
<1> QED
    BY <1>1, <1>2, PutRight

LEMMA MapReadRight ==
    ASSUME IInv, UNCHANGED program, NEW k \in Vals, MapRead(k)
    PROVE  StepRight
<1>1. Default \in Proper(program.items)
    BY ElementsAssumption DEF Default, Proper
<1>2. /\ UNCHANGED <<win, store, arr>> /\ call'.op = "read"
      /\ map' = [j \in DOMAIN map \union {k} |-> IF j = k THEN Default ELSE map[j]]
    BY CallIs DEF MapRead
<1> QED
    BY <1>1, <1>2, PutRight

LEMMA MapKeepRight ==
    ASSUME IInv, UNCHANGED program, NEW keys \in SUBSET DOMAIN map, MapKeep(keys)
    PROVE  StepRight
<1>1. /\ arr \in [1 .. N -> Proper(program.items)]
      /\ map \in [DOMAIN map -> Proper(program.items)]
      /\ DOMAIN map \subseteq Vals /\ IsFiniteSet(DOMAIN map)
    BY DEF IInv, OthersProper
<1>2. /\ UNCHANGED <<win, store, arr>> /\ call'.op = "keep"
      /\ map' = [j \in keys |-> map[j]]
    BY CallIs DEF MapKeep
<1>3. IsFiniteSet(keys)
    BY <1>1, FS_Subset
<1>4. /\ map' \in [DOMAIN map' -> Proper(program.items)]
      /\ DOMAIN map' \subseteq Vals /\ IsFiniteSet(DOMAIN map')
    BY <1>1, <1>2, <1>3
<1> QED
    BY <1>1, <1>2, <1>4, OtherSetRight

\* A listing has each key of the map.
LEMMA ListingIs ==
    ASSUME IInv, NEW keys \in Listings
    PROVE  /\ keys \in Seq(DOMAIN map)
           /\ DOMAIN keys = 1 .. Len(keys) /\ Len(keys) \in Nat
<1>1. Cardinality(DOMAIN map) \in Nat
    BY FS_CardinalityType DEF IInv, OthersProper
<1>2. keys \in [1 .. Cardinality(DOMAIN map) -> DOMAIN map]
    BY DEF Listings, Surjection
<1>3. keys \in Seq(DOMAIN map)
    BY <1>1, <1>2, FunctionIsSeq
<1> QED
    BY <1>3

LEMMA MapKeysRight ==
    ASSUME IInv, UNCHANGED program, NEW d \in Slices, MapKeys(d)
    PROVE  StepRight
<1>1. PICK keys \in Listings : Filled(d, keys)
    BY DEF MapKeys
<1>2. DOMAIN map \subseteq Proper(program.items)
    BY DEF MapKeys, IInv, OthersProper, Proper
<1>3. keys \in Seq(Proper(program.items))
    BY <1>2, ListingIs
<1>4. UNCHANGED <<arr, map>> /\ call'.op = "keys" /\ call'.d = d
    BY CallIs DEF MapKeys
<1> QED
    BY <1>1, <1>3, <1>4, FilledRight

LEMMA MapValuesRight ==
    ASSUME IInv, UNCHANGED program, NEW d \in Slices, MapValues(d)
    PROVE  StepRight
<1>1. PICK keys \in Listings : Filled(d, [i \in DOMAIN keys |-> map[keys[i]]])
    BY DEF MapValues
<1> DEFINE values == [i \in DOMAIN keys |-> map[keys[i]]]
<1>2. map \in [DOMAIN map -> Proper(program.items)]
    BY DEF IInv, OthersProper
<1>3. keys \in Seq(DOMAIN map) /\ DOMAIN keys = 1 .. Len(keys) /\ Len(keys) \in Nat
    BY ListingIs
<1>4. \A i \in 1 .. Len(keys) : keys[i] \in DOMAIN map
    BY <1>3
<1>5. values \in [1 .. Len(keys) -> Proper(program.items)]
    BY <1>2, <1>3, <1>4
<1>6. Filled(d, values)
    BY <1>1
<1> HIDE DEF values
<1>7. values \in Seq(Proper(program.items))
    BY <1>3, <1>5, FunctionIsSeq
<1>8. UNCHANGED <<arr, map>> /\ call'.op = "values" /\ call'.d = d
    BY CallIs DEF MapValues
<1> QED
    BY <1>6, <1>7, <1>8, FilledRight

LEMMA CloneArrayRight ==
    ASSUME IInv, UNCHANGED program, CloneArray
    PROVE  StepRight
<1>1. Enough(arr) /\ arr' = Clones(arr) /\ UNCHANGED <<win, store, map>>
    BY DEF CloneArray
<1>2. call'.op = "clone array"
    BY CallIs DEF CloneArray
<1>3. arr \in [DOMAIN arr -> Proper(program.items)] /\ DOMAIN arr = 1 .. N
    BY DEF IInv, OthersProper
<1>4. arr' \in [1 .. N -> Proper(program.items)] /\ Copied(arr, arr')
    BY <1>1, <1>3, ClonesAre DEF IInv, SlicesFit
<1>5. SlicesFit'
    BY <1>1 DEF IInv, SlicesFit
<1>6. OthersProper'
    BY <1>1, <1>4 DEF IInv, OthersProper
<1>7. KeepsStep
    BY <1>1, NothingKeeps
<1>8. ClonesStep
    BY <1>2, <1>4 DEF ClonesStep, Copied
<1> QED
    BY <1>2, <1>5, <1>6, <1>7, <1>8 DEF StepRight, IInv, AddsStep

LEMMA CloneMapRight ==
    ASSUME IInv, UNCHANGED program, CloneMap
    PROVE  StepRight
<1>1. Enough(map) /\ map' = Clones(map) /\ UNCHANGED <<win, store, arr>>
    BY DEF CloneMap
<1>2. call'.op = "clone map"
    BY CallIs DEF CloneMap
<1>3. /\ map \in [DOMAIN map -> Proper(program.items)]
      /\ DOMAIN map \subseteq Vals /\ IsFiniteSet(DOMAIN map)
    BY DEF IInv, OthersProper
<1>4. map' \in [DOMAIN map -> Proper(program.items)] /\ Copied(map, map')
    BY <1>1, <1>3, ClonesAre DEF IInv, SlicesFit
<1>5. SlicesFit'
    BY <1>1 DEF IInv, SlicesFit
<1>6. OthersProper'
    <2>1. DOMAIN map' = DOMAIN map
        BY <1>4
    <2> QED
        BY <1>1, <1>3, <1>4, <2>1 DEF IInv, OthersProper
<1>7. KeepsStep
    BY <1>1, NothingKeeps
<1>8. ClonesStep
    BY <1>2, <1>4 DEF ClonesStep, Copied
<1> QED
    BY <1>2, <1>5, <1>6, <1>7, <1>8 DEF StepRight, IInv, AddsStep

\* Every step keeps the invariant, and does what the properties say.
LEMMA StepIsRight ==
    ASSUME IInv, Next
    PROVE  StepRight
<1>1. UNCHANGED program /\ program.slices \subseteq Slices
    BY ElementsAssumption DEF Next, IInv, SlicesFit
<1>2. MaxLen \in Nat /\ N \in Nat
    BY ElementsAssumption
<1>3. CASE SliceStep
    <2>1. PICK d \in program.slices, s \in program.slices :
            \/ \E c \in 0 .. MaxLen : \E n \in 0 .. c : d = s /\ Make(d, n, c)
            \/ \E x \in Given : d = s /\ Literal(d, x)
            \/ \E i, j \in 0 .. MaxLen : Cut(d, s, i, j)
            \/ \E i \in 0 .. MaxLen - 1, x \in Given : d = s /\ Set(d, i, x)
            \/ \E c \in program.slices : Append2(d, s, c)
            \/ \E x, y \in Operand :
                   program.items = "int" /\ (AppendEach(d, s, <<x>>) \/ AppendEach(d, s, <<x, y>>))
            \/ Copy(d, s)
            \/ CloneSlice(d, s)
        BY <1>3 DEF SliceStep
    <2>2. d \in Slices /\ s \in Slices
        BY <1>1
    <2>3. ASSUME NEW c \in 0 .. MaxLen, NEW n \in 0 .. c, Make(d, n, c) PROVE StepRight
        BY <1>1, <1>2, <2>2, <2>3, MakeRight
    <2>4. ASSUME NEW x \in Given, Literal(d, x) PROVE StepRight
        BY <1>1, <2>2, <2>4, LiteralRight
    <2>5. ASSUME NEW i \in 0 .. MaxLen, NEW j \in 0 .. MaxLen, Cut(d, s, i, j) PROVE StepRight
        BY <1>1, <1>2, <2>2, <2>5, CutRight
    <2>6. ASSUME NEW i \in 0 .. MaxLen - 1, NEW x \in Given, Set(d, i, x) PROVE StepRight
        BY <1>1, <1>2, <2>2, <2>6, SetRight
    <2>7. ASSUME NEW c \in program.slices, Append2(d, s, c) PROVE StepRight
        BY <1>1, <2>2, <2>7, Append2Right
    <2>8. ASSUME NEW x \in Operand, NEW y \in Operand, program.items = "int",
                 AppendEach(d, s, <<x>>) \/ AppendEach(d, s, <<x, y>>)
          PROVE  StepRight
        <3>1. CASE AppendEach(d, s, <<x>>)
            <4> DEFINE operands == <<x>>
            <4>1. AppendEach(d, s, operands) /\ \E z \in Operand : operands = <<z>>
                BY <3>1
            <4> HIDE DEF operands
            <4> QED
                BY <1>1, <2>2, <2>8, <4>1, AppendEachRight
        <3>2. CASE AppendEach(d, s, <<x, y>>)
            <4> DEFINE operands == <<x, y>>
            <4>1. AppendEach(d, s, operands) /\ \E z, w \in Operand : operands = <<z, w>>
                BY <3>2
            <4> HIDE DEF operands
            <4> QED
                BY <1>1, <2>2, <2>8, <4>1, AppendEachRight
        <3> QED
            BY <2>8, <3>1, <3>2
    <2>9. ASSUME Copy(d, s) PROVE StepRight
        BY <1>1, <2>2, <2>9, CopyRight
    <2>10. ASSUME CloneSlice(d, s) PROVE StepRight
        BY <1>1, <2>2, <2>10, CloneSliceRight
    <2> QED
        BY <2>1, <2>3, <2>4, <2>5, <2>6, <2>7, <2>8, <2>9, <2>10
<1>4. CASE OtherStep
    <2>1. ASSUME NEW i \in 1 .. N, NEW x \in Given, ArraySet(i, x) PROVE StepRight
        BY <1>1, <2>1, ArraySetRight
    <2>2. ASSUME NEW d \in program.slices, NEW i \in 0 .. N, NEW j \in 0 .. N,
                 ArraySlice(d, i, j)
          PROVE  StepRight
        BY <1>1, <2>2, ArraySliceRight
    <2>3. ASSUME NEW k \in Vals, NEW x \in Given, MapSet(k, x) PROVE StepRight
        BY <1>1, <2>3, MapSetRight
    <2>4. ASSUME NEW k \in Vals, MapRead(k) PROVE StepRight
        BY <1>1, <2>4, MapReadRight
    <2>5. ASSUME NEW keys \in SUBSET DOMAIN map, MapKeep(keys) PROVE StepRight
        BY <1>1, <2>5, MapKeepRight
    <2>6. ASSUME NEW d \in program.slices, MapKeys(d) \/ MapValues(d) PROVE StepRight
        BY <1>1, <2>6, MapKeysRight, MapValuesRight
    <2>7. ASSUME CloneArray PROVE StepRight
        BY <1>1, <2>7, CloneArrayRight
    <2>8. ASSUME CloneMap PROVE StepRight
        BY <1>1, <2>8, CloneMapRight
    <2> QED
        BY <1>4, <2>1, <2>2, <2>3, <2>4, <2>5, <2>6, <2>7, <2>8 DEF OtherStep
<1> QED
    BY <1>3, <1>4 DEF Next

LEMMA StutterKeeps ==
    ASSUME IInv, UNCHANGED vars
    PROVE  IInv'
<1>1. SlicesFit'
    BY DEF IInv, SlicesFit, vars
<1>2. OthersProper'
    BY DEF IInv, OthersProper, vars
<1> QED
    BY <1>1, <1>2 DEF IInv

-----------------------------------------------------------------------------
(* Theorems *)

\* The window of every slice lies within its array, and slices, the array and
\* the map hold elements of their type.
THEOREM WindowsFit == Spec => []IInv
<1>1. Init => IInv
    BY InitIInv
<1>2. IInv /\ [Next]_vars => IInv'
    BY StepIsRight, StutterKeeps DEF StepRight
<1> QED
    BY <1>1, <1>2, PTL DEF Spec

\* No element can be read that was not written: whatever grows, is cut, copied or
\* cloned, the memory that the capacity keeps ready stays out of sight.
THEOREM SpareIsNeverSeen == Spec => []NoSpareSeen
<1>1. IInv => NoSpareSeen
    <2> SUFFICES ASSUME IInv PROVE NoSpareSeen
        OBVIOUS
    <2>1. ASSUME NEW v \in Slices PROVE Spare \notin Range(Items(v))
        <3>1. Items(v) \in Seq(Proper(program.items))
            BY ItemsAre DEF IInv, SlicesFit, Items
        <3>2. \A i \in DOMAIN Items(v) : Items(v)[i] \in Proper(program.items)
            BY <3>1
        <3> QED
            BY <3>2, ProperIsElem DEF Range
    <2>2. Spare \notin Range(arr) \union Range(map)
        BY ProperIsElem DEF IInv, OthersProper, Range
    <2> QED
        BY <2>1, <2>2 DEF NoSpareSeen
<1> QED
    BY <1>1, WindowsFit, PTL

\* append gives the elements of the one and then those of the other, whoever
\* shares the memory, as long as the overlap is none that std::copy leaves open.
THEOREM AppendsAdd == Spec => AppendAdds
<1>1. IInv /\ [Next]_vars => [AddsStep]_vars
    BY StepIsRight DEF StepRight
<1> QED
    BY <1>1, WindowsFit, PTL DEF Spec, AppendAdds, AddsStep

\* What another slice sees changes only where an append adds or a copy writes.
THEOREM OthersAreKept == Spec => OthersKeep
<1>1. IInv /\ [Next]_vars => [KeepsStep]_vars
    BY StepIsRight DEF StepRight
<1> QED
    BY <1>1, WindowsFit, PTL DEF Spec, OthersKeep, KeepsStep

\* A clone is equal to its original and shares neither array nor reference.
THEOREM ClonesAreDeep == Spec => CloneDeep
<1>1. IInv /\ [Next]_vars => [ClonesStep]_vars
    BY StepIsRight DEF StepRight
<1> QED
    BY <1>1, WindowsFit, PTL DEF Spec, CloneDeep, ClonesStep

-----------------------------------------------------------------------------
(* Runes and bytes *)


\* A text keeps what it begins with when something is written after it.
LEMMA Prefixed ==
    ASSUME NEW u \in Seq(Byte), NEW t \in Seq(Byte)
    PROVE  /\ u \o t \in Seq(Byte)
           /\ Len(u \o t) = Len(u) + Len(t)
           /\ \A i \in 1 .. Len(u) : (u \o t)[i] = u[i]
    OBVIOUS

-----------------------------------------------------------------------------
\* The table by the length of the sequence that a byte leads.
LEMMA LeadOfTwo ==
    ASSUME NEW a \in Nat, 194 <= a, a <= 223, NEW x \in Nat
    PROVE  /\ Size(a) = 2
           /\ x \in Accept(a) <=> 128 <= x /\ x <= 191
    BY DEF Size, Accept, Continuation

LEMMA LeadOfThree ==
    ASSUME NEW a \in Nat, 224 <= a, a <= 239, NEW x \in Nat
    PROVE  /\ Size(a) = 3
           /\ x \in Accept(a) <=> /\ 128 <= x /\ x <= 191
                                  /\ a = 224 => 160 <= x
                                  /\ a = 237 => x <= 159
    BY DEF Size, Accept, Continuation

LEMMA LeadOfFour ==
    ASSUME NEW a \in Nat, 240 <= a, a <= 244, NEW x \in Nat
    PROVE  /\ Size(a) = 4
           /\ x \in Accept(a) <=> /\ 128 <= x /\ x <= 191
                                  /\ a = 240 => 144 <= x
                                  /\ a = 244 => x <= 143
    BY DEF Size, Accept, Continuation

-----------------------------------------------------------------------------
\* The last six bits of a rune and the bits before them.
LEMMA SixBits ==
    ASSUME NEW r \in Nat
    PROVE  /\ r \div 64 \in Nat
           /\ r % 64 \in Nat /\ r % 64 <= 63
           /\ r = 64 * (r \div 64) + (r % 64)
<1>1. r \div 64 \in Nat
    OBVIOUS
<1>2. r % 64 \in Nat /\ r % 64 <= 63
    OBVIOUS
<1>3. r = 64 * (r \div 64) + (r % 64)
    OBVIOUS
<1> QED BY <1>1, <1>2, <1>3

\* A shift by twelve bits is two shifts by six, one by eighteen three.
LEMMA Shifts ==
    ASSUME NEW r \in Nat
    PROVE  /\ r \div 4096 = (r \div 64) \div 64
           /\ r \div 262144 = ((r \div 64) \div 64) \div 64
<1>1. r \div 4096 = (r \div 64) \div 64
    OBVIOUS
<1>2. r \div 262144 = ((r \div 64) \div 64) \div 64
    OBVIOUS
<1> QED BY <1>1, <1>2

\* A continuation byte carries six bits.
LEMMA Carried ==
    ASSUME NEW x \in Nat, 128 <= x, x <= 191
    PROVE  x % 64 = x - 128
    OBVIOUS

-----------------------------------------------------------------------------
\* What the decoder does with a well-formed sequence of each length.
LEMMA ReadTwo ==
    ASSUME NEW q \in Nat, 2 <= q, q <= 31, NEW c \in Nat, c <= 63,
           NEW t \in Seq(Byte)
    PROVE  DecodeRune(<<192 + q, 128 + c>> \o t) = <<64 * q + c, 2>>
<1> DEFINE u == <<192 + q, 128 + c>>
           s == u \o t
<1>1. u \in Seq(Byte) /\ Len(u) = 2
    BY DEF Byte
<1>2. Len(s) >= 2 /\ s[1] = 192 + q /\ s[2] = 128 + c
    BY <1>1, Prefixed
<1> HIDE DEF s
<1>3. Size(s[1]) = 2 /\ s[2] \in Accept(s[1])
    <2>1. 192 + q \in Nat /\ 194 <= 192 + q /\ 192 + q <= 223 /\ 128 + c \in Nat
        OBVIOUS
    <2> QED BY <1>2, <2>1, LeadOfTwo
<1>4. (192 + q) % 32 = q /\ (128 + c) % 64 = c
    OBVIOUS
<1>5. ~Malformed(s)
    BY <1>2, <1>3 DEF Malformed
<1>6. Value(s) = 64 * q + c
    BY <1>2, <1>3, <1>4 DEF Value
<1>7. DecodeRune(s) = <<64 * q + c, 2>>
    BY <1>2, <1>3, <1>5, <1>6 DEF DecodeRune
<1> QED BY <1>7 DEF s

LEMMA ReadThree ==
    ASSUME NEW q \in Nat, q <= 15, NEW m \in Nat, m <= 63,
           NEW c \in Nat, c <= 63,
           q = 0 => m >= 32, q = 13 => m <= 31, NEW t \in Seq(Byte)
    PROVE  DecodeRune(<<224 + q, 128 + m, 128 + c>> \o t)
               = <<4096 * q + 64 * m + c, 3>>
<1> DEFINE u == <<224 + q, 128 + m, 128 + c>>
           s == u \o t
<1>1. u \in Seq(Byte) /\ Len(u) = 3
    BY DEF Byte
<1>2. Len(s) >= 3 /\ s[1] = 224 + q /\ s[2] = 128 + m /\ s[3] = 128 + c
    BY <1>1, Prefixed
<1> HIDE DEF s
<1>3. 224 + q \in Nat /\ 224 <= 224 + q /\ 224 + q <= 239 /\ 128 + m \in Nat
    OBVIOUS
<1>4. Size(s[1]) = 3 /\ s[2] \in Accept(s[1])
    BY <1>2, <1>3, LeadOfThree
<1>5. (224 + q) % 16 = q /\ (128 + m) % 64 = m /\ (128 + c) % 64 = c
    OBVIOUS
<1>6. ~Malformed(s)
    BY <1>2, <1>4 DEF Malformed, Continuation
<1>7. Value(s) = 4096 * q + 64 * m + c
    BY <1>2, <1>4, <1>5 DEF Value
<1>8. DecodeRune(s) = <<4096 * q + 64 * m + c, 3>>
    BY <1>2, <1>4, <1>6, <1>7 DEF DecodeRune
<1> QED BY <1>8 DEF s

LEMMA ReadFour ==
    ASSUME NEW q \in Nat, q <= 4, NEW l \in Nat, l <= 63,
           NEW m \in Nat, m <= 63, NEW c \in Nat, c <= 63, q = 0 => l >= 16, q = 4 => l <= 15,
           NEW t \in Seq(Byte)
    PROVE  DecodeRune(<<240 + q, 128 + l, 128 + m, 128 + c>> \o t)
               = <<262144 * q + 4096 * l + 64 * m + c, 4>>
<1> DEFINE u == <<240 + q, 128 + l, 128 + m, 128 + c>>
           s == u \o t
<1>1. u \in Seq(Byte) /\ Len(u) = 4
    BY DEF Byte
<1>2. /\ Len(s) >= 4 /\ s[1] = 240 + q /\ s[2] = 128 + l
      /\ s[3] = 128 + m /\ s[4] = 128 + c
    BY <1>1, Prefixed
<1> HIDE DEF s
<1>3. 240 + q \in Nat /\ 240 <= 240 + q /\ 240 + q <= 244 /\ 128 + l \in Nat
    OBVIOUS
<1>4. Size(s[1]) = 4 /\ s[2] \in Accept(s[1])
    BY <1>2, <1>3, LeadOfFour
<1>5. /\ (240 + q) % 8 = q /\ (128 + l) % 64 = l
      /\ (128 + m) % 64 = m /\ (128 + c) % 64 = c
    OBVIOUS
<1>6. ~Malformed(s)
    BY <1>2, <1>4 DEF Malformed, Continuation
<1>7. Value(s) = 262144 * q + 4096 * l + 64 * m + c
    <2>1. Value(s) = 262144 * (s[1] % 8) + 4096 * (s[2] % 64)
                         + 64 * (s[3] % 64) + (s[4] % 64)
        BY <1>4 DEF Value
    <2>2. /\ s[1] % 8 = q /\ s[2] % 64 = l
          /\ s[3] % 64 = m /\ s[4] % 64 = c
        BY <1>2, <1>5
    <2> QED BY <2>1, <2>2
<1>8. DecodeRune(s) = <<262144 * q + 4096 * l + 64 * m + c, 4>>
    BY <1>2, <1>4, <1>6, <1>7 DEF DecodeRune
<1> QED BY <1>8 DEF s

-----------------------------------------------------------------------------
\* The form of two bytes is read back.
LEMMA Form2Read ==
    ASSUME NEW r \in Nat, 128 <= r, r < 2047, NEW t \in Seq(Byte)
    PROVE  DecodeRune(Form2(r) \o t) = <<r, 2>>
<1>1. r \in Nat
    OBVIOUS
<1>2. r \div 64 \in Nat /\ 2 <= r \div 64 /\ r \div 64 <= 31
    BY <1>1, SixBits
<1>3. r % 64 \in Nat /\ r % 64 <= 63 /\ 64 * (r \div 64) + (r % 64) = r
    BY <1>1, SixBits
<1> DEFINE h == r \div 64
           c == r % 64
<1>4. Form2(r) = <<192 + h, 128 + c>>
    BY DEF Form2
<1> HIDE DEF h, c
<1>5. DecodeRune(<<192 + h, 128 + c>> \o t) = <<64 * h + c, 2>>
    BY <1>2, <1>3, ReadTwo DEF h, c
<1> QED BY <1>3, <1>4, <1>5 DEF h, c

\* The form of three bytes is read back: the second byte is in the range that
\* keeps out what two bytes hold (after 224) and the surrogates (after 237).
LEMMA Form3Read ==
    ASSUME NEW r \in Nat, 2048 <= r, r <= 65535, ~IsSurrogate(r), NEW t \in Seq(Byte)
    PROVE  DecodeRune(Form3(r) \o t) = <<r, 3>>
<1> DEFINE h == r \div 64
           q == h \div 64
           m == h % 64
           c == r % 64
<1>1. r \in Nat
    OBVIOUS
<1>2. h \in Nat /\ 32 <= h /\ h <= 1023
    BY <1>1, SixBits
<1>3. h \in Nat
    BY <1>2
<1>4. Form3(r) = <<224 + q, 128 + m, 128 + c>>
    BY <1>1, Shifts DEF Form3
<1>5. r = 64 * h + c /\ c \in Nat /\ c <= 63
    BY <1>1, SixBits
<1>6. h = 64 * q + m /\ m \in Nat /\ m <= 63 /\ q \in Nat
    BY <1>3, SixBits
<1> HIDE DEF h, q, m, c
<1>7. q <= 15
    BY <1>2, <1>6
<1>8. (q = 0 => m >= 32) /\ (q = 13 => m <= 31)
    BY <1>2, <1>5, <1>6 DEF IsSurrogate
<1>9. r = 4096 * q + 64 * m + c
    BY <1>5, <1>6
<1>10. DecodeRune(<<224 + q, 128 + m, 128 + c>> \o t)
           = <<4096 * q + 64 * m + c, 3>>
    BY <1>5, <1>6, <1>7, <1>8, ReadThree
<1> QED BY <1>4, <1>9, <1>10

\* The form of four bytes is read back.
LEMMA Form4Read ==
    ASSUME NEW r \in Nat, 65536 <= r, r <= MaxRune, NEW t \in Seq(Byte)
    PROVE  DecodeRune(Form4(r) \o t) = <<r, 4>>
<1> DEFINE h == r \div 64
           k == h \div 64
           q == k \div 64
           l == k % 64
           m == h % 64
           c == r % 64
<1>1. r \in Nat
    OBVIOUS
<1>2. Form4(r) = <<240 + q, 128 + l, 128 + m, 128 + c>>
    BY <1>1, Shifts DEF Form4
<1>3. r = 64 * h + c /\ c \in Nat /\ c <= 63 /\ h \in Nat
    BY <1>1, SixBits
<1> HIDE DEF c
<1>4. 1024 <= h /\ h <= 17407
    BY <1>3 DEF MaxRune
<1>5. h \in Nat
    BY <1>3
<1>6. h = 64 * k + m /\ m \in Nat /\ m <= 63 /\ k \in Nat
    BY <1>5, SixBits
<1> HIDE DEF h, m
<1>7. 16 <= k /\ k <= 271
    BY <1>4, <1>6
<1>8. k \in Nat
    BY <1>6
<1> HIDE DEF k
<1>9. k = 64 * q + l /\ l \in Nat /\ l <= 63 /\ q \in Nat
    BY <1>8, SixBits
<1> HIDE DEF l, q
<1>10. q <= 4 /\ (q = 0 => l >= 16) /\ (q = 4 => l <= 15)
    BY <1>7, <1>9
<1>11. r = 262144 * q + 4096 * l + 64 * m + c
    BY <1>3, <1>6, <1>9
<1>12. DecodeRune(<<240 + q, 128 + l, 128 + m, 128 + c>> \o t)
           = <<262144 * q + 4096 * l + 64 * m + c, 4>>
    BY <1>3, <1>6, <1>9, <1>10, ReadFour
<1> QED BY <1>2, <1>11, <1>12

-----------------------------------------------------------------------------
\* Every code point but 2047 that the runtime encodes (utf8_rune_to_bytes) is
\* the one that it decodes (utf8_decode_rune_str), in as many bytes, whatever
\* text follows it.
THEOREM RuneReadBack ==
    ASSUME NEW r \in Int, IsScalar(r), r /= Rune2Max, NEW t \in Seq(Byte)
    PROVE  DecodeRune(RuneToBytes(r) \o t) = <<r, Len(RuneToBytes(r))>>
<1>1. CASE 0 <= r /\ r <= 127
    <2>0. r \in Byte /\ ~(r < 0) /\ r <= Rune1Max
        BY <1>1 DEF Byte, Rune1Max
    <2>1. RuneToBytes(r) = <<r>> /\ <<r>> \in Seq(Byte)
      <3>1. RuneToBytes(r) = <<r>>
          BY ONLY <2>0 DEF RuneToBytes
      <3> QED
          BY <2>0, <3>1
    <2>2. Len(<<r>> \o t) >= 1 /\ (<<r>> \o t)[1] = r
        BY <2>1, Prefixed
    <2>3. Size(r) = 1
        BY <1>1 DEF Size
    <2>4. LET s == <<r>> \o t IN ~Malformed(s) /\ Value(s) = r
        BY <2>2, <2>3 DEF Malformed, Value
    <2> QED BY <2>1, <2>2, <2>3, <2>4 DEF DecodeRune
<1>2. CASE 128 <= r /\ r < 2047
    <2>1. RuneToBytes(r) = Form2(r)
        BY <1>2 DEF RuneToBytes, Rune1Max, Rune2Max
    <2>2. Len(Form2(r)) = 2
        BY DEF Form2
    <2> QED BY <1>2, <2>1, <2>2, Form2Read
<1>3. CASE 2048 <= r /\ r <= 65535
    <2>1. RuneToBytes(r) = Form3(r) /\ ~IsSurrogate(r)
        BY <1>3 DEF RuneToBytes, IsScalar, Rune1Max, Rune2Max, Rune3Max
    <2>2. Len(Form3(r)) = 3
        BY DEF Form3
    <2> QED BY <1>3, <2>1, <2>2, Form3Read
<1>4. CASE 65536 <= r /\ r <= MaxRune
    <2>1. RuneToBytes(r) = Form4(r)
        BY <1>4 DEF RuneToBytes, IsScalar, Rune1Max, Rune2Max, Rune3Max
    <2>2. Len(Form4(r)) = 4
        BY DEF Form4
    <2> QED BY <1>4, <2>1, <2>2, Form4Read
<1>5. \/ 0 <= r /\ r <= 127
      \/ 128 <= r /\ r < 2047
      \/ 2048 <= r /\ r <= 65535
      \/ 65536 <= r /\ r <= MaxRune
    BY DEF IsScalar, Rune2Max
<1> QED BY <1>1, <1>2, <1>3, <1>4, <1>5

\* 2047 is the exception: it is written in three bytes, which the decoder takes
\* for an error of one byte.
THEOREM BoundaryRuneLost ==
    ASSUME NEW t \in Seq(Byte)
    PROVE  DecodeRune(RuneToBytes(Rune2Max) \o t) = <<RuneError, 1>>
<1>1. RuneToBytes(Rune2Max) = <<224, 159, 191>>
    BY DEF RuneToBytes, Form3, IsScalar, IsSurrogate, MaxRune,
           Rune1Max, Rune2Max, Rune3Max
<1>2. <<224, 159, 191>> \in Seq(Byte)
    BY DEF Byte
<1>3. LET s == <<224, 159, 191>> \o t
      IN  Len(s) >= 3 /\ s[1] = 224 /\ s[2] = 159
    BY <1>2, Prefixed
<1>4. Size(224) = 3 /\ 159 \notin Accept(224)
    BY DEF Size, Accept
<1> QED BY <1>1, <1>3, <1>4 DEF DecodeRune, Malformed

-----------------------------------------------------------------------------
(* Induction over numbers, out of the well-foundedness of finite subsets *)

\* Some member of a family of finite sets includes no other.
LEMMA Minimal ==
  ASSUME NEW S, NEW F, F # {}, \A A \in F : IsFiniteSet(A) /\ A \subseteq S
  PROVE  \E A \in F : \A B \in F : B \subseteq A => B = A
<1>1. IsWellFoundedOn(StrictSubsetOrdering(S), FiniteSubsetsOf(S))
  BY FS_StrictSubsetOrderingWellFounded
<1>2. F \subseteq FiniteSubsetsOf(S)
  BY DEF FiniteSubsetsOf
<1>3. \E A \in F : \A B \in F : ~ (<<B, A>> \in StrictSubsetOrdering(S))
  BY <1>1, <1>2, WFMin
<1>4. \A A, B \in F : B \subseteq A /\ B # A => <<B, A>> \in StrictSubsetOrdering(S)
  BY <1>2 DEF StrictSubsetOrdering, FiniteSubsetsOf
<1> QED
  BY <1>3, <1>4

\* A set of numbers has a least one.
LEMMA Least ==
  ASSUME NEW T \in SUBSET Nat, T # {}
  PROVE  \E x \in T : \A y \in T : x <= y
<1> DEFINE F == {1 .. n : n \in T}
<1>1. F # {}
  OBVIOUS
<1>2. \A A \in F : IsFiniteSet(A) /\ A \subseteq Nat
  <2>1. \A n \in T : IsFiniteSet(1 .. n)
    BY FS_Interval
  <2> QED
    BY <2>1
<1>3. \E A \in F : \A B \in F : B \subseteq A => B = A
  <2> HIDE DEF F
  <2> QED
    BY <1>1, <1>2, Minimal
<1>4. PICK A \in F : \A B \in F : B \subseteq A => B = A
  BY <1>3
<1>5. PICK x \in T : A = 1 .. x
  OBVIOUS
<1>6. ASSUME NEW y \in T, y < x
      PROVE  FALSE
  <2>1. 1 .. y \subseteq 1 .. x
    BY <1>6
  <2>2. 1 .. y = 1 .. x
    BY <1>4, <1>5, <2>1
  <2>3. x \in 1 .. x /\ x \notin 1 .. y
    BY <1>6
  <2> QED
    BY <2>2, <2>3
<1> QED
  BY <1>6

\* Induction, with the numbers a property holds of as a set.
LEMMA CountingUp ==
  ASSUME NEW P, 0 \in P, \A n \in Nat : n \in P => n + 1 \in P
  PROVE  Nat \subseteq P
<1> DEFINE T == {n \in Nat : n \notin P}
<1>1. SUFFICES ASSUME T # {}
               PROVE  FALSE
  OBVIOUS
<1>2. T \in SUBSET Nat
  OBVIOUS
<1>3. \E x \in T : \A y \in T : x <= y
  <2> HIDE DEF T
  <2> QED
    BY <1>1, <1>2, Least
<1>4. PICK x \in T : \A y \in T : x <= y
  BY <1>3
<1>5. x - 1 \in Nat /\ x - 1 \notin T
  BY <1>4
<1> QED
  BY <1>4, <1>5

-----------------------------------------------------------------------------
(* Functions defined by recursion *)

\* f computes, from b on, n times the next value with step.
Computed(f, n, T, b, step) ==
  f \in [0 .. n -> T] /\ f[0] = b /\ \A m \in 1 .. n : f[m] = step[m][f[m - 1]]

\* Functions that are defined by recursion on their number exist.
LEMMA Computes ==
  ASSUME NEW top \in Nat, NEW T, NEW b \in T, NEW step \in [1 .. top -> [T -> T]]
  PROVE  \E f : Computed(f, top, T, b, step)
<1> DEFINE P == {n \in Nat : n <= top => \E f : Computed(f, n, T, b, step)}
<1>1. 0 \in P
  <2>1. Computed([m \in 0 .. 0 |-> b], 0, T, b, step)
    BY DEF Computed
  <2> QED
    BY <2>1
<1>2. ASSUME NEW n \in Nat, n \in P
      PROVE  n + 1 \in P
  <2> SUFFICES ASSUME n + 1 <= top
               PROVE  \E f : Computed(f, n + 1, T, b, step)
    OBVIOUS
  <2>1. PICK g : Computed(g, n, T, b, step)
    BY <1>2
  <2> DEFINE h == [m \in 0 .. n + 1 |-> IF m = n + 1 THEN step[n + 1][g[n]] ELSE g[m]]
  <2>2. g \in [0 .. n -> T] /\ g[0] = b /\ \A m \in 1 .. n : g[m] = step[m][g[m - 1]]
    BY <2>1 DEF Computed
  <2>3. n + 1 \in 1 .. top /\ n \in 0 .. n
    OBVIOUS
  <2>4. step[n + 1][g[n]] \in T
    BY <2>2, <2>3
  <2>5. h \in [0 .. n + 1 -> T]
    BY <2>2, <2>4
  <2>6. h[0] = b
    BY <2>2
  <2>7. \A m \in 1 .. n + 1 : h[m] = step[m][h[m - 1]]
    <3> TAKE m \in 1 .. n + 1
    <3>1. CASE m = n + 1
      <4>1. h[n + 1] = step[n + 1][g[n]] /\ h[n] = g[n] /\ m - 1 = n
        BY <3>1
      <4> HIDE DEF h
      <4> QED
        BY <3>1, <4>1
    <3>2. CASE m # n + 1
      <4>1. m \in 1 .. n /\ h[m] = g[m] /\ h[m - 1] = g[m - 1]
        BY <3>2
      <4> HIDE DEF h
      <4> QED
        BY <4>1, <2>2
    <3> QED
      BY <3>1, <3>2
  <2> HIDE DEF h
  <2> QED
    BY <2>5, <2>6, <2>7 DEF Computed
<1>3. Nat \subseteq P
  <2> HIDE DEF P
  <2> QED
    BY <1>1, <1>2, CountingUp
<1> QED
  BY <1>3

\* What follows the rule where it is defined stays in T.
LEMMA StaysComputed ==
  ASSUME NEW top \in Nat, NEW T, NEW b \in T, NEW step \in [1 .. top -> [T -> T]],
         NEW w, w = [x \in 0 .. top |-> w[x]], w[0] = b,
         \A n \in 1 .. top : w[n - 1] \in T => w[n] = step[n][w[n - 1]]
  PROVE  Computed(w, top, T, b, step)
<1> DEFINE P == {n \in Nat : n <= top => w[n] \in T}
<1>1. 0 \in P
  OBVIOUS
<1>2. ASSUME NEW n \in Nat, n \in P
      PROVE  n + 1 \in P
  <2> SUFFICES ASSUME n + 1 <= top
               PROVE  w[n + 1] \in T
    OBVIOUS
  <2>1. w[n] \in T /\ n + 1 \in 1 .. top /\ (n + 1) - 1 = n
    BY <1>2
  <2>2. w[n + 1] = step[n + 1][w[n]]
    BY <2>1
  <2> QED
    BY <2>1, <2>2
<1>3. Nat \subseteq P
  <2> HIDE DEF P
  <2> QED
    BY <1>1, <1>2, CountingUp
<1>4. \A x \in 0 .. top : w[x] \in T
  BY <1>3
<1>5. w \in [0 .. top -> T]
  BY <1>4
<1>6. \A n \in 1 .. top : w[n] = step[n][w[n - 1]]
  <2> TAKE n \in 1 .. top
  <2>1. n - 1 \in 0 .. top
    OBVIOUS
  <2> QED
    BY <1>4, <2>1
<1> QED
  BY <1>5, <1>6 DEF Computed

-----------------------------------------------------------------------------
(* Sequences of sequences *)

\* How FlattenSeq gathers q.
Gathering(q, S) == [i \in 1 .. Len(q) |-> [y \in Seq(S) |-> y \o q[i]]]

\* The steps of FlattenSeq, as a function from a number to what its step does.
LEMMA GatheringTyped ==
  ASSUME NEW S, NEW q \in Seq(Seq(S))
  PROVE  /\ Len(q) \in Nat
         /\ \A i \in 1 .. Len(q) : q[i] \in Seq(S)
         /\ Gathering(q, S) \in [1 .. Len(q) -> [Seq(S) -> Seq(S)]]
<1>1. Len(q) \in Nat /\ \A i \in 1 .. Len(q) : q[i] \in Seq(S)
  OBVIOUS
<1>2. \A i \in 1 .. Len(q) : \A y \in Seq(S) : y \o q[i] \in Seq(S)
  BY <1>1
<1> QED
  BY <1>1, <1>2 DEF Gathering

\* FlattenSeq is what such steps compute.
LEMMA FlattenIs ==
  ASSUME NEW S, NEW q \in Seq(Seq(S)), NEW f,
         Computed(f, Len(q), Seq(S), <<>>, Gathering(q, S))
  PROVE  FlattenSeq(q) = f[Len(q)]
<1> DEFINE n == Len(q)
           Step(h, i) == IF i = 1 THEN q[i] ELSE h[i - 1] \o q[i]
           g == [i \in 1 .. n |-> f[i]]
           h == CHOOSE w : w = [i \in 1 .. n |-> Step(w, i)]
<1>0. n \in Nat /\ \A i \in 1 .. n : q[i] \in Seq(S)
  BY GatheringTyped
<1>1. /\ f \in [0 .. n -> Seq(S)] /\ f[0] = <<>>
      /\ \A i \in 1 .. n : f[i] = f[i - 1] \o q[i]
  <2>1. f \in [0 .. n -> Seq(S)] /\ f[0] = <<>>
    BY DEF Computed
  <2>2. ASSUME NEW i \in 1 .. n
        PROVE  f[i] = f[i - 1] \o q[i]
    <3>1. i - 1 \in 0 .. n
      BY <1>0
    <3>2. f[i] = Gathering(q, S)[i][f[i - 1]]
      BY DEF Computed
    <3> QED
      BY <2>1, <3>1, <3>2 DEF Gathering
  <2> QED
    BY <2>1, <2>2
<1>2. CASE n = 0
  <2>1. q = <<>>
    BY <1>2
  <2> QED
    BY <1>1, <1>2, <2>1 DEF FlattenSeq
<1>3. CASE n # 0
  <2>1. g = [i \in 1 .. n |-> Step(g, i)]
    <3>1. \A i \in 1 .. n : g[i] = Step(g, i)
      <4> TAKE i \in 1 .. n
      <4>1. CASE i = 1
        <5>1. f[1] = <<>> \o q[1]
          <6>1. 1 \in 1 .. n /\ 1 - 1 = 0
            BY <4>1
          <6>2. f[1] = f[1 - 1] \o q[1]
            BY <6>1, <1>1, Zenon
          <6> QED
            BY <6>1, <6>2, <1>1
        <5>2. <<>> \o q[1] = q[1]
          BY <4>1, <1>0
        <5> QED
          BY <4>1, <5>1, <5>2
      <4>2. CASE i # 1
        <5>1. i - 1 \in 1 .. n
          BY <4>2, <1>0
        <5> QED
          BY <4>2, <5>1, <1>1
      <4> QED
        BY <4>1, <4>2
    <3>2. g = [i \in 1 .. n |-> g[i]]
      OBVIOUS
    <3> HIDE DEF g, Step
    <3> QED
      BY <3>1, <3>2
  <2>2. h = [i \in 1 .. n |-> Step(h, i)]
    <3> HIDE DEF g, Step
    <3> QED
      BY <2>1
  <2>3. \A i \in 1 .. n : h[i] = Step(h, i)
    <3> HIDE DEF h, Step
    <3> QED
      BY <2>2
  <2>4. \A i \in 1 .. n : h[i] = f[i]
    <3> DEFINE P == {i \in Nat : i + 1 <= n => h[i + 1] = f[i + 1]}
    <3>a. 1 \in 1 .. n
      BY <1>0, <1>3
    <3>1. 0 \in P
      <4>1. h[1] = q[1]
        <5> HIDE DEF h
        <5> QED
          BY <2>3, <3>a
      <4>2. f[1] = <<>> \o q[1] /\ <<>> \o q[1] = q[1]
        <5>1. f[1] = f[1 - 1] \o q[1]
          BY <3>a, <1>1, Zenon
        <5>2. 1 - 1 = 0
          OBVIOUS
        <5> QED
          BY <5>1, <5>2, <3>a, <1>0, <1>1
      <4> HIDE DEF h
      <4> QED
        BY <4>1, <4>2
    <3>2. ASSUME NEW i \in Nat, i \in P
          PROVE  i + 1 \in P
      <4> SUFFICES ASSUME i + 2 <= n
                   PROVE  h[i + 2] = f[i + 2]
        <5>1. (i + 1) + 1 = i + 2
          OBVIOUS
        <5> HIDE DEF h
        <5> QED
          BY <5>1
      <4>1. i + 2 \in 1 .. n /\ (i + 2) - 1 = i + 1 /\ i + 2 # 1
        BY <1>0
      <4>2. f[i + 2] = f[i + 1] \o q[i + 2]
        BY <4>1, <1>1
      <4>3. h[i + 2] = h[i + 1] \o q[i + 2]
        <5> HIDE DEF h
        <5> QED
          BY <4>1, <2>3
      <4>4. h[i + 1] = f[i + 1]
        <5> HIDE DEF h
        <5> QED
          BY <3>2, <1>0
      <4> HIDE DEF h
      <4> QED
        BY <4>2, <4>3, <4>4
    <3>3. Nat \subseteq P
      <4> HIDE DEF P
      <4> QED
        BY <3>1, <3>2, CountingUp
    <3> TAKE i \in 1 .. n
    <3>4. i - 1 \in Nat /\ (i - 1) + 1 = i /\ i <= n
      BY <1>0
    <3> HIDE DEF h
    <3> QED
      BY <3>3, <3>4
  <2>5. FlattenSeq(q) = h[n]
    BY <1>3 DEF FlattenSeq
  <2> HIDE DEF h
  <2> QED
    BY <2>4, <2>5, <1>0, <1>3
<1> QED
  BY <1>2, <1>3

\* FlattenSeq puts one after the other.
LEMMA Flattened ==
  ASSUME NEW S, NEW q \in Seq(Seq(S)), NEW x \in Seq(S)
  PROVE  /\ FlattenSeq(q) \in Seq(S)
         /\ FlattenSeq(Append(q, x)) = FlattenSeq(q) \o x
<1> DEFINE r == Append(q, x)
           n == Len(q)
<1>0. n \in Nat /\ r \in Seq(Seq(S)) /\ Len(r) = n + 1
  OBVIOUS
<1>1. r[n + 1] = x /\ \A i \in 1 .. n : r[i] = q[i]
  OBVIOUS
<1> HIDE DEF r
<1>2. PICK f : Computed(f, Len(r), Seq(S), <<>>, Gathering(r, S))
  <2>1. <<>> \in Seq(S)
    OBVIOUS
  <2> QED
    BY <1>0, <2>1, GatheringTyped, Computes
<1>3. FlattenSeq(r) = f[n + 1]
  BY <1>0, <1>2, FlattenIs
<1>4. /\ f \in [0 .. n + 1 -> Seq(S)] /\ f[0] = <<>>
      /\ \A i \in 1 .. n + 1 : f[i] = f[i - 1] \o r[i]
  <2>1. f \in [0 .. n + 1 -> Seq(S)] /\ f[0] = <<>>
    BY <1>0, <1>2 DEF Computed
  <2>2. ASSUME NEW i \in 1 .. n + 1
        PROVE  f[i] = f[i - 1] \o r[i]
    <3>1. i - 1 \in 0 .. n + 1
      BY <1>0
    <3>2. f[i] = Gathering(r, S)[i][f[i - 1]]
      BY <1>0, <1>2 DEF Computed
    <3> QED
      BY <1>0, <2>1, <3>1, <3>2 DEF Gathering
  <2> QED
    BY <2>1, <2>2
<1> DEFINE g == [i \in 0 .. n |-> f[i]]
<1>5. Computed(g, n, Seq(S), <<>>, Gathering(q, S))
  <2>1. g \in [0 .. n -> Seq(S)] /\ g[0] = <<>>
    BY <1>0, <1>4
  <2>2. ASSUME NEW i \in 1 .. n
        PROVE  g[i] = Gathering(q, S)[i][g[i - 1]]
    <3>1. i - 1 \in 0 .. n /\ i \in 1 .. n + 1 /\ i \in 0 .. n /\ i - 1 \in 0 .. n + 1
      BY <1>0
    <3>2. g[i] = f[i] /\ g[i - 1] = f[i - 1] /\ f[i - 1] \in Seq(S)
      BY <1>4, <3>1
    <3> HIDE DEF g
    <3>3. Gathering(q, S)[i][g[i - 1]] = f[i - 1] \o q[i]
      BY <3>2 DEF Gathering
    <3> QED
      BY <3>1, <3>2, <3>3, <1>1, <1>4
  <2> HIDE DEF g
  <2> QED
    BY <2>1, <2>2 DEF Computed
<1>6. FlattenSeq(q) = f[n]
  <2>1. FlattenSeq(q) = g[n]
    <3> HIDE DEF g
    <3> QED
      BY <1>5, FlattenIs
  <2> QED
    BY <2>1, <1>0
<1>7. f[n + 1] = f[n] \o x /\ f[n] \in Seq(S)
  <2>1. n \in 0 .. n + 1 /\ n + 1 \in 1 .. n + 1 /\ (n + 1) - 1 = n
    BY <1>0
  <2> HIDE DEF n
  <2> QED
    BY <2>1, <1>1, <1>4
<1> QED
  BY <1>3, <1>6, <1>7 DEF r

\* Nothing one after the other is nothing.
LEMMA FlattenEmpty == FlattenSeq(<<>>) = <<>>
BY DEF FlattenSeq

-----------------------------------------------------------------------------
(* Pieces of sequences *)

\* A piece of a sequence.
LEMMA SubSeqIs ==
  ASSUME NEW S, NEW s \in Seq(S), NEW m \in Nat, NEW n \in Nat, 1 <= m, m <= n + 1, n <= Len(s)
  PROVE  /\ SubSeq(s, m, n) \in Seq(S)
         /\ Len(SubSeq(s, m, n)) = n - m + 1
         /\ \A i \in 1 .. n - m + 1 : SubSeq(s, m, n)[i] = s[m + i - 1]
OBVIOUS

\* A piece of the second of two sequences.
LEMMA SubSeqBehind ==
  ASSUME NEW S, NEW s \in Seq(S), NEW t \in Seq(S), NEW m \in Nat, NEW n \in Nat,
         1 <= m, m <= n + 1, n <= Len(t)
  PROVE  SubSeq(s \o t, Len(s) + m, Len(s) + n) = SubSeq(t, m, n)
<1> DEFINE u == s \o t
           a == SubSeq(u, Len(s) + m, Len(s) + n)
           b == SubSeq(t, m, n)
<1>1. u \in Seq(S) /\ Len(s) \in Nat /\ Len(t) \in Nat /\ Len(u) = Len(s) + Len(t)
      /\ \A i \in 1 .. Len(t) : u[Len(s) + i] = t[i]
  BY Concatenated
<1>2. a \in Seq(S) /\ Len(a) = n - m + 1 /\ \A i \in 1 .. n - m + 1 : a[i] = u[Len(s) + m + i - 1]
  <2> HIDE DEF u
  <2> QED
    BY <1>1, SubSeqIs
<1>3. b \in Seq(S) /\ Len(b) = n - m + 1 /\ \A i \in 1 .. n - m + 1 : b[i] = t[m + i - 1]
  BY SubSeqIs
<1>4. \A i \in 1 .. n - m + 1 : a[i] = b[i]
  <2> TAKE i \in 1 .. n - m + 1
  <2>1. m + i - 1 \in 1 .. Len(t) /\ Len(s) + (m + i - 1) = Len(s) + m + i - 1
    BY <1>1
  <2> HIDE DEF a, b, u
  <2> QED
    BY <2>1, <1>1, <1>2, <1>3
<1> HIDE DEF a, b
<1>5. a = b
  BY <1>2, <1>3, <1>4, SeqsEqual
<1> QED
  BY <1>5 DEF a, b

\* The first of two sequences.
LEMMA SubSeqFront ==
  ASSUME NEW S, NEW s \in Seq(S), NEW t \in Seq(S)
  PROVE  SubSeq(s \o t, 1, Len(s)) = s
<1> DEFINE u == s \o t
           a == SubSeq(u, 1, Len(s))
<1>1. u \in Seq(S) /\ Len(s) \in Nat /\ Len(t) \in Nat /\ Len(u) = Len(s) + Len(t)
      /\ \A i \in 1 .. Len(s) : u[i] = s[i]
  BY Concatenated
<1>2. a \in Seq(S) /\ Len(a) = Len(s) /\ \A i \in 1 .. Len(s) : a[i] = u[i]
  <2> HIDE DEF u
  <2> QED
    BY <1>1, SubSeqIs
<1> HIDE DEF a, u
<1>5. a = s
  BY <1>1, <1>2, SeqsEqual
<1> QED
  BY <1>5 DEF a, u

\* A part of a part is a part of the whole.
LEMMA SubSubSeq ==
  ASSUME NEW S, NEW s \in Seq(S), NEW m \in Nat, NEW n \in Nat, NEW k \in Nat, NEW l \in Nat,
         1 <= m, m <= n + 1, n <= Len(s), 1 <= k, k <= l + 1, l <= n - m + 1
  PROVE  SubSeq(SubSeq(s, m, n), k, l) = SubSeq(s, m + k - 1, m + l - 1)
<1> DEFINE u == SubSeq(s, m, n)
           a == SubSeq(u, k, l)
           b == SubSeq(s, m + k - 1, m + l - 1)
<1>1. u \in Seq(S) /\ Len(u) = n - m + 1 /\ \A i \in 1 .. n - m + 1 : u[i] = s[m + i - 1]
  BY SubSeqIs
<1>2. a \in Seq(S) /\ Len(a) = l - k + 1 /\ \A i \in 1 .. l - k + 1 : a[i] = u[k + i - 1]
  <2> HIDE DEF u
  <2> QED
    BY <1>1, SubSeqIs
<1>3. b \in Seq(S) /\ Len(b) = l - k + 1 /\ \A i \in 1 .. l - k + 1 : b[i] = s[m + k - 1 + i - 1]
  <2>1. /\ m + k - 1 \in Nat /\ m + l - 1 \in Nat /\ 1 <= m + k - 1
        /\ m + k - 1 <= (m + l - 1) + 1 /\ m + l - 1 <= Len(s)
        /\ (m + l - 1) - (m + k - 1) + 1 = l - k + 1
    OBVIOUS
  <2> QED
    BY <2>1, SubSeqIs
<1>4. \A i \in 1 .. l - k + 1 : a[i] = b[i]
  <2> TAKE i \in 1 .. l - k + 1
  <2>1. k + i - 1 \in 1 .. n - m + 1 /\ m + (k + i - 1) - 1 = m + k - 1 + i - 1
    OBVIOUS
  <2> HIDE DEF a, b, u
  <2> QED
    BY <2>1, <1>1, <1>2, <1>3
<1> HIDE DEF a, b, u
<1>5. a = b
  BY <1>2, <1>3, <1>4, SeqsEqual, ZenonT(60)
<1> QED
  BY <1>5 DEF a, b, u

\* A sequence is its parts one after the other.
LEMMA Divided ==
  ASSUME NEW S, NEW s \in Seq(S), NEW k \in 0 .. Len(s), NEW l \in k .. Len(s)
  PROVE  /\ s = SubSeq(s, 1, k) \o SubSeq(s, k + 1, Len(s))
         /\ SubSeq(s, k + 1, Len(s)) = SubSeq(s, k + 1, l) \o SubSeq(s, l + 1, Len(s))
<1>0. Len(s) \in Nat
  OBVIOUS
<1>1. ASSUME NEW j \in 0 .. Len(s), NEW h \in j .. Len(s)
      PROVE  SubSeq(s, j + 1, Len(s)) = SubSeq(s, j + 1, h) \o SubSeq(s, h + 1, Len(s))
  <2> DEFINE a == SubSeq(s, j + 1, Len(s))
             b == SubSeq(s, j + 1, h)
             c == SubSeq(s, h + 1, Len(s))
             d == b \o c
  <2>0. /\ j \in Nat /\ h \in Nat /\ j + 1 \in Nat /\ h + 1 \in Nat
        /\ 1 <= j + 1 /\ j + 1 <= h + 1 /\ h <= Len(s) /\ 1 <= h + 1 /\ h + 1 <= Len(s) + 1
        /\ j + 1 <= Len(s) + 1 /\ Len(s) <= Len(s)
    BY <1>0
  <2>1. a \in Seq(S) /\ Len(a) = Len(s) - j /\ \A i \in 1 .. Len(s) - j : a[i] = s[j + i]
    <3>1. Len(s) - (j + 1) + 1 = Len(s) - j /\ \A i \in Int : (j + 1) + i - 1 = j + i
      BY <1>0, <2>0
    <3>2. /\ a \in Seq(S) /\ Len(a) = Len(s) - (j + 1) + 1
          /\ \A i \in 1 .. Len(s) - (j + 1) + 1 : a[i] = s[(j + 1) + i - 1]
      BY <1>0, <2>0, SubSeqIs
    <3> HIDE DEF a
    <3> QED
      BY <2>0, <3>1, <3>2
  <2>2. b \in Seq(S) /\ Len(b) = h - j /\ \A i \in 1 .. h - j : b[i] = s[j + i]
    <3>1. h - (j + 1) + 1 = h - j /\ \A i \in Int : (j + 1) + i - 1 = j + i
      BY <1>0, <2>0
    <3>2. /\ b \in Seq(S) /\ Len(b) = h - (j + 1) + 1
          /\ \A i \in 1 .. h - (j + 1) + 1 : b[i] = s[(j + 1) + i - 1]
      BY <1>0, <2>0, SubSeqIs
    <3> HIDE DEF b
    <3> QED
      BY <2>0, <3>1, <3>2
  <2>3. c \in Seq(S) /\ Len(c) = Len(s) - h /\ \A i \in 1 .. Len(s) - h : c[i] = s[h + i]
    <3>1. Len(s) - (h + 1) + 1 = Len(s) - h /\ \A i \in Int : (h + 1) + i - 1 = h + i
      BY <1>0, <2>0
    <3>2. /\ c \in Seq(S) /\ Len(c) = Len(s) - (h + 1) + 1
          /\ \A i \in 1 .. Len(s) - (h + 1) + 1 : c[i] = s[(h + 1) + i - 1]
      BY <1>0, <2>0, SubSeqIs
    <3> HIDE DEF c
    <3> QED
      BY <2>0, <3>1, <3>2
  <2> HIDE DEF a, b, c
  <2>4. /\ d \in Seq(S) /\ Len(d) = Len(s) - j
        /\ \A i \in 1 .. h - j : d[i] = b[i]
        /\ \A i \in h - j + 1 .. Len(s) - j : d[i] = c[i - (h - j)]
    BY <1>0, <2>2, <2>3, Concatenated
  <2> HIDE DEF d
  <2>5. \A i \in 1 .. Len(s) - j : a[i] = d[i]
    <3> TAKE i \in 1 .. Len(s) - j
    <3>1. CASE i <= h - j
      BY <1>0, <3>1, <2>1, <2>2, <2>4
    <3>2. CASE i > h - j
      <4>1. i - (h - j) \in 1 .. Len(s) - h /\ h + (i - (h - j)) = j + i
            /\ i \in h - j + 1 .. Len(s) - j
        BY <1>0, <3>2
      <4> QED
        BY <4>1, <2>1, <2>3, <2>4
    <3> QED
      BY <1>0, <3>1, <3>2
  <2>6. a = d
    BY <2>1, <2>4, <2>5, SeqsEqual
  <2> QED
    BY <2>6 DEF a, b, c, d
<1>2. SubSeq(s, 1, Len(s)) = s
  <2>1. SubSeq(s \o <<>>, 1, Len(s)) = s
    BY SubSeqFront
  <2>2. s \o <<>> = s
    OBVIOUS
  <2> QED
    BY <2>1, <2>2
<1>3. SubSeq(s, 0 + 1, Len(s)) = SubSeq(s, 0 + 1, k) \o SubSeq(s, k + 1, Len(s))
  <2>1. 0 \in 0 .. Len(s) /\ k \in 0 .. Len(s)
    BY <1>0
  <2> QED
    BY <2>1, <1>1, Zenon
<1>4. SubSeq(s, k + 1, Len(s)) = SubSeq(s, k + 1, l) \o SubSeq(s, l + 1, Len(s))
  BY <1>1, Zenon
<1>5. 0 + 1 = 1
  OBVIOUS
<1> QED
  BY <1>2, <1>3, <1>4, <1>5

-----------------------------------------------------------------------------
(* Finding *)

\* An occurrence of sub.
LEMMA MatchIs ==
  ASSUME NEW S, NEW s \in Seq(S), NEW sub \in Seq(S), NEW i
  PROVE  i \in Matches(s, sub) <=>
           /\ i \in 0 .. Len(s) - Len(sub)
           /\ SubSeq(s, i + 1, i + Len(sub)) = sub
BY DEF Matches

\* find from a position gives the first match from there on, if there is one.
LEMMA Found ==
  ASSUME NEW S, NEW s \in Seq(S), NEW sub \in Seq(S), NEW pos \in Nat
  PROVE  \/ /\ FindFrom(s, sub, pos) = None
            /\ \A i \in Matches(s, sub) : i < pos
         \/ /\ FindFrom(s, sub, pos) \in Nat
            /\ FindFrom(s, sub, pos) \in Matches(s, sub)
            /\ pos <= FindFrom(s, sub, pos)
            /\ FindFrom(s, sub, pos) <= Len(s) - Len(sub)
            /\ \A i \in Matches(s, sub) : pos <= i => FindFrom(s, sub, pos) <= i
<1> DEFINE found == {i \in Matches(s, sub) : i >= pos}
<1>1. Matches(s, sub) \subseteq Nat /\ \A i \in Matches(s, sub) : i <= Len(s) - Len(sub)
  BY DEF Matches
<1>2. FindFrom(s, sub, pos) = IF found = {} THEN None ELSE Min(found)
  BY DEF FindFrom
<1>3. CASE found = {}
  BY <1>1, <1>2, <1>3
<1>4. CASE found # {}
  <2>1. found \in SUBSET Nat
    BY <1>1
  <2>2. \E x \in found : \A y \in found : x <= y
    <3> HIDE DEF found
    <3> QED
      BY <2>1, <1>4, Least
  <2>3. Min(found) \in found /\ \A y \in found : Min(found) <= y
    <3> HIDE DEF found
    <3> QED
      BY <2>2 DEF Min
  <2>4. FindFrom(s, sub, pos) = Min(found)
    BY <1>2, <1>4
  <2> DEFINE at == Min(found)
  <2>5. at \in found /\ \A y \in found : at <= y
    BY <2>3
  <2> HIDE DEF at
  <2>6. at \in Matches(s, sub) /\ at >= pos /\ \A y \in Matches(s, sub) : pos <= y => at <= y
    BY <1>1, <2>5
  <2> HIDE DEF found
  <2>7. FindFrom(s, sub, pos) = at
    BY <2>4 DEF at
  <2> QED
    BY <1>1, <2>6, <2>7
<1> QED
  BY <1>3, <1>4

\* What is found stands there: the text before it, it, and what is behind it.
LEMMA FoundDivides ==
  ASSUME NEW S, NEW s \in Seq(S), NEW sub \in Seq(S), NEW at \in Matches(s, sub)
  PROVE  /\ at \in Nat /\ at + Len(sub) <= Len(s)
         /\ s = SubStr(s, 0, at) \o (sub \o SubStr(s, at + Len(sub), Len(s)))
         /\ SubStr(s, 0, at) \in Seq(S) /\ Len(SubStr(s, 0, at)) = at
         /\ SubStr(s, at + Len(sub), Len(s)) \in Seq(S)
         /\ Len(SubStr(s, at + Len(sub), Len(s))) = Len(s) - (at + Len(sub))
<1>0. Len(s) \in Nat /\ Len(sub) \in Nat
  OBVIOUS
<1>1. at \in 0 .. Len(s) - Len(sub) /\ SubSeq(s, at + 1, at + Len(sub)) = sub
  BY MatchIs
<1>2. at \in Nat /\ at \in 0 .. Len(s) /\ at + Len(sub) \in at .. Len(s)
  BY <1>0, <1>1
<1>3. /\ s = SubSeq(s, 1, at) \o SubSeq(s, at + 1, Len(s))
      /\ SubSeq(s, at + 1, Len(s)) = SubSeq(s, at + 1, at + Len(sub)) \o SubSeq(s, at + Len(sub) + 1, Len(s))
  BY <1>2, Divided
<1>4. SubStr(s, 0, at) = SubSeq(s, 1, at)
      /\ SubStr(s, at + Len(sub), Len(s)) = SubSeq(s, at + Len(sub) + 1, Len(s))
  BY DEF SubStr
<1>5. SubSeq(s, 1, at) \in Seq(S) /\ Len(SubSeq(s, 1, at)) = at
  <2>1. at - 1 + 1 = at
    BY <1>2
  <2> QED
    BY <1>0, <1>2, SubSeqIs
<1>6. /\ SubSeq(s, at + Len(sub) + 1, Len(s)) \in Seq(S)
      /\ Len(SubSeq(s, at + Len(sub) + 1, Len(s))) = Len(s) - (at + Len(sub))
  <2> DEFINE e == at + Len(sub) + 1
  <2>1. e \in Nat /\ 1 <= e /\ e <= Len(s) + 1 /\ Len(s) - e + 1 = Len(s) - (at + Len(sub))
    BY <1>0, <1>2
  <2> HIDE DEF e
  <2>2. SubSeq(s, e, Len(s)) \in Seq(S) /\ Len(SubSeq(s, e, Len(s))) = Len(s) - e + 1
    BY <1>0, <2>1, SubSeqIs
  <2> QED
    BY <2>1, <2>2 DEF e
<1>7. s = SubSeq(s, 1, at) \o (sub \o SubSeq(s, at + Len(sub) + 1, Len(s)))
  BY <1>1, <1>3, Zenon
<1>8. at + Len(sub) <= Len(s)
  BY <1>0, <1>2
<1> QED
  BY <1>2, <1>4, <1>5, <1>6, <1>7, <1>8, Zenon

\* Nothing stands before the first match that is as long.
LEMMA NothingBefore ==
  ASSUME NEW S, NEW s \in Seq(S), NEW sub \in Seq(S), sub # <<>>, Find(s, sub) # None
  PROVE  Find(SubStr(s, 0, Find(s, sub)), sub) = None
<1> DEFINE at == Find(s, sub)
           u == SubStr(s, 0, at)
<1>0. Len(s) \in Nat /\ Len(sub) \in Nat /\ Len(sub) # 0
  OBVIOUS
<1>1. /\ at \in Nat /\ at \in Matches(s, sub)
      /\ \A i \in Matches(s, sub) : 0 <= i => at <= i
  BY Found DEF Find
<1> HIDE DEF at
<1>2. u \in Seq(S) /\ Len(u) = at /\ at <= Len(s)
  BY <1>0, <1>1, FoundDivides
<1>3. ASSUME NEW i \in Matches(u, sub)
      PROVE  FALSE
  <2>1. i \in 0 .. at - Len(sub) /\ SubSeq(u, i + 1, i + Len(sub)) = sub
    BY <1>2, <1>3, MatchIs
  <2>2. SubSeq(u, i + 1, i + Len(sub)) = SubSeq(s, i + 1, i + Len(sub))
    <3>1. /\ i + 1 \in Nat /\ i + Len(sub) \in Nat /\ 1 <= i + 1 /\ i + 1 <= (i + Len(sub)) + 1
          /\ i + Len(sub) <= at - 1 + 1 /\ 1 <= at + 1 /\ 1 \in Nat /\ 1 <= 1
          /\ 1 + (i + 1) - 1 = i + 1 /\ 1 + (i + Len(sub)) - 1 = i + Len(sub)
      BY <1>0, <1>1, <2>1
    <3>2. u = SubSeq(s, 1, at)
      BY DEF SubStr
    <3>3. SubSeq(SubSeq(s, 1, at), i + 1, i + Len(sub)) = SubSeq(s, 1 + (i + 1) - 1, 1 + (i + Len(sub)) - 1)
      BY <1>1, <1>2, <3>1, SubSubSeq
    <3> QED
      BY <3>1, <3>2, <3>3
  <2>3. i \in Matches(s, sub)
    <3>1. i \in 0 .. Len(s) - Len(sub)
      BY <1>0, <1>1, <1>2, <2>1
    <3> QED
      BY <2>1, <2>2, <3>1, MatchIs
  <2>4. at <= i
    BY <1>1, <2>1, <2>3
  <2> QED
    BY <1>0, <1>1, <2>1, <2>4
<1>4. Find(u, sub) = None
  BY <1>2, <1>3, Found DEF Find
<1> QED
  BY <1>4 DEF at

\* Matches behind a text are matches of what follows it.
LEMMA FoundBehind ==
  ASSUME NEW S, NEW s \in Seq(S), NEW t \in Seq(S), NEW sub \in Seq(S)
  PROVE  /\ Find(t, sub) = None => FindFrom(s \o t, sub, Len(s)) = None
         /\ Find(t, sub) # None => FindFrom(s \o t, sub, Len(s)) = Len(s) + Find(t, sub)
<1> DEFINE u == s \o t
           at == FindFrom(u, sub, Len(s))
           off == Find(t, sub)
<1>0. /\ Len(s) \in Nat /\ Len(t) \in Nat /\ Len(sub) \in Nat
      /\ u \in Seq(S) /\ Len(u) = Len(s) + Len(t)
  BY Concatenated
<1>1. \A i \in Nat : Len(s) + i \in Matches(u, sub) <=> i \in Matches(t, sub)
  <2> TAKE i \in Nat
  <2>1. CASE i \in 0 .. Len(t) - Len(sub)
    <3>1. SubSeq(s \o t, Len(s) + (i + 1), Len(s) + (i + Len(sub))) = SubSeq(t, i + 1, i + Len(sub))
      <4>1. /\ i + 1 \in Nat /\ i + Len(sub) \in Nat /\ 1 <= i + 1
            /\ i + 1 <= (i + Len(sub)) + 1 /\ i + Len(sub) <= Len(t)
        BY <1>0, <2>1
      <4> QED
        BY <4>1, SubSeqBehind
    <3>2. Len(s) + (i + 1) = (Len(s) + i) + 1 /\ Len(s) + (i + Len(sub)) = (Len(s) + i) + Len(sub)
      BY <1>0
    <3>3. SubSeq(u, (Len(s) + i) + 1, (Len(s) + i) + Len(sub)) = SubSeq(t, i + 1, i + Len(sub))
      BY <3>1, <3>2
    <3>4. Len(s) + i \in 0 .. Len(u) - Len(sub)
      BY <1>0, <2>1
    <3> HIDE DEF u
    <3>5. i \in Matches(t, sub) <=> SubSeq(t, i + 1, i + Len(sub)) = sub
      BY <2>1, MatchIs
    <3>6. Len(s) + i \in Matches(u, sub) <=> SubSeq(u, (Len(s) + i) + 1, (Len(s) + i) + Len(sub)) = sub
      BY <1>0, <3>4, MatchIs
    <3> QED
      BY <3>3, <3>5, <3>6
  <2>2. CASE ~(i \in 0 .. Len(t) - Len(sub))
    <3>1. ~(Len(s) + i \in 0 .. Len(u) - Len(sub))
      BY <1>0, <2>2
    <3> HIDE DEF u
    <3> QED
      BY <1>0, <2>2, <3>1, MatchIs
  <2> QED
    BY <2>1, <2>2
<1>2. Matches(t, sub) \subseteq Nat /\ Matches(u, sub) \subseteq Nat
  BY DEF Matches
<1> HIDE DEF u
<1>3. \/ at = None /\ \A i \in Matches(u, sub) : i < Len(s)
      \/ /\ at \in Nat /\ at \in Matches(u, sub) /\ Len(s) <= at
         /\ \A i \in Matches(u, sub) : Len(s) <= i => at <= i
  BY <1>0, Found
<1>4. \/ off = None /\ \A i \in Matches(t, sub) : i < 0
      \/ /\ off \in Nat /\ off \in Matches(t, sub)
         /\ \A i \in Matches(t, sub) : 0 <= i => off <= i
  BY Found DEF Find
<1>n. None \notin Nat
  BY DEF None
<1> HIDE DEF at, off
<1>5. ASSUME off = None
      PROVE  at = None
  <2>1. ASSUME at \in Nat, at \in Matches(u, sub), Len(s) <= at
        PROVE  FALSE
    <3>1. at - Len(s) \in Nat /\ Len(s) + (at - Len(s)) = at
      BY <1>0, <2>1
    <3>2. at - Len(s) \in Matches(t, sub)
      BY <1>1, <2>1, <3>1
    <3> QED
      BY <1>4, <1>5, <1>n, <3>1, <3>2
  <2> QED
    BY <1>3, <2>1
<1>6. ASSUME off # None
      PROVE  at = Len(s) + off
  <2>1. /\ off \in Nat /\ off \in Matches(t, sub)
        /\ \A i \in Matches(t, sub) : 0 <= i => off <= i
    BY <1>4, <1>6
  <2>2. Len(s) + off \in Matches(u, sub) /\ Len(s) <= Len(s) + off
    BY <1>0, <1>1, <2>1
  <2>3. /\ at \in Nat /\ at \in Matches(u, sub) /\ Len(s) <= at /\ at <= Len(s) + off
    BY <1>0, <1>3, <2>1, <2>2
  <2>4. at - Len(s) \in Nat /\ Len(s) + (at - Len(s)) = at
    BY <1>0, <2>3
  <2>5. at - Len(s) \in Matches(t, sub)
    BY <1>1, <2>3, <2>4
  <2>6. off <= at - Len(s)
    BY <2>1, <2>4, <2>5
  <2> QED
    BY <1>0, <2>1, <2>3, <2>6
<1> QED
  BY <1>5, <1>6 DEF at, off, u

\* One element more.
LEMMA AppendIs ==
  ASSUME NEW S, NEW s \in Seq(S), NEW e \in S
  PROVE  /\ Append(s, e) \in Seq(S) /\ Len(Append(s, e)) = Len(s) + 1
         /\ Append(s, e)[Len(s) + 1] = e
         /\ \A i \in 1 .. Len(s) : Append(s, e)[i] = s[i]
OBVIOUS

\* Each part with x behind it.
Ended(parts, x) == FlattenSeq([i \in DOMAIN parts |-> parts[i] \o x])

\* The parts of a string, each with x at its end, and one part more.
LEMMA EndedIs ==
  ASSUME NEW S, NEW p \in Seq(Seq(S)), NEW q \in Seq(S), NEW x \in Seq(S)
  PROVE  /\ Ended(p, x) \in Seq(S)
         /\ Ended(Append(p, q), x) = Ended(p, x) \o (q \o x)
<1> DEFINE r == Append(p, q)
           a == [i \in DOMAIN p |-> p[i] \o x]
           b == [i \in DOMAIN r |-> r[i] \o x]
           c == Append(a, q \o x)
<1>0. Len(p) \in Nat /\ DOMAIN p = 1 .. Len(p) /\ \A i \in 1 .. Len(p) : p[i] \in Seq(S)
  OBVIOUS
<1>1. /\ DOMAIN r = 1 .. Len(p) + 1 /\ r[Len(p) + 1] = q
      /\ \A i \in 1 .. Len(p) : r[i] = p[i]
  BY <1>0
<1> HIDE DEF r
<1>2. q \o x \in Seq(S) /\ \A i \in 1 .. Len(p) : p[i] \o x \in Seq(S)
  BY <1>0
<1>3. a \in [1 .. Len(p) -> Seq(S)]
  BY <1>0, <1>2
<1>4. b \in [1 .. Len(p) + 1 -> Seq(S)]
  <2>1. \A i \in 1 .. Len(p) + 1 : r[i] \in Seq(S)
    BY <1>0, <1>1
  <2>2. \A i \in 1 .. Len(p) + 1 : r[i] \o x \in Seq(S)
    BY <2>1
  <2> QED
    BY <1>1, <2>2
<1>5. a \in Seq(Seq(S)) /\ Len(a) = Len(p)
  BY <1>0, <1>3, FunctionIsSeq
<1>6. b \in Seq(Seq(S)) /\ Len(b) = Len(p) + 1
  <2>1. Len(p) + 1 \in Nat
    BY <1>0
  <2> QED
    BY <1>4, <2>1, FunctionIsSeq
<1>7. \A i \in 1 .. Len(p) : a[i] = p[i] \o x /\ b[i] = p[i] \o x
  <2> TAKE i \in 1 .. Len(p)
  <2>1. i \in DOMAIN p /\ i \in DOMAIN r /\ r[i] = p[i]
    BY <1>0, <1>1
  <2> QED
    BY <2>1
<1>8. b[Len(p) + 1] = q \o x
  <2>1. Len(p) + 1 \in DOMAIN r
    BY <1>0, <1>1
  <2> QED
    BY <2>1, <1>1
<1> HIDE DEF a, b
<1>9. c \in Seq(Seq(S)) /\ Len(c) = Len(p) + 1 /\ c[Len(p) + 1] = q \o x
      /\ \A i \in 1 .. Len(p) : c[i] = a[i]
  BY <1>0, <1>2, <1>5, AppendIs
<1> HIDE DEF c
<1>10. b = c
  <2>1. \A i \in 1 .. Len(p) + 1 : b[i] = c[i]
    <3> TAKE i \in 1 .. Len(p) + 1
    <3>1. i \in 1 .. Len(p) \/ i = Len(p) + 1
      BY <1>0
    <3> QED
      BY <3>1, <1>7, <1>8, <1>9
  <2> QED
    BY <2>1, <1>6, <1>9, SeqsEqual
<1>11. FlattenSeq(c) = FlattenSeq(a) \o (q \o x) /\ FlattenSeq(a) \in Seq(S)
  BY <1>2, <1>5, Flattened DEF c
<1>12. Ended(p, x) = FlattenSeq(a) /\ Ended(r, x) = FlattenSeq(b)
  BY DEF a, b, Ended
<1> QED
  BY <1>10, <1>11, <1>12 DEF r

\* No parts.
LEMMA EndedNone == \A x : Ended(<<>>, x) = <<>>
<1> TAKE x
<1> DEFINE e == <<>>
           a == [i \in DOMAIN e |-> e[i] \o x]
<1>1. a = <<>>
  OBVIOUS
<1> QED
  BY <1>1, FlattenEmpty DEF Ended

\* The last part has nothing behind it.
LEMMA JoinedIs ==
  ASSUME NEW S, NEW p \in Seq(Seq(S)), NEW q \in Seq(S), NEW x \in Seq(S)
  PROVE  Joined(Append(p, q), x) = Ended(p, x) \o q
<1> DEFINE r == Append(p, q)
           a == [i \in DOMAIN p |-> p[i] \o x]
           b == [i \in DOMAIN r |-> IF i < Len(r) THEN r[i] \o x ELSE r[i]]
           c == Append(a, q)
<1>0. Len(p) \in Nat /\ DOMAIN p = 1 .. Len(p) /\ \A i \in 1 .. Len(p) : p[i] \in Seq(S)
  OBVIOUS
<1>1. /\ DOMAIN r = 1 .. Len(p) + 1 /\ r[Len(p) + 1] = q /\ Len(r) = Len(p) + 1
      /\ \A i \in 1 .. Len(p) : r[i] = p[i]
      /\ r # <<>>
  <2>1. /\ r \in Seq(Seq(S)) /\ Len(r) = Len(p) + 1 /\ r[Len(p) + 1] = q
        /\ \A i \in 1 .. Len(p) : r[i] = p[i]
    BY AppendIs
  <2> HIDE DEF r
  <2>2. Len(r) # 0 /\ DOMAIN r = 1 .. Len(p) + 1
    BY <1>0, <2>1
  <2> QED
    BY <2>1, <2>2
<1> HIDE DEF r
<1>2. \A i \in 1 .. Len(p) : p[i] \o x \in Seq(S)
  BY <1>0, Concatenated
<1>3. a \in [1 .. Len(p) -> Seq(S)]
  BY <1>0, <1>2
<1>7. \A i \in 1 .. Len(p) : a[i] = p[i] \o x /\ b[i] = p[i] \o x
  <2> TAKE i \in 1 .. Len(p)
  <2>1. i \in 1 .. Len(p) + 1 /\ i < Len(p) + 1
    BY <1>0
  <2> QED
    BY <1>0, <1>1, <2>1
<1>8. b[Len(p) + 1] = q
  BY <1>0, <1>1
<1>4. b \in [1 .. Len(p) + 1 -> Seq(S)]
  <2>1. \A i \in 1 .. Len(p) + 1 : b[i] \in Seq(S)
    <3> TAKE i \in 1 .. Len(p) + 1
    <3>1. CASE i = Len(p) + 1
      BY <3>1, <1>8
    <3>2. CASE i # Len(p) + 1
      <4>1. i \in 1 .. Len(p)
        BY <3>2, <1>0
      <4> HIDE DEF b
      <4> QED
        BY <4>1, <1>2, <1>7
    <3> QED
      BY <3>1, <3>2
  <2>2. b = [i \in 1 .. Len(p) + 1 |-> b[i]]
    BY <1>1
  <2> HIDE DEF b
  <2> QED
    BY <2>1, <2>2
<1>5. a \in Seq(Seq(S)) /\ Len(a) = Len(p)
  BY <1>0, <1>3, FunctionIsSeq
<1>6. b \in Seq(Seq(S)) /\ Len(b) = Len(p) + 1
  <2>1. Len(p) + 1 \in Nat
    BY <1>0
  <2> QED
    BY <1>4, <2>1, FunctionIsSeq
<1> HIDE DEF a, b
<1>9. c \in Seq(Seq(S)) /\ Len(c) = Len(p) + 1 /\ c[Len(p) + 1] = q
      /\ \A i \in 1 .. Len(p) : c[i] = a[i]
  BY <1>0, <1>5, AppendIs
<1> HIDE DEF c
<1>10. b = c
  <2>1. \A i \in 1 .. Len(p) + 1 : b[i] = c[i]
    <3> TAKE i \in 1 .. Len(p) + 1
    <3>1. i \in 1 .. Len(p) \/ i = Len(p) + 1
      BY <1>0
    <3> QED
      BY <3>1, <1>7, <1>8, <1>9
  <2> QED
    BY <2>1, <1>6, <1>9, SeqsEqual
<1>11. FlattenSeq(c) = FlattenSeq(a) \o q
  BY <1>5, Flattened DEF c
<1>12. Ended(p, x) = FlattenSeq(a) /\ Joined(r, x) = FlattenSeq(b)
  BY <1>1 DEF a, b, Ended, Joined
<1> QED
  BY <1>10, <1>11, <1>12 DEF r

\* No parts, joined.
LEMMA JoinedNone == \A x : Joined(<<>>, x) = <<>>
BY DEF Joined

\* With one more separator at the end.
LEMMA JoinedEnded ==
  ASSUME NEW S, NEW p \in Seq(Seq(S)), p # <<>>, NEW x \in Seq(S)
  PROVE  Joined(p, x) \o x = Ended(p, x)
<1>1. PICK o \in Seq(Seq(S)), q \in Seq(S) : p = Append(o, q)
  <2> DEFINE o == SubSeq(p, 1, Len(p) - 1)
             q == p[Len(p)]
  <2>0. Len(p) \in Nat \ {0} /\ q \in Seq(S)
    OBVIOUS
  <2>1. /\ o \in Seq(Seq(S)) /\ Len(o) = Len(p) - 1
        /\ \A i \in 1 .. Len(p) - 1 : o[i] = p[i]
    <3>1. /\ Len(p) - 1 \in Nat /\ 1 <= (Len(p) - 1) + 1 /\ Len(p) - 1 <= Len(p)
          /\ (Len(p) - 1) - 1 + 1 = Len(p) - 1 /\ \A i \in Int : 1 + i - 1 = i
      BY <2>0
    <3>2. /\ o \in Seq(Seq(S)) /\ Len(o) = (Len(p) - 1) - 1 + 1
          /\ \A i \in 1 .. (Len(p) - 1) - 1 + 1 : o[i] = p[1 + i - 1]
      BY <3>1, SubSeqIs
    <3> HIDE DEF o
    <3> QED
      BY <2>0, <3>1, <3>2
  <2>2. p = Append(o, q)
    <3> HIDE DEF o
    <3>1. /\ Append(o, q) \in Seq(Seq(S)) /\ Len(Append(o, q)) = Len(p)
          /\ \A i \in 1 .. Len(p) - 1 : Append(o, q)[i] = o[i]
          /\ Append(o, q)[Len(p)] = q
      BY <2>0, <2>1
    <3>2. \A i \in 1 .. Len(p) : Append(o, q)[i] = p[i]
      BY <2>0, <2>1, <3>1
    <3> QED
      BY <3>1, <3>2, SeqsEqual
  <2> QED
    BY <2>0, <2>1, <2>2
<1>2. Joined(p, x) = Ended(o, x) \o q /\ Ended(p, x) = Ended(o, x) \o (q \o x)
      /\ Ended(o, x) \in Seq(S)
  <2>1. Joined(Append(o, q), x) = Ended(o, x) \o q
    BY JoinedIs
  <2>2. Ended(Append(o, q), x) = Ended(o, x) \o (q \o x) /\ Ended(o, x) \in Seq(S)
    BY <1>1, EndedIs
  <2> QED
    BY <1>1, <2>1, <2>2
<1>3. \A e \in Seq(S) : (e \o q) \o x = e \o (q \o x)
  OBVIOUS
<1> QED
  BY <1>2, <1>3

-----------------------------------------------------------------------------
(* Splitting *)

\* Strings of bytes, and the state of the loop of split.
Strings == Seq(Byte)
Cuts == [parts : Seq(Strings), rest : Strings]

\* What a turn of split does: it cuts off a part and a separator, or nothing.
LEMMA SplitTurnIs ==
  ASSUME NEW c \in Cuts, NEW sub \in Strings
  PROVE  /\ SplitTurn(c, sub) \in Cuts
         /\ Find(c.rest, sub) = None => SplitTurn(c, sub) = c
         /\ Find(c.rest, sub) # None =>
              \E part, rest \in Strings :
                /\ SplitTurn(c, sub) = [parts |-> Append(c.parts, part), rest |-> rest]
                /\ c.rest = part \o (sub \o rest)
                /\ Len(part) = Find(c.rest, sub)
                /\ Len(c.rest) = Len(part) + Len(sub) + Len(rest)
                /\ sub # <<>> => Find(part, sub) = None
<1> DEFINE s == c.rest
           at == Find(s, sub)
           part == SubStr(s, 0, at)
           rest == SubStr(s, at + Len(sub), Len(s))
<1>0. c.parts \in Seq(Strings) /\ s \in Seq(Byte) /\ sub \in Seq(Byte)
  BY DEF Cuts, Strings
<1>1. CASE at = None
  <2>1. SplitTurn(c, sub) = c
    BY <1>1 DEF SplitTurn
  <2> QED
    BY <1>1, <2>1
<1>2. CASE at # None
  <2>2. SplitTurn(c, sub) = [parts |-> Append(c.parts, part), rest |-> rest]
    BY <1>2 DEF SplitTurn
  <2> HIDE DEF s
  <2>1. at \in Nat /\ at \in Matches(s, sub)
    BY <1>0, <1>2, Found DEF Find
  <2>3. sub # <<>> => Find(part, sub) = None
    BY <1>0, <1>2, NothingBefore
  <2> HIDE DEF at
  <2>4. /\ at + Len(sub) <= Len(s)
        /\ s = part \o (sub \o rest)
        /\ part \in Seq(Byte) /\ Len(part) = at
        /\ rest \in Seq(Byte) /\ Len(rest) = Len(s) - (at + Len(sub))
    BY <1>0, <2>1, FoundDivides
  <2> HIDE DEF part, rest
  <2>5. Len(s) = Len(part) + Len(sub) + Len(rest)
    <3>1. Len(s) \in Nat /\ Len(sub) \in Nat
      BY <1>0
    <3> QED
      BY <2>1, <2>4, <3>1
  <2>6. Append(c.parts, part) \in Seq(Strings)
    BY <1>0, <2>4, AppendIs DEF Strings
  <2>7. SplitTurn(c, sub) \in Cuts
    BY <2>2, <2>4, <2>6 DEF Cuts, Strings
  <2> QED
    BY <1>2, <2>2, <2>3, <2>4, <2>5, <2>7 DEF at, s, Strings
<1> QED
  BY <1>1, <1>2

\* The pieces that the loop has made after each of its turns.
SplitSteps(f, text, sub, turns) ==
  /\ f \in [0 .. turns -> Cuts]
  /\ f[0] = [parts |-> <<>>, rest |-> text]
  /\ \A k \in 1 .. turns : f[k] = SplitTurn(f[k - 1], sub)
  /\ SplitLoop(text, sub, turns) = f[turns]

\* The loop of split is a sequence of turns.
LEMMA SplitLoopIs ==
  ASSUME NEW text \in Strings, NEW sub \in Strings, NEW turns \in Nat
  PROVE  \E f : SplitSteps(f, text, sub, turns)
<1> DEFINE b == [parts |-> <<>>, rest |-> text]
           Step(f, k) == IF k = 0 THEN b ELSE SplitTurn(f[k - 1], sub)
           step == [k \in 1 .. turns |-> [c \in Cuts |-> SplitTurn(c, sub)]]
           after == CHOOSE f : f = [k \in 0 .. turns |-> Step(f, k)]
<1>1. b \in Cuts
  <2>1. <<>> \in Seq(Strings)
    OBVIOUS
  <2> QED
    BY <2>1 DEF Cuts
<1>2. step \in [1 .. turns -> [Cuts -> Cuts]]
  BY SplitTurnIs
<1> HIDE DEF b, step
<1>3. PICK g : Computed(g, turns, Cuts, b, step)
  BY <1>1, <1>2, Computes
<1>4. /\ g \in [0 .. turns -> Cuts] /\ g[0] = b
      /\ \A k \in 1 .. turns : g[k] = SplitTurn(g[k - 1], sub)
  <2>1. g \in [0 .. turns -> Cuts] /\ g[0] = b
    BY <1>3 DEF Computed
  <2>2. \A k \in 1 .. turns : g[k - 1] \in Cuts /\ g[k] = step[k][g[k - 1]]
    BY <1>3, <2>1 DEF Computed
  <2> QED
    BY <2>1, <2>2 DEF step
<1>5. g = [k \in 0 .. turns |-> Step(g, k)]
  <2>1. \A k \in 0 .. turns : g[k] = Step(g, k)
    BY <1>4
  <2>2. g = [k \in 0 .. turns |-> g[k]]
    BY <1>4
  <2> HIDE DEF Step
  <2> QED
    BY <2>1, <2>2
<1>6. after = [k \in 0 .. turns |-> Step(after, k)]
  <2> HIDE DEF Step
  <2> QED
    BY <1>5
<1>7. SplitLoop(text, sub, turns) = after[turns]
  BY DEF SplitLoop, b
<1> HIDE DEF after
<1>8. after[0] = b /\ \A k \in 1 .. turns : after[k] = SplitTurn(after[k - 1], sub)
  <2>1. 0 \in 0 .. turns /\ \A k \in 1 .. turns : k \in 0 .. turns /\ k # 0
    OBVIOUS
  <2>2. \A k \in 0 .. turns : after[k] = Step(after, k)
    <3> HIDE DEF Step
    <3> QED
      BY <1>6
  <2> QED
    BY <2>1, <2>2
<1>9. after = [k \in 0 .. turns |-> after[k]]
  <2> HIDE DEF Step
  <2> QED
    BY <1>6
<1>10. \A k \in 1 .. turns : after[k - 1] \in Cuts => after[k] = step[k][after[k - 1]]
  BY <1>8 DEF step
<1>11. Computed(after, turns, Cuts, b, step)
  BY <1>1, <1>2, <1>8, <1>9, <1>10, StaysComputed
<1>12. after \in [0 .. turns -> Cuts]
  BY <1>11 DEF Computed
<1> QED
  BY <1>7, <1>8, <1>12 DEF b, SplitSteps

\* What the loop has done after k turns.
SplitGood(c, text, sub, k) ==
  /\ c \in Cuts
  /\ Ended(c.parts, sub) \o c.rest = text
  /\ Len(c.parts) <= k
  /\ sub # <<>> => /\ \A i \in 1 .. Len(c.parts) : Find(c.parts[i], sub) = None
                   /\ Len(c.rest) + k <= Len(text) \/ Find(c.rest, sub) = None

\* A turn keeps the invariant of the loop of split.
LEMMA SplitTurnGood ==
  ASSUME NEW text \in Strings, NEW sub \in Strings, NEW k \in Nat, NEW c,
         SplitGood(c, text, sub, k)
  PROVE  SplitGood(SplitTurn(c, sub), text, sub, k + 1)
<1> DEFINE d == SplitTurn(c, sub)
<1>0. /\ c \in Cuts /\ c.parts \in Seq(Strings) /\ c.rest \in Seq(Byte)
      /\ sub \in Seq(Byte) /\ text \in Seq(Byte)
      /\ Len(c.parts) \in Nat /\ Len(c.rest) \in Nat /\ Len(sub) \in Nat /\ Len(text) \in Nat
  BY DEF SplitGood, Cuts, Strings
<1>1. CASE Find(c.rest, sub) = None
  <2>1. d = c
    BY <1>0, <1>1, SplitTurnIs
  <2>2. Len(c.parts) <= k + 1
    BY <1>0 DEF SplitGood
  <2>3. SplitGood(c, text, sub, k + 1)
    BY <1>1, <2>2 DEF SplitGood
  <2> HIDE DEF d
  <2> QED
    BY <2>1, <2>3 DEF d
<1>2. CASE Find(c.rest, sub) # None
  <2>1. PICK part \in Strings, rest \in Strings :
          /\ d = [parts |-> Append(c.parts, part), rest |-> rest]
          /\ c.rest = part \o (sub \o rest)
          /\ Len(part) = Find(c.rest, sub)
          /\ Len(c.rest) = Len(part) + Len(sub) + Len(rest)
          /\ sub # <<>> => Find(part, sub) = None
    BY <1>0, <1>2, SplitTurnIs
  <2>2. part \in Seq(Byte) /\ rest \in Seq(Byte) /\ Len(part) \in Nat /\ Len(rest) \in Nat
    BY <2>1 DEF Strings
  <2>3. d \in Cuts
    BY <1>0, SplitTurnIs
  <2>4. d.parts = Append(c.parts, part) /\ d.rest = rest
    BY <2>1
  <2>5. Ended(d.parts, sub) \o d.rest = text
    <3> DEFINE p == c.parts
               e == Ended(p, sub)
    <3>0. p \in Seq(Seq(Byte))
      BY <1>0 DEF Strings
    <3>1. e \in Seq(Byte) /\ Ended(Append(p, part), sub) = e \o (part \o sub)
      <4> HIDE DEF p
      <4>1. \A S : \A q \in Seq(Seq(S)), r \in Seq(S), x \in Seq(S) :
              /\ Ended(q, x) \in Seq(S)
              /\ Ended(Append(q, r), x) = Ended(q, x) \o (r \o x)
        BY EndedIs
      <4>2. \A q \in Seq(Seq(Byte)), r \in Seq(Byte), x \in Seq(Byte) :
              /\ Ended(q, x) \in Seq(Byte)
              /\ Ended(Append(q, r), x) = Ended(q, x) \o (r \o x)
        BY <4>1
      <4> QED
        BY <1>0, <2>2, <3>0, <4>2
    <3>2. e \o (part \o (sub \o rest)) = text
      BY <2>1 DEF SplitGood
    <3> HIDE DEF e
    <3>5. part \o sub \in Seq(Byte)
      BY <1>0, <2>2
    <3>3. (e \o (part \o sub)) \o rest = e \o ((part \o sub) \o rest)
      BY <2>2, <3>1, <3>5
    <3>4. (part \o sub) \o rest = part \o (sub \o rest)
      BY <1>0, <2>2
    <3> QED
      BY <2>4, <3>1, <3>2, <3>3, <3>4
  <2>6. /\ Len(d.parts) = Len(c.parts) + 1
        /\ d.parts[Len(c.parts) + 1] = part
        /\ \A i \in 1 .. Len(c.parts) : d.parts[i] = c.parts[i]
    BY <1>0, <2>1, <2>4, AppendIs
  <2>7. Len(d.parts) <= k + 1
    BY <1>0, <2>6 DEF SplitGood
  <2>8. ASSUME sub # <<>>
        PROVE  /\ \A i \in 1 .. Len(d.parts) : Find(d.parts[i], sub) = None
               /\ Len(d.rest) + (k + 1) <= Len(text)
    <3>1. ASSUME NEW i \in 1 .. Len(d.parts)
          PROVE  Find(d.parts[i], sub) = None
      <4>1. i \in 1 .. Len(c.parts) \/ i = Len(c.parts) + 1
        BY <1>0, <2>6
      <4> QED
        BY <2>1, <2>6, <2>8, <4>1 DEF SplitGood
    <3>2. Len(sub) >= 1
      BY <1>0, <2>8
    <3>3. Len(c.rest) + k <= Len(text)
      BY <1>2, <2>8 DEF SplitGood
    <3>4. Len(rest) + (k + 1) <= Len(text)
      BY <1>0, <2>1, <2>2, <3>2, <3>3
    <3> QED
      BY <2>4, <3>1, <3>4
  <2> QED
    BY <2>3, <2>5, <2>7, <2>8 DEF SplitGood
<1> QED
  BY <1>1, <1>2

\* The loop of split keeps its invariant: nothing is lost, no part but the rest
\* holds a separator, and the rest holds none when there was a turn for every byte.
LEMMA SplitGoes ==
  ASSUME NEW text \in Strings, NEW sub \in Strings, NEW turns \in Nat
  PROVE  SplitGood(SplitLoop(text, sub, turns), text, sub, turns)
<1>0. PICK f : SplitSteps(f, text, sub, turns)
  BY SplitLoopIs
<1>1. /\ f \in [0 .. turns -> Cuts]
      /\ f[0] = [parts |-> <<>>, rest |-> text]
      /\ \A k \in 1 .. turns : f[k] = SplitTurn(f[k - 1], sub)
      /\ SplitLoop(text, sub, turns) = f[turns]
  BY <1>0 DEF SplitSteps
<1> DEFINE P == {k \in Nat : k <= turns => SplitGood(f[k], text, sub, k)}
<1>2. 0 \in P
  <2>1. text \in Seq(Byte) /\ Len(text) \in Nat
    BY DEF Strings
  <2>2. f[0] \in Cuts
    BY <1>1
  <2>3. Ended(<<>>, sub) \o text = text
    BY <2>1, EndedNone
  <2>4. Len(<<>>) = 0 /\ Len(text) + 0 <= Len(text)
    BY <2>1
  <2>5. \A i \in 1 .. 0 : FALSE
    OBVIOUS
  <2> DEFINE c == [parts |-> <<>>, rest |-> text]
  <2>6. c.parts = <<>> /\ c.rest = text /\ c = f[0]
    BY <1>1
  <2> HIDE DEF c
  <2>7. SplitGood(c, text, sub, 0)
    BY <2>2, <2>3, <2>4, <2>5, <2>6 DEF SplitGood
  <2> QED
    BY <2>6, <2>7
<1>3. ASSUME NEW k \in Nat, k \in P
      PROVE  k + 1 \in P
  <2>1. ASSUME k + 1 <= turns
        PROVE  SplitGood(f[k + 1], text, sub, k + 1)
    <3>1. k <= turns /\ k + 1 \in 1 .. turns /\ (k + 1) - 1 = k
      BY <2>1
    <3>2. f[k + 1] = SplitTurn(f[k], sub)
      BY <1>1, <3>1
    <3>3. SplitGood(f[k], text, sub, k)
      BY <1>3, <3>1
    <3> HIDE DEF P
    <3> QED
      BY <3>2, <3>3, SplitTurnGood
  <2> QED
    BY <2>1
<1> HIDE DEF P
<1>4. turns \in P
  BY <1>2, <1>3, CountingUp
<1> QED
  BY <1>1, <1>4 DEF P

\* Nothing is found in an empty string.
LEMMA NothingInNothing ==
  ASSUME NEW sub \in Strings, sub # <<>>, NEW t \in Strings, Len(t) = 0
  PROVE  Find(t, sub) = None
<1>1. t \in Seq(Byte) /\ sub \in Seq(Byte) /\ Len(sub) \in Nat /\ Len(sub) >= 1
  BY DEF Strings
<1>2. Find(t, sub) = None
  <2> DEFINE at == FindFrom(t, sub, 0)
  <2> HIDE DEF at
  <2>1. at = None \/ (at \in Nat /\ at \in Matches(t, sub))
    <3>1. 0 \in Nat
      OBVIOUS
    <3> QED
      BY <1>1, <3>1, Found DEF at
  <2>2. ASSUME at \in Nat, at \in Matches(t, sub)
        PROVE  at + Len(sub) <= Len(t)
    BY <1>1, <2>2, FoundDivides
  <2> QED
    BY <1>1, <2>1, <2>2 DEF Find, at
<1> QED
  BY <1>1, <1>2

-----------------------------------------------------------------------------
(* Replacing *)

\* A text in which replace goes on at a position.
Edits == [text : Strings, pos : Nat]

\* A turn of replace leaves a string and a place.
LEMMA ReplaceTurnIs ==
  ASSUME NEW c \in Edits, NEW sub \in Strings, NEW new \in Strings
  PROVE  ReplaceTurn(c, sub, new) \in Edits
<1> DEFINE s == c.text
           at == FindFrom(s, sub, c.pos)
           part == SubStr(s, 0, at)
           rest == SubStr(s, at + Len(sub), Len(s))
<1>0. c.pos \in Nat /\ s \in Seq(Byte) /\ sub \in Seq(Byte) /\ new \in Seq(Byte)
  BY DEF Edits, Strings
<1>1. CASE at = None
  BY <1>1 DEF ReplaceTurn
<1>2. CASE at # None
  <2>1. ReplaceTurn(c, sub, new) = [text |-> part \o new \o rest, pos |-> at + Len(new)]
    BY <1>2 DEF ReplaceTurn
  <2> HIDE DEF s
  <2>2. at \in Nat /\ at \in Matches(s, sub)
    BY <1>0, <1>2, Found
  <2> HIDE DEF at
  <2>3. part \in Seq(Byte) /\ rest \in Seq(Byte)
    BY <1>0, <2>2, FoundDivides
  <2> HIDE DEF part, rest
  <2>4. part \o new \o rest \in Seq(Byte) /\ at + Len(new) \in Nat
    BY <1>0, <2>2, <2>3
  <2> QED
    BY <2>1, <2>4 DEF Edits, Strings
<1> QED
  BY <1>1, <1>2

\* The texts that the loop has made after each of its turns.
ReplaceSteps(f, s, sub, new, turns) ==
  /\ f \in [0 .. turns -> Edits]
  /\ f[0] = [text |-> s, pos |-> 0]
  /\ \A k \in 1 .. turns : f[k] = ReplaceTurn(f[k - 1], sub, new)
  /\ ReplaceLoop(s, sub, new, turns) = f[turns]

\* The loop of replace is a sequence of turns.
LEMMA ReplaceLoopIs ==
  ASSUME NEW s \in Strings, NEW sub \in Strings, NEW new \in Strings, NEW turns \in Nat
  PROVE  \E f : ReplaceSteps(f, s, sub, new, turns)
<1> DEFINE b == [text |-> s, pos |-> 0]
           Step(f, k) == IF k = 0 THEN b ELSE ReplaceTurn(f[k - 1], sub, new)
           step == [k \in 1 .. turns |-> [c \in Edits |-> ReplaceTurn(c, sub, new)]]
           after == CHOOSE f : f = [k \in 0 .. turns |-> Step(f, k)]
<1>1. b \in Edits
  BY DEF Edits
<1>2. step \in [1 .. turns -> [Edits -> Edits]]
  BY ReplaceTurnIs
<1> HIDE DEF b, step
<1>3. PICK g : Computed(g, turns, Edits, b, step)
  BY <1>1, <1>2, Computes
<1>4. /\ g \in [0 .. turns -> Edits] /\ g[0] = b
      /\ \A k \in 1 .. turns : g[k] = ReplaceTurn(g[k - 1], sub, new)
  <2>1. g \in [0 .. turns -> Edits] /\ g[0] = b
    BY <1>3 DEF Computed
  <2>2. \A k \in 1 .. turns : g[k - 1] \in Edits /\ g[k] = step[k][g[k - 1]]
    BY <1>3, <2>1 DEF Computed
  <2> QED
    BY <2>1, <2>2 DEF step
<1>5. g = [k \in 0 .. turns |-> Step(g, k)]
  <2>1. \A k \in 0 .. turns : g[k] = Step(g, k)
    BY <1>4
  <2>2. g = [k \in 0 .. turns |-> g[k]]
    BY <1>4
  <2> HIDE DEF Step
  <2> QED
    BY <2>1, <2>2
<1>6. after = [k \in 0 .. turns |-> Step(after, k)]
  <2> HIDE DEF Step
  <2> QED
    BY <1>5
<1>7. ReplaceLoop(s, sub, new, turns) = after[turns]
  BY DEF ReplaceLoop, b
<1> HIDE DEF after
<1>8. after[0] = b /\ \A k \in 1 .. turns : after[k] = ReplaceTurn(after[k - 1], sub, new)
  <2>1. 0 \in 0 .. turns /\ \A k \in 1 .. turns : k \in 0 .. turns /\ k # 0
    OBVIOUS
  <2>2. \A k \in 0 .. turns : after[k] = Step(after, k)
    <3> HIDE DEF Step
    <3> QED
      BY <1>6
  <2> QED
    BY <2>1, <2>2
<1>9. after = [k \in 0 .. turns |-> after[k]]
  <2> HIDE DEF Step
  <2> QED
    BY <1>6
<1>10. \A k \in 1 .. turns : after[k - 1] \in Edits => after[k] = step[k][after[k - 1]]
  BY <1>8 DEF step
<1>11. Computed(after, turns, Edits, b, step)
  BY <1>1, <1>2, <1>8, <1>9, <1>10, StaysComputed
<1>12. after \in [0 .. turns -> Edits]
  BY <1>11 DEF Computed
<1> QED
  BY <1>7, <1>8, <1>12 DEF b, ReplaceSteps

\* It is the same what is put together first.
LEMMA Associative ==
  ASSUME NEW S, NEW a \in Seq(S), NEW b \in Seq(S), NEW c \in Seq(S)
  PROVE  (a \o b) \o c = a \o (b \o c)
OBVIOUS

\* Where the two loops stand after as many turns.
Lockstep(r, c, new) ==
  /\ r.text = Ended(c.parts, new) \o c.rest
  /\ r.pos = Len(Ended(c.parts, new))

\* A turn of replace and a turn of split cut at the same place: what replace has
\* done is to join the parts of split with the new text.
LEMMA LockstepTurn ==
  ASSUME NEW r, NEW c \in Cuts, NEW sub \in Strings, NEW new \in Strings, Lockstep(r, c, new)
  PROVE  Lockstep(ReplaceTurn(r, sub, new), SplitTurn(c, sub), new)
<1> DEFINE p == c.parts
           t == c.rest
           e == Ended(p, new)
<1>0. p \in Seq(Seq(Byte)) /\ t \in Seq(Byte) /\ sub \in Seq(Byte) /\ new \in Seq(Byte)
  BY DEF Cuts, Strings
<1>1. r.text = e \o t /\ r.pos = Len(e)
  BY DEF Lockstep
<1> DEFINE d == SplitTurn(c, sub)
           at == FindFrom(e \o t, sub, Len(e))
           off == Find(t, sub)
<1>2. off = None => d = c
  BY SplitTurnIs
<1>3. off # None => \E part, rest \in Strings :
          /\ d = [parts |-> Append(p, part), rest |-> rest]
          /\ t = part \o (sub \o rest)
          /\ Len(part) = off
          /\ Len(t) = Len(part) + Len(sub) + Len(rest)
  BY SplitTurnIs
<1> HIDE DEF d
<1>4. ReplaceTurn(r, sub, new) =
        IF at = None THEN r
        ELSE [text |-> SubStr(e \o t, 0, at) \o new \o SubStr(e \o t, at + Len(sub), Len(e \o t)),
              pos  |-> at + Len(new)]
  BY <1>1 DEF ReplaceTurn
<1> HIDE DEF p, t
<1>5. e \in Seq(Byte) /\ Len(e) \in Nat
  BY <1>0, EndedIs
<1>6. \A q \in Seq(Byte) : Ended(Append(p, q), new) = e \o (q \o new)
  BY <1>0, EndedIs
<1> HIDE DEF e
<1>7. (off = None => at = None) /\ (off # None => at = Len(e) + off)
  BY <1>0, <1>5, FoundBehind
<1> HIDE DEF at, off
<1>8. CASE off = None
  <2>1. ReplaceTurn(r, sub, new) = r
    BY <1>4, <1>7, <1>8
  <2>2. SplitTurn(c, sub) = c
    BY <1>2, <1>8 DEF d
  <2> QED
    BY <2>1, <2>2
<1>9. CASE off # None
  <2>1. PICK part \in Strings, rest \in Strings :
          /\ d = [parts |-> Append(p, part), rest |-> rest]
          /\ t = part \o (sub \o rest)
          /\ Len(part) = off
          /\ Len(t) = Len(part) + Len(sub) + Len(rest)
    BY <1>3, <1>9
  <2>2. part \in Seq(Byte) /\ rest \in Seq(Byte) /\ Len(part) \in Nat /\ Len(rest) \in Nat /\ Len(sub) \in Nat
    BY <1>0, <2>1 DEF Strings
  <2> DEFINE front == e \o part
             head == front \o sub
             u == e \o t
  <2>3. /\ front \in Seq(Byte) /\ Len(front) = Len(e) + Len(part)
        /\ head \in Seq(Byte) /\ Len(head) = Len(front) + Len(sub)
        /\ u \in Seq(Byte) /\ Len(u) = Len(e) + Len(t)
    BY <1>0, <1>5, <2>2
  <2>4. u = front \o (sub \o rest) /\ u = head \o rest
    <3>1. sub \o rest \in Seq(Byte)
      BY <1>0, <2>2
    <3>2. e \o (part \o (sub \o rest)) = (e \o part) \o (sub \o rest)
      BY <1>5, <2>2, <3>1, SMTT(30)
    <3> HIDE DEF front, head
    <3>3. front \o (sub \o rest) = (front \o sub) \o rest
      <4>1. front \in Seq(Byte) /\ sub \in Seq(Byte) /\ rest \in Seq(Byte)
        BY <1>0, <2>2, <2>3
      <4> QED
        BY <4>1, Associative
    <3> QED
      BY <2>1, <3>2, <3>3 DEF front, head
  <2> HIDE DEF u, head, front
  <2>5. at = Len(front) /\ at # None /\ at + Len(sub) = Len(head) /\ Len(u) = Len(head) + Len(rest)
    BY <1>5, <1>7, <1>9, <2>1, <2>2, <2>3, SMTT(30) DEF None
  <2>6. SubStr(u, 0, at) = front
    <3>1. sub \o rest \in Seq(Byte)
      BY <1>0, <2>2
    <3>2. SubSeq(front \o (sub \o rest), 1, Len(front)) = front
      BY <2>3, <3>1, SubSeqFront
    <3> QED
      BY <2>4, <2>5, <3>2 DEF SubStr
  <2>7. SubStr(u, at + Len(sub), Len(u)) = rest
    <3>1. SubSeq(head \o rest, Len(head) + 1, Len(head) + Len(rest)) = SubSeq(rest, 1, Len(rest))
      BY <2>2, <2>3, SubSeqBehind
    <3>2. SubSeq(rest, 1, Len(rest)) = rest
      BY <2>2
    <3> QED
      BY <2>4, <2>5, <3>1, <3>2 DEF SubStr
  <2>8. ReplaceTurn(r, sub, new) = [text |-> front \o new \o rest, pos |-> at + Len(new)]
    BY <1>4, <2>5, <2>6, <2>7 DEF u
  <2>9. d.parts = Append(p, part) /\ d.rest = rest
    BY <2>1
  <2>10. Ended(d.parts, new) = e \o (part \o new)
    BY <1>6, <2>2, <2>9
  <2>11. e \o (part \o new) = front \o new
    BY <1>0, <1>5, <2>2 DEF front
  <2>12. Len(front \o new) = at + Len(new)
    <3>1. Len(front \o new) = Len(front) + Len(new)
      BY <1>0, <2>3, Concatenated
    <3> QED
      BY <2>5, <3>1
  <2> QED
    BY <2>8, <2>9, <2>10, <2>11, <2>12 DEF Lockstep, d
<1> QED
  BY <1>8, <1>9

\* So do the loops.
LEMMA LockstepLoop ==
  ASSUME NEW s \in Strings, NEW sub \in Strings, NEW new \in Strings, NEW turns \in Nat
  PROVE  /\ ReplaceLoop(s, sub, new, turns) \in Edits
         /\ Lockstep(ReplaceLoop(s, sub, new, turns), SplitLoop(s, sub, turns), new)
<1>1. PICK c : SplitSteps(c, s, sub, turns)
  BY SplitLoopIs
<1>2. /\ c \in [0 .. turns -> Cuts] /\ c[0] = [parts |-> <<>>, rest |-> s]
      /\ \A k \in 1 .. turns : c[k] = SplitTurn(c[k - 1], sub)
      /\ SplitLoop(s, sub, turns) = c[turns]
  BY <1>1 DEF SplitSteps
<1>3. PICK r : ReplaceSteps(r, s, sub, new, turns)
  BY ReplaceLoopIs
<1>4. /\ r \in [0 .. turns -> Edits] /\ r[0] = [text |-> s, pos |-> 0]
      /\ \A k \in 1 .. turns : r[k] = ReplaceTurn(r[k - 1], sub, new)
      /\ ReplaceLoop(s, sub, new, turns) = r[turns]
  BY <1>3 DEF ReplaceSteps
<1> DEFINE P == {k \in Nat : k <= turns => Lockstep(r[k], c[k], new)}
<1>5. 0 \in P
  <2>1. s \in Seq(Byte)
    BY DEF Strings
  <2>2. r[0].text = s /\ r[0].pos = 0 /\ c[0].parts = <<>> /\ c[0].rest = s
    BY <1>2, <1>4
  <2>3. <<>> \o s = s /\ Len(<<>>) = 0
    BY <2>1
  <2> QED
    BY <2>2, <2>3, EndedNone DEF Lockstep
<1>6. ASSUME NEW k \in Nat, k \in P
      PROVE  k + 1 \in P
  <2>1. ASSUME k + 1 <= turns
        PROVE  Lockstep(r[k + 1], c[k + 1], new)
    <3>1. k <= turns /\ k \in 0 .. turns /\ k + 1 \in 1 .. turns /\ (k + 1) - 1 = k
      BY <2>1
    <3>2. c[k + 1] = SplitTurn(c[k], sub) /\ r[k + 1] = ReplaceTurn(r[k], sub, new)
      BY <1>2, <1>4, <3>1
    <3>3. Lockstep(r[k], c[k], new) /\ c[k] \in Cuts
      BY <1>2, <1>6, <3>1
    <3> HIDE DEF P
    <3> QED
      BY <3>2, <3>3, LockstepTurn
  <2> QED
    BY <2>1
<1> HIDE DEF P
<1>7. turns \in P
  BY <1>5, <1>6, CountingUp
<1> QED
  BY <1>2, <1>4, <1>7 DEF P

\* The null is a string.
LEMMA NulIs == <<Nul>> \in Seq(Byte)
BY DEF Nul, Byte

\* The copy that split works on.
LEMMA CStringIs ==
  ASSUME NEW s \in Strings
  PROVE  /\ CString(s) \in Strings
         /\ Len(CString(s)) <= Len(s)
         /\ Find(s, <<Nul>>) = None => CString(s) = s
<1> DEFINE nul == <<Nul>>
           at == Find(s, nul)
<1>0. s \in Seq(Byte) /\ Len(s) \in Nat /\ nul \in Seq(Byte) /\ Len(nul) = 1
  BY NulIs DEF Strings
<1>1. CASE at = None
  BY <1>0, <1>1 DEF CString
<1>2. CASE at # None
  <2>1. CString(s) = SubStr(s, 0, at)
    <3>1. CString(s) = SubSeq(s, 1, at)
      BY <1>2 DEF CString
    <3>2. 0 + 1 = 1
      OBVIOUS
    <3> HIDE DEF at
    <3> QED
      BY <3>1, <3>2 DEF SubStr
  <2> HIDE DEF nul
  <2>2. at \in Matches(s, nul)
    BY <1>0, <1>2, Found DEF Find
  <2> HIDE DEF at
  <2>3. /\ at \in Nat /\ at + Len(nul) <= Len(s)
        /\ SubStr(s, 0, at) \in Seq(Byte) /\ Len(SubStr(s, 0, at)) = at
    <3>1. s \in Seq(Byte) /\ nul \in Seq(Byte)
      BY <1>0
    <3> QED
      BY <2>2, <3>1, FoundDivides
  <2>4. CString(s) \in Strings /\ Len(CString(s)) <= Len(s)
    BY <1>0, <2>1, <2>3 DEF Strings
  <2> QED
    BY <1>2, <2>4 DEF at, nul
<1> QED
  BY <1>1, <1>2

\* What the loop and the end of split make of a text.
LEMMA SplitEndIs ==
  ASSUME NEW text \in Strings, NEW sub \in Strings, NEW turns \in Nat, NEW n \in Int, n # 0,
         sub # <<>> \/ n > 0, n < 0 => turns >= Len(text)
  PROVE  LET c   == SplitLoop(text, sub, turns)
             res == SplitEnd(c, n)
         IN  /\ res \in Seq(Strings)
             /\ Joined(res, sub) = text \/ (n < 0 /\ Joined(res, sub) \o sub = text)
             /\ n > 0 => /\ Len(res) \in 1 .. turns + 1
                         /\ \A x : Joined(res, x) = Joined(Append(c.parts, c.rest), x)
             /\ sub # <<>> =>
                  \A i \in DOMAIN res : i < Len(res) \/ n < 0 => Find(res[i], sub) = None
<1> DEFINE c == SplitLoop(text, sub, turns)
           res == SplitEnd(c, n)
           p == c.parts
           t == c.rest
<1>0. SplitGood(c, text, sub, turns)
  BY SplitGoes
<1>1. /\ p \in Seq(Strings) /\ t \in Strings
      /\ Ended(p, sub) \o t = text
      /\ Len(p) <= turns
      /\ sub # <<>> => /\ \A i \in 1 .. Len(p) : Find(p[i], sub) = None
                       /\ Len(t) + turns <= Len(text) \/ Find(t, sub) = None
  BY <1>0 DEF SplitGood, Cuts
<1>2. res = IF n > 0 \/ t # <<>> THEN Append(p, t) ELSE p
  BY DEF SplitEnd
<1> HIDE DEF c, res, p, t
<1>3. /\ p \in Seq(Seq(Byte)) /\ t \in Seq(Byte) /\ sub \in Seq(Byte) /\ text \in Seq(Byte)
      /\ Len(p) \in Nat /\ Len(t) \in Nat /\ Len(text) \in Nat
  BY <1>1 DEF Strings
<1>4. ASSUME n < 0, sub # <<>>
      PROVE  Find(t, sub) = None
  <2>1. ASSUME Len(t) + turns <= Len(text)
        PROVE  Len(t) = 0
    BY <1>3, <1>4, <2>1
  <2> QED
    BY <1>1, <1>4, <2>1, NothingInNothing
<1>5. CASE n > 0 \/ t # <<>>
  <2>1. res = Append(p, t)
    BY <1>2, <1>5
  <2>2. /\ Append(p, t) \in Seq(Strings) /\ Len(Append(p, t)) = Len(p) + 1
        /\ Append(p, t)[Len(p) + 1] = t
        /\ \A i \in 1 .. Len(p) : Append(p, t)[i] = p[i]
    BY <1>1, AppendIs
  <2>3. Joined(Append(p, t), sub) = text
    BY <1>1, <1>3, JoinedIs
  <2>4. ASSUME sub # <<>>, NEW i \in DOMAIN res, i < Len(res) \/ n < 0
        PROVE  Find(res[i], sub) = None
    <3>1. i \in 1 .. Len(p) + 1
      BY <2>1, <2>2
    <3>2. CASE i \in 1 .. Len(p)
      BY <1>1, <2>1, <2>2, <2>4, <3>2
    <3>3. CASE i = Len(p) + 1
      BY <1>3, <1>4, <2>1, <2>2, <2>4, <3>3
    <3> QED
      BY <1>3, <3>1, <3>2, <3>3
  <2>5. Len(res) \in 1 .. turns + 1
    BY <1>1, <1>3, <2>1, <2>2
  <2> QED
    BY <2>1, <2>2, <2>3, <2>4, <2>5 DEF c, res, p, t
<1>6. CASE ~(n > 0 \/ t # <<>>)
  <2>1. res = p /\ n < 0 /\ sub # <<>> /\ t = <<>>
    BY <1>2, <1>6
  <2>2. Joined(p, sub) = text \/ Joined(p, sub) \o sub = text
    <3>1. Ended(p, sub) \in Seq(Byte)
      BY <1>3, EndedIs
    <3>2. Ended(p, sub) = text
      BY <1>1, <2>1, <3>1
    <3>3. CASE p = <<>>
      BY <3>2, <3>3, EndedNone, JoinedNone
    <3>4. CASE p # <<>>
      BY <1>3, <3>2, <3>4, JoinedEnded
    <3> QED
      BY <3>3, <3>4
  <2>3. ASSUME NEW i \in DOMAIN res
        PROVE  Find(res[i], sub) = None
    BY <1>1, <2>1, <2>3
  <2> QED
    BY <1>1, <2>1, <2>2, <2>3 DEF c, res, p, t
<1> QED
  BY <1>5, <1>6

\* What Str::split promises (SplitParts), for every string, separator and count.
LEMMA SplitIs ==
  ASSUME NEW s \in Strings, NEW sub \in Strings, NEW n \in Int, n # 0, ~Endless(sub, n)
  PROVE  /\ Split(s, sub, n) \in Seq(Strings)
         /\ \/ Joined(Split(s, sub, n), sub) = CString(s)
            \/ n < 0 /\ Joined(Split(s, sub, n), sub) \o sub = CString(s)
         /\ n > 0 => Len(Split(s, sub, n)) \in 1 .. n
         /\ sub # <<>> =>
              \A i \in DOMAIN Split(s, sub, n) :
                i < Len(Split(s, sub, n)) \/ n < 0 => Find(Split(s, sub, n)[i], sub) = None
<1> DEFINE text == CString(s)
           turns == IF n > 0 THEN n - 1 ELSE Len(s)
           c == SplitLoop(text, sub, turns)
           res == SplitEnd(c, n)
<1>1. Split(s, sub, n) = res
  BY DEF Split
<1>2. text \in Strings /\ Len(text) <= Len(s)
  BY CStringIs
<1>3. Len(s) \in Nat
  BY DEF Strings
<1>4. turns \in Nat /\ (n < 0 => turns >= Len(text)) /\ (n > 0 => turns + 1 = n)
  BY <1>2, <1>3
<1>5. sub # <<>> \/ n > 0
  BY DEF Endless
<1> HIDE DEF text, turns
<1>6. /\ res \in Seq(Strings)
      /\ Joined(res, sub) = text \/ (n < 0 /\ Joined(res, sub) \o sub = text)
      /\ n > 0 => /\ Len(res) \in 1 .. turns + 1
                  /\ \A x : Joined(res, x) = Joined(Append(c.parts, c.rest), x)
      /\ sub # <<>> =>
           \A i \in DOMAIN res : i < Len(res) \/ n < 0 => Find(res[i], sub) = None
  BY <1>2, <1>4, <1>5, SplitEndIs
<1> HIDE DEF c, res
<1>7. n > 0 => Len(res) \in 1 .. n
  BY <1>4, <1>6
<1> QED
  BY <1>1, <1>6, <1>7 DEF text

\* What Str::replace promises (ReplaceIsSplit), for every string, text and count.
LEMMA ReplaceIs ==
  ASSUME NEW s \in Strings, NEW sub \in Strings, NEW new \in Strings, NEW n \in Int
  PROVE  /\ Replace(s, sub, new, n) \in Strings
         /\ sub # <<>> /\ Find(s, <<Nul>>) = None =>
              Replace(s, sub, new, n) =
                Joined(Split(s, sub, (IF n < 0 THEN Len(s) ELSE n) + 1), new)
<1> DEFINE turns == IF n < 0 THEN Len(s) ELSE n
           r == ReplaceLoop(s, sub, new, turns)
           c == SplitLoop(s, sub, turns)
<1>1. turns \in Nat /\ turns + 1 > 0 /\ turns + 1 # 0 /\ (turns + 1) - 1 = turns /\ turns + 1 \in Int
  BY DEF Strings
<1>2. Replace(s, sub, new, n) = IF n = 0 THEN s ELSE r.text
  BY DEF Replace
<1> HIDE DEF turns
<1>3. r \in Edits /\ Lockstep(r, c, new)
  BY <1>1, LockstepLoop
<1>4. Replace(s, sub, new, n) \in Strings
  BY <1>2, <1>3 DEF Edits
<1>5. ASSUME sub # <<>>, Find(s, <<Nul>>) = None
      PROVE  Replace(s, sub, new, n) = Joined(Split(s, sub, turns + 1), new)
  <2>1. CString(s) = s
    BY <1>5, CStringIs
  <2>2. Split(s, sub, turns + 1) = Append(c.parts, c.rest)
    BY <1>1, <2>1 DEF Split, SplitEnd
  <2>3. c \in Cuts
    BY <1>1, SplitGoes DEF SplitGood
  <2>4. Joined(Append(c.parts, c.rest), new) = Ended(c.parts, new) \o c.rest
    <3> DEFINE p == c.parts
               t == c.rest
    <3>1. p \in Seq(Seq(Byte)) /\ t \in Seq(Byte) /\ new \in Seq(Byte)
      BY <2>3 DEF Cuts, Strings
    <3> HIDE DEF p, t
    <3>2. Joined(Append(p, t), new) = Ended(p, new) \o t
      BY <3>1, JoinedIs
    <3> QED
      BY <3>2 DEF p, t
  <2>5. CASE n # 0
    BY <1>2, <1>3, <2>2, <2>4, <2>5 DEF Lockstep
  <2>6. CASE n = 0
    <3>1. turns = 0
      BY <2>6 DEF turns
    <3>2. PICK f : SplitSteps(f, s, sub, 0)
      BY SplitLoopIs
    <3>3. c = [parts |-> <<>>, rest |-> s]
      BY <3>1, <3>2 DEF SplitSteps
    <3>4. c.parts = <<>> /\ c.rest = s /\ <<>> \o s = s
      BY <3>3 DEF Strings
    <3> QED
      BY <1>2, <2>2, <2>4, <2>6, <3>4, EndedNone
  <2> QED
    BY <2>5, <2>6
<1> QED
  BY <1>4, <1>5 DEF turns

-----------------------------------------------------------------------------
(* Reading from the end *)

\* Induction from the end of a sequence to its beginning.
LEMMA CountingDown ==
  ASSUME NEW n \in Nat, NEW P, n + 1 \in P,
         \A i \in 1 .. n : (\A j \in i + 1 .. n + 1 : j \in P) => i \in P
  PROVE  1 .. n + 1 \subseteq P
<1> DEFINE Q == {k \in Nat : k <= n => \A j \in n + 1 - k .. n + 1 : j \in P}
<1>1. 0 \in Q
  OBVIOUS
<1>2. ASSUME NEW k \in Nat, k \in Q
      PROVE  k + 1 \in Q
  <2>1. ASSUME k + 1 <= n, NEW j \in n + 1 - (k + 1) .. n + 1
        PROVE  j \in P
    <3>1. k <= n /\ \A i \in n + 1 - k .. n + 1 : i \in P
      BY <1>2, <2>1
    <3>2. j \in n + 1 - k .. n + 1 \/ j = n - k
      BY <2>1
    <3>3. n - k \in 1 .. n /\ (n - k) + 1 = n + 1 - k
      BY <2>1
    <3>4. n - k \in P
      BY <3>1, <3>3
    <3> QED
      BY <3>1, <3>2, <3>4
  <2> QED
    BY <2>1
<1> HIDE DEF Q
<1>3. n \in Q
  BY <1>1, <1>2, CountingUp
<1>4. \A j \in n + 1 - n .. n + 1 : j \in P
  BY <1>3 DEF Q
<1> QED
  BY <1>4

\* A list that is read from its end: its first element is h[i], and it goes on
\* at to[i], further on.
Reads(f, n, T, h, to) ==
  /\ f \in [1 .. n + 1 -> Seq(T)]
  /\ f[n + 1] = <<>>
  /\ \A i \in 1 .. n : f[i] = <<h[i]>> \o f[to[i]]

\* Every next place is further on.
Onwards(n, to) == to \in [1 .. n -> 1 .. n + 1] /\ \A i \in 1 .. n : to[i] > i

\* There is such a reading.
LEMMA ReadsExists ==
  ASSUME NEW n \in Nat, NEW T, NEW h \in [1 .. n -> T], NEW to, Onwards(n, to)
  PROVE  \E f : Reads(f, n, T, h, to)
<1> DEFINE Good(f, k) == /\ f \in [1 .. n + 1 -> Seq(T)]
                         /\ f[n + 1] = <<>>
                         /\ \A i \in n + 1 - k .. n : f[i] = <<h[i]>> \o f[to[i]]
           P == {k \in Nat : k <= n => \E f : Good(f, k)}
<1>0. to \in [1 .. n -> 1 .. n + 1] /\ \A i \in 1 .. n : to[i] > i
  BY DEF Onwards
<1>1. 0 \in P
  <2> DEFINE f == [i \in 1 .. n + 1 |-> <<>>]
  <2>1. f \in [1 .. n + 1 -> Seq(T)] /\ f[n + 1] = <<>>
    OBVIOUS
  <2>2. \A i \in n + 1 - 0 .. n : FALSE
    OBVIOUS
  <2> HIDE DEF f
  <2>3. Good(f, 0)
    BY <2>1, <2>2
  <2> QED
    BY <2>3
<1>2. ASSUME NEW k \in Nat, k \in P
      PROVE  k + 1 \in P
  <2>1. ASSUME k + 1 <= n
        PROVE  \E f : Good(f, k + 1)
    <3>1. PICK g : Good(g, k)
      <4>1. k <= n
        BY <2>1
      <4> HIDE DEF Good
      <4> QED
        BY <1>2, <4>1
    <3> DEFINE at == n - k
               new == <<h[at]>> \o g[to[at]]
               f == [g EXCEPT ![at] = new]
    <3>2. at \in 1 .. n /\ at \in 1 .. n + 1 /\ n + 1 - (k + 1) = at /\ at # n + 1 /\ n + 1 - k = at + 1
      BY <2>1
    <3> HIDE DEF at
    <3>3. new \in Seq(T)
      <4>1. to[at] \in 1 .. n + 1 /\ h[at] \in T
        BY <1>0, <3>2
      <4>2. g[to[at]] \in Seq(T)
        BY <3>1, <4>1
      <4> QED
        BY <4>1, <4>2
    <3> HIDE DEF new
    <3>4. /\ f \in [1 .. n + 1 -> Seq(T)] /\ f[at] = new
          /\ \A i \in 1 .. n + 1 : i # at => f[i] = g[i]
      BY <3>1, <3>2, <3>3
    <3>5. f[n + 1] = <<>>
      BY <3>1, <3>2, <3>4
    <3> HIDE DEF f
    <3>6. ASSUME NEW i \in at .. n
          PROVE  f[i] = <<h[i]>> \o f[to[i]]
      <4>1. i \in 1 .. n /\ to[i] \in 1 .. n + 1 /\ to[i] > i /\ to[i] # at /\ i \in 1 .. n + 1
        BY <1>0, <3>2
      <4>2. f[to[i]] = g[to[i]]
        BY <3>4, <4>1
      <4>3. CASE i = at
        BY <3>4, <4>2, <4>3 DEF new
      <4>4. CASE i # at
        <5>1. i \in n + 1 - k .. n
          BY <3>2, <4>4
        <5>2. g[i] = <<h[i]>> \o g[to[i]]
          BY <3>1, <5>1
        <5> QED
          BY <3>4, <4>1, <4>2, <4>4, <5>2
      <4> QED
        BY <4>3, <4>4
    <3>7. Good(f, k + 1)
      BY <3>2, <3>4, <3>5, <3>6
    <3> HIDE DEF Good
    <3> QED
      BY <3>7
  <2> HIDE DEF Good
  <2> QED
    BY <2>1
<1> HIDE DEF P
<1>3. n \in P
  BY <1>1, <1>2, CountingUp
<1>4. PICK f : Good(f, n)
  <2> HIDE DEF Good
  <2> QED
    BY <1>3 DEF P
<1>5. \A i \in 1 .. n : i \in n + 1 - n .. n
  OBVIOUS
<1> QED
  BY <1>4, <1>5 DEF Reads

\* One step of this recursion, everywhere.
Unfolded(f, n, h, to) == [i \in 1 .. n + 1 |-> IF i > n THEN <<>> ELSE <<h[i]>> \o f[to[i]]]

\* What is defined by this recursion is such a reading.
LEMMA ReadsIs ==
  ASSUME NEW n \in Nat, NEW T, NEW h \in [1 .. n -> T], NEW to, Onwards(n, to),
         NEW f, f = Unfolded(f, n, h, to)
  PROVE  Reads(f, n, T, h, to)
<1>0. to \in [1 .. n -> 1 .. n + 1] /\ \A i \in 1 .. n : to[i] > i
  BY DEF Onwards
<1>1. f[n + 1] = <<>> /\ \A i \in 1 .. n : f[i] = <<h[i]>> \o f[to[i]]
  <2>1. \A i \in 1 .. n + 1 : f[i] = IF i > n THEN <<>> ELSE <<h[i]>> \o f[to[i]]
    BY DEF Unfolded
  <2>2. n + 1 \in 1 .. n + 1 /\ n + 1 > n /\ \A i \in 1 .. n : i \in 1 .. n + 1 /\ ~(i > n)
    OBVIOUS
  <2> QED
    BY <2>1, <2>2
<1> DEFINE P == {i \in 1 .. n + 1 : f[i] \in Seq(T)}
<1>2. n + 1 \in P
  <2>1. <<>> \in Seq(T) /\ n + 1 \in 1 .. n + 1
    OBVIOUS
  <2> QED
    BY <1>1, <2>1, Zenon
<1>3. ASSUME NEW i \in 1 .. n, \A j \in i + 1 .. n + 1 : j \in P
      PROVE  i \in P
  <2>1. to[i] \in i + 1 .. n + 1
    <3>1. to[i] \in 1 .. n + 1 /\ to[i] > i
      BY <1>0
    <3> QED
      BY <3>1
  <2>2. f[to[i]] \in Seq(T) /\ h[i] \in T
    BY <1>3, <2>1
  <2>3. <<h[i]>> \o f[to[i]] \in Seq(T)
    BY <2>2
  <2>4. f[i] = <<h[i]>> \o f[to[i]]
    BY <1>1
  <2>5. f[i] \in Seq(T)
    BY <2>3, <2>4, Zenon
  <2>6. i \in 1 .. n + 1
    OBVIOUS
  <2> QED
    BY <2>5, <2>6, Zenon
<1> HIDE DEF P
<1>4. 1 .. n + 1 \subseteq P
  BY <1>2, <1>3, CountingDown
<1>5. \A i \in 1 .. n + 1 : f[i] \in Seq(T)
  BY <1>4 DEF P
<1>6. f = [i \in 1 .. n + 1 |-> f[i]]
  BY DEF Unfolded
<1>7. f \in [1 .. n + 1 -> Seq(T)]
  BY <1>5, <1>6
<1> QED
  BY <1>1, <1>7 DEF Reads

\* And such a reading is one by recursion.
LEMMA ReadsBy ==
  ASSUME NEW n \in Nat, NEW T, NEW h, NEW to, NEW f, Reads(f, n, T, h, to)
  PROVE  f = Unfolded(f, n, h, to)
<1>1. f = [i \in 1 .. n + 1 |-> f[i]]
  BY DEF Reads
<1>2. \A i \in 1 .. n + 1 : f[i] = IF i > n THEN <<>> ELSE <<h[i]>> \o f[to[i]]
  <2>1. f[n + 1] = <<>> /\ \A i \in 1 .. n : f[i] = <<h[i]>> \o f[to[i]]
    BY DEF Reads
  <2>2. \A i \in 1 .. n + 1 : (i > n => i = n + 1) /\ (~(i > n) => i \in 1 .. n)
    OBVIOUS
  <2> QED
    BY <2>1, <2>2
<1> QED
  BY <1>1, <1>2 DEF Unfolded

\* There is but one.
LEMMA ReadsSame ==
  ASSUME NEW n \in Nat, NEW T, NEW h, NEW to, Onwards(n, to),
         NEW f, Reads(f, n, T, h, to), NEW g, Reads(g, n, T, h, to)
  PROVE  f[1] = g[1]
<1>0. to \in [1 .. n -> 1 .. n + 1] /\ \A i \in 1 .. n : to[i] > i
  BY DEF Onwards
<1> DEFINE P == {i \in 1 .. n + 1 : f[i] = g[i]}
<1>1. n + 1 \in P
  BY DEF Reads
<1>2. ASSUME NEW i \in 1 .. n, \A j \in i + 1 .. n + 1 : j \in P
      PROVE  i \in P
  <2>1. to[i] \in i + 1 .. n + 1
    <3>1. to[i] \in 1 .. n + 1 /\ to[i] > i
      BY <1>0
    <3> QED
      BY <3>1
  <2>2. f[to[i]] = g[to[i]]
    BY <1>2, <2>1
  <2>3. f[i] = <<h[i]>> \o f[to[i]] /\ g[i] = <<h[i]>> \o g[to[i]]
    BY DEF Reads
  <2>4. i \in 1 .. n + 1
    OBVIOUS
  <2> QED
    BY <2>2, <2>3, <2>4, Zenon
<1> HIDE DEF P
<1>3. 1 .. n + 1 \subseteq P
  BY <1>1, <1>2, CountingDown
<1>4. 1 \in 1 .. n + 1
  OBVIOUS
<1> QED
  BY <1>3, <1>4 DEF P

-----------------------------------------------------------------------------
(* Decoding *)

\* A byte is what the table of first bytes says of it.
LEMMA SizeIs ==
  ASSUME NEW b \in Byte
  PROVE  /\ Size(b) \in 0 .. 4
         /\ Size(b) = 1 <=> b \in 0 .. 127
         /\ Size(b) = 2 <=> b \in 194 .. 223
         /\ Size(b) = 3 <=> b \in 224 .. 239
         /\ Size(b) = 4 <=> b \in 240 .. 244
BY DEF Size, Byte

\* The bits of a byte below its prefix.
LEMMA Masked ==
  /\ \A b \in 192 .. 223 : b % 32 = b - 192
  /\ \A b \in 224 .. 239 : b % 16 = b - 224
  /\ \A b \in 240 .. 247 : b % 8 = b - 240
  /\ \A b \in 128 .. 191 : b % 64 = b - 128
<1>1. \A b \in 192 .. 223 : b % 32 = b - 192
  OBVIOUS
<1>2. \A b \in 224 .. 239 : b % 16 = b - 224
  OBVIOUS
<1>3. \A b \in 240 .. 247 : b % 8 = b - 240
  OBVIOUS
<1>4. \A b \in 128 .. 191 : b % 64 = b - 128
  OBVIOUS
<1> QED
  BY <1>1, <1>2, <1>3, <1>4

\* The bytes that may come second, by the first.
LEMMA AcceptIs ==
  ASSUME NEW b \in Byte
  PROVE  /\ Accept(b) \subseteq Continuation
         /\ b = 224 => Accept(b) = 160 .. 191
         /\ b = 237 => Accept(b) = 128 .. 159
         /\ b = 240 => Accept(b) = 144 .. 191
         /\ b = 244 => Accept(b) = 128 .. 143
         /\ b \notin {224, 237, 240, 244} => Accept(b) = 128 .. 191
BY DEF Accept, Continuation, Byte

\* What a well-formed beginning is, for each length.
Formed(s, k) ==
  /\ k \in 1 .. 4 /\ k <= Len(s) /\ Size(s[1]) = k
  /\ k > 1 => s[2] \in Accept(s[1])
  /\ k > 2 => s[3] \in Continuation
  /\ k > 3 => s[4] \in Continuation

\* What the decoder does not refuse is well-formed.
LEMMA FormedIs ==
  ASSUME NEW s \in Seq(Byte), Len(s) >= 1
  PROVE  /\ Malformed(s) => \A k : ~Formed(s, k)
         /\ ~Malformed(s) => Formed(s, Size(s[1]))
<1>1. Len(s) \in Nat /\ s[1] \in Byte
  OBVIOUS
<1> DEFINE k == Size(s[1])
<1>2. k \in 0 .. 4
  BY <1>1, SizeIs
<1> HIDE DEF k
<1>3. Malformed(s) <=> \/ k = 0
                       \/ Len(s) < k
                       \/ k > 1 /\ s[2] \notin Accept(s[1])
                       \/ k > 2 /\ s[3] \notin Continuation
                       \/ k > 3 /\ s[4] \notin Continuation
  BY DEF Malformed, k
<1> QED
  BY <1>1, <1>2, <1>3 DEF Formed, k

\* The value of a well-formed beginning, without the masks.
Two(a, b) == 64 * (a - 192) + (b - 128)
Three(a, b, c) == 4096 * (a - 224) + 64 * (b - 128) + (c - 128)
Four(a, b, c, d) == 262144 * (a - 240) + 4096 * (b - 128) + 64 * (c - 128) + (d - 128)

\* The value of a well-formed beginning, by its length.
LEMMA ValueIs ==
  ASSUME NEW s \in Seq(Byte), NEW k \in 1 .. 4, Formed(s, k)
  PROVE  /\ k = 1 => Value(s) = s[1] /\ s[1] \in 0 .. 127
         /\ k = 2 => /\ s[1] \in 194 .. 223 /\ s[2] \in 128 .. 191
                     /\ Value(s) = Two(s[1], s[2])
         /\ k = 3 => /\ s[1] \in 224 .. 239 /\ s[2] \in Accept(s[1]) /\ s[2] \in 128 .. 191 /\ s[3] \in 128 .. 191
                     /\ Value(s) = Three(s[1], s[2], s[3])
         /\ k = 4 => /\ s[1] \in 240 .. 244 /\ s[2] \in Accept(s[1]) /\ s[2] \in 128 .. 191 /\ s[3] \in 128 .. 191
                     /\ s[4] \in 128 .. 191
                     /\ Value(s) = Four(s[1], s[2], s[3], s[4])
<1> DEFINE a == s[1]
           b == s[2]
           c == s[3]
           d == s[4]
<1>1. a \in Byte /\ Size(a) = k
  BY DEF Formed
<1>4. Value(s) = IF k = 1 THEN a
                 ELSE IF k = 2 THEN 64 * (a % 32) + (b % 64)
                 ELSE IF k = 3 THEN 4096 * (a % 16) + 64 * (b % 64) + (c % 64)
                 ELSE 262144 * (a % 8) + 4096 * (b % 64) + 64 * (c % 64) + (d % 64)
  BY <1>1 DEF Value
<1>0. /\ k > 1 => b \in Accept(a)
      /\ k > 2 => c \in 128 .. 191
      /\ k > 3 => d \in 128 .. 191
  BY DEF Formed, Continuation
<1> HIDE DEF a, b, c, d
<1>2. /\ k > 1 => b \in Accept(a) /\ b \in 128 .. 191
      /\ k > 2 => c \in 128 .. 191
      /\ k > 3 => d \in 128 .. 191
  <2>1. Accept(a) \subseteq 128 .. 191
    BY <1>1, AcceptIs DEF Continuation
  <2> QED
    BY <1>0, <2>1
<1>3. /\ k = 1 <=> a \in 0 .. 127
      /\ k = 2 <=> a \in 194 .. 223
      /\ k = 3 <=> a \in 224 .. 239
      /\ k = 4 <=> a \in 240 .. 244
  <2>1. /\ Size(a) = 1 <=> a \in 0 .. 127
        /\ Size(a) = 2 <=> a \in 194 .. 223
        /\ Size(a) = 3 <=> a \in 224 .. 239
        /\ Size(a) = 4 <=> a \in 240 .. 244
    <3>1. a \in Byte
      BY <1>1
    <3> QED
      BY <3>1, SizeIs
  <2>2. Size(a) = k
    BY <1>1
  <2> QED
    BY <2>1, <2>2
<1>5. CASE k = 1
  BY <1>3, <1>4, <1>5 DEF a
<1>6. CASE k = 2
  <2>1. a \in 194 .. 223 /\ b \in 128 .. 191
    BY <1>2, <1>3, <1>6
  <2>2. a % 32 = a - 192 /\ b % 64 = b - 128
    BY <2>1, Masked
  <2>3. Value(s) = Two(a, b)
    BY <1>4, <1>6, <2>2, SMT DEF Two
  <2> QED
    BY <1>6, <2>1, <2>3 DEF a, b
<1>7. CASE k = 3
  <2>1. a \in 224 .. 239 /\ b \in 128 .. 191 /\ c \in 128 .. 191 /\ b \in Accept(a)
    BY <1>2, <1>3, <1>7
  <2>2. a % 16 = a - 224 /\ b % 64 = b - 128 /\ c % 64 = c - 128
    BY <2>1, Masked
  <2>3. Value(s) = Three(a, b, c)
    BY <1>4, <1>7, <2>2, SMT DEF Three
  <2> QED
    BY <1>7, <2>1, <2>3 DEF a, b, c
<1>8. CASE k = 4
  <2>1. a \in 240 .. 244 /\ b \in 128 .. 191 /\ c \in 128 .. 191 /\ d \in 128 .. 191 /\ b \in Accept(a)
    BY <1>2, <1>3, <1>8
  <2>2. a % 8 = a - 240 /\ b % 64 = b - 128 /\ c % 64 = c - 128 /\ d % 64 = d - 128
    BY <2>1, Masked
  <2>3. Value(s) = Four(a, b, c, d)
    BY <1>4, <1>8, <2>2, SMT DEF Four
  <2> QED
    BY <1>8, <2>1, <2>3 DEF a, b, c, d
<1> QED
  BY <1>5, <1>6, <1>7, <1>8

LEMMA ValueOne ==
  ASSUME NEW s \in Seq(Byte), Formed(s, 1)
  PROVE  Value(s) = s[1] /\ s[1] \in 0 .. 127
BY ValueIs

LEMMA ValueTwo ==
  ASSUME NEW s \in Seq(Byte), Formed(s, 2)
  PROVE  /\ s[1] \in 194 .. 223 /\ s[2] \in 128 .. 191
         /\ Value(s) = Two(s[1], s[2])
BY ValueIs

LEMMA ValueThree ==
  ASSUME NEW s \in Seq(Byte), Formed(s, 3)
  PROVE  /\ s[1] \in 224 .. 239 /\ s[2] \in Accept(s[1]) /\ s[2] \in 128 .. 191 /\ s[3] \in 128 .. 191
         /\ Value(s) = Three(s[1], s[2], s[3])
BY ValueIs

LEMMA ValueFour ==
  ASSUME NEW s \in Seq(Byte), Formed(s, 4)
  PROVE  /\ s[1] \in 240 .. 244 /\ s[2] \in Accept(s[1]) /\ s[2] \in 128 .. 191 /\ s[3] \in 128 .. 191
         /\ s[4] \in 128 .. 191 /\ Value(s) = Four(s[1], s[2], s[3], s[4])
BY ValueIs

\* The decoder reads the well-formed beginning, and otherwise steps over a byte.
LEMMA DecodeIs ==
  ASSUME NEW s \in Seq(Byte), Len(s) >= 1
  PROVE  /\ Malformed(s) => DecodeRune(s) = <<RuneError, 1>>
         /\ ~Malformed(s) => DecodeRune(s) = <<Value(s), Size(s[1])>>
<1>1. ~(Len(s) < 1)
  OBVIOUS
<1> QED
  BY <1>1, Zenon DEF DecodeRune

\* What well-formed bytes hold is a code point, whatever their number.
LEMMA ScalarOne == \A a \in 0 .. 127 : a \in Nat /\ IsScalar(a)
BY SMT DEF IsScalar, IsSurrogate, MaxRune

LEMMA ScalarTwo ==
  ASSUME NEW a \in 194 .. 223, NEW b \in 128 .. 191
  PROVE  Two(a, b) \in Nat /\ IsScalar(Two(a, b))
BY SMT DEF IsScalar, IsSurrogate, MaxRune, Two

LEMMA ScalarThree ==
  ASSUME NEW a \in 224 .. 239, NEW b \in 128 .. 191, NEW c \in 128 .. 191, b \in Accept(a)
  PROVE  Three(a, b, c) \in Nat /\ IsScalar(Three(a, b, c))
<1>1. a = 237 => b \in 128 .. 159
  BY AcceptIs, SMT DEF Byte
<1> QED
  BY <1>1, SMT DEF IsScalar, IsSurrogate, MaxRune, Three

LEMMA ScalarFour ==
  ASSUME NEW a \in 240 .. 244, NEW b \in 128 .. 191, NEW c \in 128 .. 191, NEW d \in 128 .. 191,
         b \in Accept(a)
  PROVE  Four(a, b, c, d) \in Nat /\ IsScalar(Four(a, b, c, d))
<1>1. (a = 240 => b \in 144 .. 191) /\ (a = 244 => b \in 128 .. 143)
  BY AcceptIs, SMT DEF Byte
<1> QED
  BY <1>1, SMT DEF IsScalar, IsSurrogate, MaxRune, Four

\* The decoder returns a code point and steps forward within the string.
LEMMA DecodeTyped ==
  ASSUME NEW s \in Seq(Byte), Len(s) >= 1
  PROVE  /\ DecodeRune(s)[1] \in Nat /\ IsScalar(DecodeRune(s)[1])
         /\ DecodeRune(s)[2] \in 1 .. 4 /\ DecodeRune(s)[2] <= Len(s)
<1>0. Len(s) \in Nat /\ 1 <= Len(s)
  BY SMT
<1>1. CASE Malformed(s)
  <2>1. DecodeRune(s) = <<65533, 1>>
    BY <1>1, DecodeIs, SMT DEF RuneError
  <2> QED
    BY <1>0, <2>1, SMT DEF IsScalar, IsSurrogate, MaxRune
<1>2. CASE ~Malformed(s)
  <2> DEFINE k == Size(s[1])
             v == Value(s)
  <2>1. Formed(s, k)
    BY <1>2, FormedIs
  <2>2. k \in 1 .. 4 /\ k <= Len(s)
    BY <2>1 DEF Formed
  <2>3. DecodeRune(s) = <<v, k>>
    BY <1>2, DecodeIs
  <2> HIDE DEF k
  <2>5. v \in Nat /\ IsScalar(v)
    <3>1. CASE k = 1
      <4>1. v = s[1] /\ s[1] \in 0 .. 127
        <5>1. Formed(s, 1)
          BY <2>1, <3>1
        <5> QED
          BY <5>1, ValueOne
      <4> QED
        BY <4>1, ScalarOne, ZenonT(60)
    <3>2. CASE k = 2
      <4>1. s[1] \in 194 .. 223 /\ s[2] \in 128 .. 191 /\ v = Two(s[1], s[2])
        <5>1. Formed(s, 2)
          BY <2>1, <3>2
        <5> QED
          BY <5>1, ValueTwo
      <4> QED
        BY <4>1, ScalarTwo, ZenonT(60)
    <3>3. CASE k = 3
      <4>1. /\ s[1] \in 224 .. 239 /\ s[2] \in Accept(s[1]) /\ s[2] \in 128 .. 191 /\ s[3] \in 128 .. 191
            /\ v = Three(s[1], s[2], s[3])
        <5>1. Formed(s, 3)
          BY <2>1, <3>3
        <5> QED
          BY <5>1, ValueThree
      <4> QED
        BY <4>1, ScalarThree, ZenonT(60)
    <3>4. CASE k = 4
      <4>1. /\ s[1] \in 240 .. 244 /\ s[2] \in Accept(s[1]) /\ s[2] \in 128 .. 191 /\ s[3] \in 128 .. 191
            /\ s[4] \in 128 .. 191 /\ v = Four(s[1], s[2], s[3], s[4])
        <5>1. Formed(s, 4)
          BY <2>1, <3>4
        <5> QED
          BY <5>1, ValueFour
      <4> QED
        BY <4>1, ScalarFour, ZenonT(60)
    <3> QED
      BY <2>2, <3>1, <3>2, <3>3, <3>4
  <2> HIDE DEF v
  <2> QED
    BY <2>2, <2>3, <2>5
<1> QED
  BY <1>1, <1>2

\* Whatever the bytes are, the decoder steps forward and stays in the string,
\* and what it returns is a code point: the loop of the conversion to runes
\* ends, and never leaves the string.
THEOREM DecoderAdvances ==
    ASSUME NEW s \in Seq(Byte), s /= <<>>
    PROVE  /\ DecodeRune(s)[2] \in 1 .. Len(s)
           /\ IsScalar(DecodeRune(s)[1])
<1>1. Len(s) \in Nat /\ Len(s) >= 1
  OBVIOUS
<1> QED
  BY <1>1, DecodeTyped

\* A byte that cannot go on with a sequence does not change the rune before it.
LEMMA DecodeFront ==
  ASSUME NEW s \in Seq(Byte), Len(s) >= 1, NEW w \in Seq(Byte), Len(w) >= 1, w[1] \notin Continuation
  PROVE  DecodeRune(s \o w) = DecodeRune(s)
<1> DEFINE u == s \o w
           k == Size(s[1])
<1>1. Len(s) \in Nat /\ Len(w) \in Nat /\ s[1] \in Byte
  OBVIOUS
<1>2. /\ u \in Seq(Byte) /\ Len(u) = Len(s) + Len(w)
      /\ \A i \in 1 .. Len(s) : u[i] = s[i]
      /\ u[Len(s) + 1] = w[1]
  <2>1. /\ u \in Seq(Byte) /\ Len(u) = Len(s) + Len(w)
        /\ \A i \in 1 .. Len(s) : u[i] = s[i]
        /\ \A i \in Len(s) + 1 .. Len(s) + Len(w) : u[i] = w[i - Len(s)]
    BY Concatenated
  <2>2. Len(s) + 1 \in Len(s) + 1 .. Len(s) + Len(w) /\ (Len(s) + 1) - Len(s) = 1
    BY <1>1
  <2> QED
    BY <2>1, <2>2
<1> HIDE DEF u
<1>3. u[1] = s[1] /\ Len(u) >= 1
  BY <1>1, <1>2
<1>4. k \in 0 .. 4 /\ Accept(s[1]) \subseteq Continuation
  BY <1>1, SizeIs, AcceptIs
<1>5. ASSUME Formed(s, k)
      PROVE  Formed(u, k) /\ Value(u) = Value(s)
  <2>1. k \in 1 .. 4 /\ k <= Len(s)
    BY <1>5 DEF Formed
  <2>2. u[1] = s[1] /\ (k > 1 => u[2] = s[2]) /\ (k > 2 => u[3] = s[3]) /\ (k > 3 => u[4] = s[4])
    BY <1>1, <1>2, <2>1
  <2> QED
    BY <1>1, <1>2, <1>5, <2>1, <2>2 DEF Formed, Value
<1>6. ASSUME Formed(u, k)
      PROVE  Formed(s, k)
  <2>1. k \in 1 .. 4 /\ k <= Len(u)
    BY <1>6 DEF Formed
  <2>2. CASE k <= Len(s)
    <3>1. (k > 1 => u[2] = s[2]) /\ (k > 2 => u[3] = s[3]) /\ (k > 3 => u[4] = s[4])
      BY <1>1, <1>2, <2>1, <2>2
    <3> QED
      BY <1>3, <1>6, <2>1, <2>2, <3>1 DEF Formed
  <2>3. CASE ~(k <= Len(s))
    <3>1. Len(s) + 1 \in {2, 3, 4} /\ Len(s) + 1 <= k
      BY <1>1, <2>1, <2>3
    <3>2. u[Len(s) + 1] \in Continuation
      <4>1. (k > 1 => u[2] \in Continuation) /\ (k > 2 => u[3] \in Continuation) /\ (k > 3 => u[4] \in Continuation)
        BY <1>3, <1>4, <1>6 DEF Formed
      <4>2. CASE Len(s) + 1 = 2
        BY <2>1, <3>1, <4>1, <4>2
      <4>3. CASE Len(s) + 1 = 3
        BY <2>1, <3>1, <4>1, <4>3
      <4>4. CASE Len(s) + 1 = 4
        BY <2>1, <3>1, <4>1, <4>4
      <4> QED
        BY <3>1, <4>2, <4>3, <4>4
    <3> QED
      BY <1>2, <3>2
  <2> QED
    BY <2>2, <2>3
<1>7. (Malformed(s) => ~Formed(s, k)) /\ (~Malformed(s) => Formed(s, k))
  BY FormedIs
<1>8. (Malformed(u) => ~Formed(u, k)) /\ (~Malformed(u) => Formed(u, k))
  <2>1. (Malformed(u) => \A j : ~Formed(u, j)) /\ (~Malformed(u) => Formed(u, Size(u[1])))
    BY <1>2, <1>3, FormedIs
  <2> QED
    BY <1>3, <2>1
<1>9. DecodeRune(s) = IF Malformed(s) THEN <<RuneError, 1>> ELSE <<Value(s), k>>
  BY DecodeIs
<1>10. DecodeRune(u) = IF Malformed(u) THEN <<RuneError, 1>> ELSE <<Value(u), Size(u[1])>>
  BY <1>2, <1>3, DecodeIs
<1> QED
  BY <1>3, <1>5, <1>6, <1>7, <1>8, <1>9, <1>10 DEF u

-----------------------------------------------------------------------------
(* What the standard reads *)

\* The laying out of a sequence of each length.
Laid(s, k) ==
  /\ k <= Len(s)
  /\ k = 1 => s[1] \in 0 .. 127
  /\ k = 2 => s[1] \in 192 .. 223 /\ s[2] \in 128 .. 191
  /\ k = 3 => s[1] \in 224 .. 239 /\ s[2] \in 128 .. 191 /\ s[3] \in 128 .. 191
  /\ k = 4 => s[1] \in 240 .. 247 /\ s[2] \in 128 .. 191 /\ s[3] \in 128 .. 191 /\ s[4] \in 128 .. 191

\* What they hold.
LaidValue(s, k) ==
  IF k = 1 THEN s[1]
  ELSE IF k = 2 THEN Two(s[1], s[2])
  ELSE IF k = 3 THEN Three(s[1], s[2], s[3])
  ELSE Four(s[1], s[2], s[3], s[4])

\* The recursion over the bytes of a sequence.
BitsOf(s, lead, k) ==
  CHOOSE f : f = [i \in 1 .. k |-> IF i = 1 THEN s[1] - lead ELSE 64 * f[i - 1] + (s[i] - 128)]

\* The recursion, step by step.
LEMMA BitsAre ==
  ASSUME NEW k \in 1 .. 4, NEW lead, NEW s
  PROVE  LET bits == BitsOf(s, lead, k)
         IN  /\ bits[1] = s[1] - lead
             /\ k > 1 => bits[2] = 64 * bits[1] + (s[2] - 128)
             /\ k > 2 => bits[3] = 64 * bits[2] + (s[3] - 128)
             /\ k > 3 => bits[4] = 64 * bits[3] + (s[4] - 128)
<1> DEFINE Eq(f) == [i \in 1 .. k |-> IF i = 1 THEN s[1] - lead ELSE 64 * f[i - 1] + (s[i] - 128)]
           bits == CHOOSE f : f = Eq(f)
           one == s[1] - lead
           two == 64 * one + (s[2] - 128)
           three == 64 * two + (s[3] - 128)
           four == 64 * three + (s[4] - 128)
           g == [i \in 1 .. k |-> IF i = 1 THEN one ELSE IF i = 2 THEN two ELSE IF i = 3 THEN three ELSE four]
<1>1. two = 64 * one + (s[2] - 128) /\ three = 64 * two + (s[3] - 128) /\ four = 64 * three + (s[4] - 128)
  OBVIOUS
<1>2. one = s[1] - lead
  OBVIOUS
<1> HIDE DEF one, two, three, four
<1>3. g = Eq(g)
  <2>1. \A i \in 1 .. k : g[i] = IF i = 1 THEN s[1] - lead ELSE 64 * g[i - 1] + (s[i] - 128)
    <3> SUFFICES ASSUME NEW i \in 1 .. k
                 PROVE  g[i] = IF i = 1 THEN s[1] - lead ELSE 64 * g[i - 1] + (s[i] - 128)
      OBVIOUS
    <3>1. CASE i = 1
      BY <1>2, <3>1
    <3>2. CASE i = 2
      <4>1. g[1] = one /\ g[2] = two
        BY <3>2
      <4> QED
        BY <1>1, <3>2, <4>1
    <3>3. CASE i = 3
      <4>1. g[2] = two /\ g[3] = three
        BY <3>3
      <4> QED
        BY <1>1, <3>3, <4>1
    <3>4. CASE i = 4
      <4>1. g[3] = three /\ g[4] = four
        BY <3>4
      <4> QED
        BY <1>1, <3>4, <4>1
    <3> QED
      BY <3>1, <3>2, <3>3, <3>4
  <2>2. g = [i \in 1 .. k |-> g[i]]
    OBVIOUS
  <2> HIDE DEF g
  <2> QED
    BY <2>1, <2>2
<1>4. bits = Eq(bits)
  <2> HIDE DEF Eq, g
  <2> QED
    BY <1>3
<1> HIDE DEF bits, g
<1>5. \A i \in 1 .. k : bits[i] = IF i = 1 THEN s[1] - lead ELSE 64 * bits[i - 1] + (s[i] - 128)
  BY <1>4
<1>6. bits[1] = s[1] - lead
  BY <1>5
<1>7. k > 1 => bits[2] = 64 * bits[1] + (s[2] - 128)
  BY <1>5
<1>8. k > 2 => bits[3] = 64 * bits[2] + (s[3] - 128)
  BY <1>5
<1>9. k > 3 => bits[4] = 64 * bits[3] + (s[4] - 128)
  BY <1>5
<1> QED
  BY <1>6, <1>7, <1>8, <1>9 DEF bits, BitsOf

LEMMA MinusNone == \A a \in 0 .. 255 : a - 0 = a
OBVIOUS

\* The value of three bytes, step by step.
LEMMA ThreeIs ==
  \A a \in 0 .. 255, b, c \in 128 .. 191 :
    64 * (64 * (a - 224) + (b - 128)) + (c - 128) = Three(a, b, c)
BY SMT DEF Three

\* The reading that the standard lays out, without the recursion.
LEMMA ReadingIs ==
  ASSUME NEW s \in Seq(Byte), Len(s) >= 1, NEW k \in 1 .. 4
  PROVE  Reading(s, k) = IF Laid(s, k) THEN LaidValue(s, k) ELSE None
<1> DEFINE lead == <<0, 192, 224, 240>>[k]
           room == <<128, 32, 16, 8>>[k]
           bits == BitsOf(s, lead, k)
           fits == /\ k <= Len(s)
                   /\ s[1] \in lead .. lead + room - 1
                   /\ \A i \in 2 .. k : s[i] \in 128 .. 191
<1>1. Reading(s, k) = IF fits THEN bits[k] ELSE None
  BY DEF Reading, BitsOf
<1>2. /\ k = 1 => lead = 0 /\ lead + room - 1 = 127
      /\ k = 2 => lead = 192 /\ lead + room - 1 = 223
      /\ k = 3 => lead = 224 /\ lead + room - 1 = 239
      /\ k = 4 => lead = 240 /\ lead + room - 1 = 247
  OBVIOUS
<1> DEFINE last == lead + room - 1
<1>3. fits <=> /\ k <= Len(s) /\ s[1] \in lead .. last
               /\ \A i \in 2 .. k : s[i] \in 128 .. 191
  OBVIOUS
<1> HIDE DEF lead, room, fits, last
<1>4. /\ bits[1] = s[1] - lead
      /\ k > 1 => bits[2] = 64 * bits[1] + (s[2] - 128)
      /\ k > 2 => bits[3] = 64 * bits[2] + (s[3] - 128)
      /\ k > 3 => bits[4] = 64 * bits[3] + (s[4] - 128)
  BY BitsAre
<1> HIDE DEF bits
<1>5. /\ k = 1 => lead = 0 /\ last = 127
      /\ k = 2 => lead = 192 /\ last = 223
      /\ k = 3 => lead = 224 /\ last = 239
      /\ k = 4 => lead = 240 /\ last = 247
  BY <1>2 DEF last
<1>0. s[1] \in 0 .. 255
  <2>1. s[1] \in Byte
    OBVIOUS
  <2> QED
    BY <2>1, Zenon DEF Byte
<1>6. fits <=> Laid(s, k)
  <2>1. CASE k = 1
    <3>1. \A i \in 2 .. k : FALSE
      BY <2>1
    <3>2. lead = 0 /\ last = 127
      BY <1>5, <2>1
    <3>3. Laid(s, k) <=> k <= Len(s) /\ s[1] \in 0 .. 127
      BY <2>1 DEF Laid
    <3> QED
      BY <1>3, <3>1, <3>2, <3>3, ZenonT(60)
  <2>2. CASE k = 2
    <3>1. (\A i \in 2 .. k : s[i] \in 128 .. 191) <=> s[2] \in 128 .. 191
      BY <2>2
    <3>2. lead = 192 /\ last = 223
      BY <1>5, <2>2
    <3>3. Laid(s, k) <=> k <= Len(s) /\ s[1] \in 192 .. 223 /\ s[2] \in 128 .. 191
      BY <2>2 DEF Laid
    <3> QED
      BY <1>3, <3>1, <3>2, <3>3
  <2>3. CASE k = 3
    <3>1. (\A i \in 2 .. k : s[i] \in 128 .. 191) <=> s[2] \in 128 .. 191 /\ s[3] \in 128 .. 191
      BY <2>3
    <3>2. lead = 224 /\ last = 239
      BY <1>5, <2>3
    <3>3. Laid(s, k) <=> k <= Len(s) /\ s[1] \in 224 .. 239 /\ s[2] \in 128 .. 191 /\ s[3] \in 128 .. 191
      BY <2>3 DEF Laid
    <3> QED
      BY <1>3, <3>1, <3>2, <3>3
  <2>4. CASE k = 4
    <3>1. (\A i \in 2 .. k : s[i] \in 128 .. 191)
            <=> s[2] \in 128 .. 191 /\ s[3] \in 128 .. 191 /\ s[4] \in 128 .. 191
      BY <2>4
    <3>2. lead = 240 /\ last = 247
      BY <1>5, <2>4
    <3>3. Laid(s, k) <=> /\ k <= Len(s) /\ s[1] \in 240 .. 247
                         /\ s[2] \in 128 .. 191 /\ s[3] \in 128 .. 191 /\ s[4] \in 128 .. 191
      BY <2>4 DEF Laid
    <3> QED
      BY <1>3, <3>1, <3>2, <3>3
  <2> QED
    BY <2>1, <2>2, <2>3, <2>4
<1>7. ASSUME Laid(s, k)
      PROVE  bits[k] = LaidValue(s, k)
  <2>1. CASE k = 1
    <3>1. bits[1] = s[1] - 0
      BY <1>4, <1>5, <2>1
    <3> QED
      <4>1. s[1] - 0 = s[1]
        BY <1>0, MinusNone
      <4> QED
        BY <2>1, <3>1, <4>1 DEF LaidValue
  <2>2. CASE k = 2
    <3>1. bits[1] = s[1] - 192 /\ bits[2] = 64 * bits[1] + (s[2] - 128)
      BY <1>4, <1>5, <2>2, SMT
    <3> QED
      BY <2>2, <3>1, SMT DEF LaidValue, Two
  <2>3. CASE k = 3
    <3>1. bits[1] = s[1] - 224
      BY <1>4, <1>5, <2>3
    <3>2. bits[2] = 64 * bits[1] + (s[2] - 128) /\ bits[3] = 64 * bits[2] + (s[3] - 128)
      BY <1>4, <2>3
    <3>3. s[2] \in 128 .. 191 /\ s[3] \in 128 .. 191
      BY <1>7, <2>3, SMTT(30) DEF Laid
    <3>4. 64 * (64 * (s[1] - 224) + (s[2] - 128)) + (s[3] - 128) = Three(s[1], s[2], s[3])
      BY <1>0, <3>3, ThreeIs, ZenonT(60)
    <3> QED
      BY <2>3, <3>1, <3>2, <3>4 DEF LaidValue
  <2>4. CASE k = 4
    <3>1. bits[1] = s[1] - 240
      BY <1>4, <1>5, <2>4
    <3>2. bits[2] = 64 * bits[1] + (s[2] - 128) /\ bits[3] = 64 * bits[2] + (s[3] - 128)
          /\ bits[4] = 64 * bits[3] + (s[4] - 128)
      BY <1>4, <2>4
    <3>3. s[2] \in 128 .. 191 /\ s[3] \in 128 .. 191 /\ s[4] \in 128 .. 191
      BY <1>7, <2>4 DEF Laid
    <3>4. 64 * (64 * (64 * (s[1] - 240) + (s[2] - 128)) + (s[3] - 128)) + (s[4] - 128) = Four(s[1], s[2], s[3], s[4])
      <4> DEFINE a == s[1]
                 b == s[2]
                 c == s[3]
                 d == s[4]
      <4>1. a \in 0 .. 255 /\ b \in 128 .. 191 /\ c \in 128 .. 191 /\ d \in 128 .. 191
        BY <1>0, <3>3
      <4> HIDE DEF a, b, c, d
      <4>2. 64 * (64 * (64 * (a - 240) + (b - 128)) + (c - 128)) + (d - 128) = Four(a, b, c, d)
        BY <4>1, SMT DEF Four
      <4> QED
        BY <4>2 DEF a, b, c, d
    <3> QED
      BY <2>4, <3>1, <3>2, <3>4 DEF LaidValue
  <2> QED
    BY <2>1, <2>2, <2>3, <2>4
<1> QED
  BY <1>1, <1>6, <1>7

\* The elements of a sequence of four.
LEMMA OfFour ==
  \A a, b, c, d : LET t == <<a, b, c, d>> IN t[1] = a /\ t[2] = b /\ t[3] = c /\ t[4] = d
OBVIOUS

LEMMA InRange == \A a, b, v \in Int : v \in a .. b <=> a <= v /\ v <= b
OBVIOUS

\* The four ranges of code points, by the bytes that they take.
LEMMA LengthIs ==
  ASSUME NEW r \in Int
  PROVE  /\ OfLength(r, 1) <=> IsScalar(r) /\ 0 <= r /\ r <= 127
         /\ OfLength(r, 2) <=> IsScalar(r) /\ 128 <= r /\ r <= 2047
         /\ OfLength(r, 3) <=> IsScalar(r) /\ 2048 <= r /\ r <= 65535
         /\ OfLength(r, 4) <=> IsScalar(r) /\ 65536 <= r /\ r <= MaxRune
<1> DEFINE b == 2048
           c == 65535
           d == 65536
           m == MaxRune
           Range1 == 0 .. 127
           Range2 == 128 .. 2047
           Range3 == b .. c
           Range4 == d .. m
           Ranges == <<Range1, Range2, Range3, Range4>>
<1>1. \A k : OfLength(r, k) <=> IsScalar(r) /\ r \in Ranges[k]
  BY SMT DEF OfLength
<1>2. m \in Int
  BY SMT DEF MaxRune
<1>3. b \in Int /\ c \in Int /\ d \in Int
  BY SMT
<1> HIDE DEF m, b, c, d
<1>4. (r \in Range3 <=> b <= r /\ r <= c) /\ (r \in Range4 <=> d <= r /\ r <= m)
  BY <1>2, <1>3, InRange
<1>5. (r \in Range1 <=> 0 <= r /\ r <= 127) /\ (r \in Range2 <=> 128 <= r /\ r <= 2047)
  OBVIOUS
<1> HIDE DEF Range1, Range2, Range3, Range4
<1>6. Ranges[1] = Range1 /\ Ranges[2] = Range2 /\ Ranges[3] = Range3 /\ Ranges[4] = Range4
  BY OfFour
<1> HIDE DEF Ranges
<1>7. OfLength(r, 1) <=> IsScalar(r) /\ r \in Range1
  BY <1>1, <1>6
<1>8. OfLength(r, 2) <=> IsScalar(r) /\ r \in Range2
  BY <1>1, <1>6
<1>9. OfLength(r, 3) <=> IsScalar(r) /\ b <= r /\ r <= c
  BY <1>1, <1>4, <1>6
<1>10. OfLength(r, 4) <=> IsScalar(r) /\ d <= r /\ r <= m
  BY <1>1, <1>4, <1>6
<1> QED
  BY <1>5, <1>7, <1>8, <1>9, <1>10, SMT DEF m, b, c, d

\* The shortest forms, by their bytes.
LEMMA ShortestOne ==
  ASSUME NEW a \in 0 .. 127
  PROVE  OfLength(a, 1)
<1>1. a \in Int /\ IsScalar(a) /\ 0 <= a /\ a <= 127
  BY ScalarOne
<1> QED
  BY <1>1, LengthIs

LEMMA ShortestTwo ==
  ASSUME NEW a \in 192 .. 223, NEW b \in 128 .. 191
  PROVE  OfLength(Two(a, b), 2) <=> a \in 194 .. 223
<1> DEFINE v == Two(a, b)
<1>1. v \in Int /\ (128 <= v /\ v <= 2047 <=> a \in 194 .. 223)
  BY SMT DEF Two
<1> HIDE DEF v
<1>2. 128 <= v /\ v <= 2047 => IsScalar(v)
  BY <1>1, SMT DEF IsScalar, IsSurrogate, MaxRune
<1>3. OfLength(v, 2) <=> IsScalar(v) /\ 128 <= v /\ v <= 2047
  BY <1>1, LengthIs
<1>4. OfLength(v, 2) <=> a \in 194 .. 223
  BY <1>1, <1>2, <1>3
<1> QED
  BY <1>4 DEF v

LEMMA ShortestThree ==
  ASSUME NEW a \in 224 .. 239, NEW b \in 128 .. 191, NEW c \in 128 .. 191
  PROVE  OfLength(Three(a, b, c), 3) <=> b \in Accept(a)
<1>1. b \in Accept(a) <=> (a = 224 => b >= 160) /\ (a = 237 => b <= 159)
  BY SMT DEF Accept, Continuation
<1> DEFINE t == 64 * (b - 128) + (c - 128)
           v == Three(a, b, c)
<1>2. t \in Int /\ 0 <= t /\ t <= 4095 /\ (t >= 2048 <=> b >= 160)
  BY SMT
<1>3. v = 4096 * (a - 224) + t
  BY SMT DEF Three
<1> HIDE DEF t, v
<1>4. v \in Int /\ 0 <= v /\ v <= 65535 /\ (v >= 2048 <=> (a = 224 => b >= 160))
  BY <1>2, <1>3, SMT
<1>5. (55296 <= v /\ v <= 57343) <=> ~(a = 237 => b <= 159)
  <2>1. CASE a = 237
    <3>1. v = 53248 + t
      BY <1>3, <2>1, SMT
    <3> QED
      BY <1>2, <2>1, <3>1, SMT
  <2>2. CASE a < 237
    <3>1. v <= 53247
      BY <1>2, <1>3, <2>2, SMT
    <3> QED
      BY <1>4, <2>2, <3>1, SMT
  <2>3. CASE a > 237
    <3>1. v >= 57344
      BY <1>2, <1>3, <2>3, SMT
    <3> QED
      BY <1>4, <2>3, <3>1, SMT
  <2> QED
    BY <2>1, <2>2, <2>3, SMT
<1>6. IsScalar(v) <=> (a = 237 => b <= 159)
  BY <1>4, <1>5, SMT DEF IsScalar, IsSurrogate, MaxRune
<1>7. OfLength(v, 3) <=> IsScalar(v) /\ 2048 <= v /\ v <= 65535
  BY <1>4, LengthIs, SMT
<1>8. OfLength(v, 3) <=> b \in Accept(a)
  BY <1>1, <1>4, <1>6, <1>7, SMT
<1> QED
  BY <1>8 DEF v

LEMMA ShortestFour ==
  ASSUME NEW a \in 240 .. 247, NEW b \in Continuation,
         NEW c \in Continuation, NEW d \in Continuation
  PROVE  OfLength(Four(a, b, c, d), 4) <=> a \in 240 .. 244 /\ b \in Accept(a)
<1> USE DEF Continuation
<1>1. a \in 240 .. 244 => (b \in Accept(a) <=> (a = 240 => b >= 144) /\ (a = 244 => b <= 143))
  BY SMT DEF Accept, Continuation
<1> DEFINE t == 4096 * (b - 128) + 64 * (c - 128) + (d - 128)
           v == Four(a, b, c, d)
<1>2. t \in Int /\ 0 <= t /\ t <= 262143 /\ (t >= 65536 <=> b >= 144)
  <2> DEFINE u == 64 * (c - 128) + (d - 128)
  <2>1. u \in Int /\ 0 <= u /\ u <= 4095
    BY SMT
  <2>2. t = 4096 * (b - 128) + u
    BY SMT
  <2> HIDE DEF u, t
  <2> QED
    BY <2>1, <2>2, SMT
<1>3. v = 262144 * (a - 240) + t
  BY SMT DEF Four
<1> HIDE DEF t, v
<1>4. v \in Nat /\ (v >= 65536 <=> (a = 240 => b >= 144))
  BY <1>2, <1>3, SMT
<1>5. v <= 1114111 <=> a \in 240 .. 244 /\ (a = 244 => b <= 143)
  <2>1. CASE a = 244
    <3>1. v = 1048576 + t
      BY <1>3, <2>1, SMT
    <3> QED
      BY <1>2, <2>1, <3>1, SMT
  <2>2. CASE a < 244
    <3>1. v <= 1048575
      BY <1>2, <1>3, <2>2, SMT
    <3> QED
      BY <1>4, <2>2, <3>1, SMT
  <2>3. CASE a > 244
    <3>1. v >= 1310720
      BY <1>2, <1>3, <2>3, SMT
    <3> QED
      BY <1>4, <2>3, <3>1, SMT
  <2> QED
    BY <2>1, <2>2, <2>3, SMT
<1>6. 65536 <= v /\ v <= 1114111 => IsScalar(v)
  BY <1>4, SMT DEF IsScalar, IsSurrogate, MaxRune
<1>7. OfLength(v, 4) <=> IsScalar(v) /\ 65536 <= v /\ v <= 1114111
  BY <1>4, LengthIs, SMT DEF MaxRune
<1>8. OfLength(v, 4) <=> a \in 240 .. 244 /\ b \in Accept(a)
  BY <1>1, <1>4, <1>5, <1>6, <1>7, SMT
<1> QED
  BY <1>8 DEF v

\* What is not laid out has no length.
LEMMA NoneIsNoLength == \A k \in 1 .. 4 : ~OfLength(None, k)
BY DEF None, OfLength, IsScalar

LEMMA FirstByte ==
  ASSUME NEW s \in Seq(Byte), Len(s) >= 1
  PROVE  s[1] \in Byte /\ s[1] \in 0 .. 255
<1>1. s[1] \in Byte
  OBVIOUS
<1> QED
  BY <1>1, Zenon DEF Byte

\* The table of first bytes and the ranges of second bytes let through exactly the
\* shortest forms of code points.
LEMMA FormedReading ==
  ASSUME NEW s \in Seq(Byte), Len(s) >= 1, NEW k \in 1 .. 4
  PROVE  /\ OfLength(Reading(s, k), k) <=> Formed(s, k)
         /\ Formed(s, k) => Reading(s, k) = Value(s)
<1>1. Reading(s, k) = IF Laid(s, k) THEN LaidValue(s, k) ELSE None
  BY ReadingIs
<1>2. ASSUME Formed(s, k)
      PROVE  Laid(s, k) /\ LaidValue(s, k) = Value(s) /\ OfLength(LaidValue(s, k), k)
  <2>0. k <= Len(s)
    BY <1>2 DEF Formed
  <2>1. CASE k = 1
    <3>1. Value(s) = s[1] /\ s[1] \in 0 .. 127
      BY <1>2, <2>1, ValueOne
    <3>2. LaidValue(s, k) = s[1]
      BY <2>1 DEF LaidValue
    <3>3. Laid(s, k)
      BY <2>0, <2>1, <3>1 DEF Laid
    <3> QED
      BY <2>1, <3>1, <3>2, <3>3, ShortestOne
  <2>2. CASE k = 2
    <3>1. s[1] \in 194 .. 223 /\ s[2] \in 128 .. 191 /\ Value(s) = Two(s[1], s[2])
      BY <1>2, <2>2, ValueTwo
    <3>2. LaidValue(s, k) = Two(s[1], s[2])
      BY <2>2 DEF LaidValue
    <3>3. s[1] \in 192 .. 223
      BY <3>1
    <3>4. Laid(s, k)
      BY <2>0, <2>2, <3>1, <3>3 DEF Laid
    <3> QED
      BY <2>2, <3>1, <3>2, <3>3, <3>4, ShortestTwo, ZenonT(60)
  <2>3. CASE k = 3
    <3>1. /\ s[1] \in 224 .. 239 /\ s[2] \in Accept(s[1]) /\ s[2] \in 128 .. 191 /\ s[3] \in 128 .. 191
          /\ Value(s) = Three(s[1], s[2], s[3])
      BY <1>2, <2>3, ValueThree
    <3>2. LaidValue(s, k) = Three(s[1], s[2], s[3])
      BY <2>3 DEF LaidValue
    <3>3. Laid(s, k)
      BY <2>0, <2>3, <3>1 DEF Laid
    <3> QED
      BY <2>3, <3>1, <3>2, <3>3, ShortestThree, ZenonT(60)
  <2>4. CASE k = 4
    <3>1. /\ s[1] \in 240 .. 244 /\ s[2] \in Accept(s[1]) /\ s[2] \in 128 .. 191 /\ s[3] \in 128 .. 191
          /\ s[4] \in 128 .. 191 /\ Value(s) = Four(s[1], s[2], s[3], s[4])
      BY <1>2, <2>4, ValueFour
    <3>2. LaidValue(s, k) = Four(s[1], s[2], s[3], s[4])
      BY <2>4 DEF LaidValue
    <3>3. s[1] \in 240 .. 247
      BY <3>1
    <3>4. Laid(s, k)
      BY <2>0, <2>4, <3>1, <3>3 DEF Laid
    <3>5. OfLength(Four(s[1], s[2], s[3], s[4]), 4)
      <4>1. s[2] \in Continuation /\ s[3] \in Continuation /\ s[4] \in Continuation
        BY ONLY <3>1 DEF Continuation
      <4>2. s[1] \in 240 .. 244 /\ s[2] \in Accept(s[1])
        BY ONLY <3>1
      <4> QED
        BY ONLY <3>3, <4>1, <4>2, ShortestFour
    <3> QED
      BY <2>4, <3>1, <3>2, <3>4, <3>5
  <2> QED
    BY <2>1, <2>2, <2>3, <2>4
<1>3. ASSUME Laid(s, k), OfLength(LaidValue(s, k), k)
      PROVE  Formed(s, k)
  <2>0. k <= Len(s) /\ s[1] \in Byte /\ s[1] \in 0 .. 255
    BY <1>3, FirstByte DEF Laid
  <2>1. CASE k = 1
    <3>1. s[1] \in 0 .. 127
      BY <1>3, <2>1 DEF Laid
    <3>2. Size(s[1]) = 1
      BY <2>0, <3>1, SizeIs
    <3> QED
      BY <2>0, <2>1, <3>2 DEF Formed
  <2>2. CASE k = 2
    <3>1. s[1] \in 192 .. 223 /\ s[2] \in 128 .. 191
      BY <1>3, <2>2 DEF Laid
    <3>2. OfLength(Two(s[1], s[2]), 2)
      BY <1>3, <2>2 DEF LaidValue
    <3> DEFINE a == s[1]
               b == s[2]
    <3> HIDE DEF a, b
    <3>7. a \in 192 .. 223 /\ b \in 128 .. 191 /\ OfLength(Two(a, b), 2) /\ a \in Byte
      BY <2>0, <3>1, <3>2, SMTT(30) DEF a, b
    <3>8. a \in 194 .. 223
      BY <3>7, ShortestTwo, ZenonT(60)
    <3>9. b \in Accept(a)
      <4>1. a \notin {224, 237, 240, 244}
        BY <3>8
      <4> QED
        BY <3>7, <4>1, AcceptIs
    <3>3. s[1] \in 194 .. 223
      BY <3>8 DEF a
    <3>4. Size(s[1]) = 2
      BY <2>0, <3>3, SizeIs
    <3>6. s[2] \in Accept(s[1])
      BY <3>9 DEF a, b
    <3> QED
      BY <2>0, <2>2, <3>4, <3>6 DEF Formed
  <2>3. CASE k = 3
    <3>1. s[1] \in 224 .. 239 /\ s[2] \in 128 .. 191 /\ s[3] \in 128 .. 191
      BY <1>3, <2>3 DEF Laid
    <3>2. OfLength(Three(s[1], s[2], s[3]), 3)
      BY <1>3, <2>3 DEF LaidValue
    <3>3. s[2] \in Accept(s[1])
      BY <3>1, <3>2, ShortestThree, ZenonT(60)
    <3>4. Size(s[1]) = 3
      BY <2>0, <3>1, SizeIs
    <3> QED
      BY <2>0, <2>3, <3>1, <3>3, <3>4 DEF Formed, Continuation
  <2>4. CASE k = 4
    <3>1. s[1] \in 240 .. 247 /\ s[2] \in 128 .. 191 /\ s[3] \in 128 .. 191 /\ s[4] \in 128 .. 191
      BY <1>3, <2>4 DEF Laid
    <3>2. OfLength(Four(s[1], s[2], s[3], s[4]), 4)
      BY <1>3, <2>4 DEF LaidValue
    <3>3. s[1] \in 240 .. 244 /\ s[2] \in Accept(s[1])
      <4>1. s[2] \in Continuation /\ s[3] \in Continuation /\ s[4] \in Continuation
        BY ONLY <3>1 DEF Continuation
      <4>2. s[1] \in 240 .. 247
        BY ONLY <3>1
      <4> QED
        BY ONLY <3>2, <4>1, <4>2, ShortestFour
    <3>4. Size(s[1]) = 4
      BY <2>0, <3>3, SizeIs
    <3> QED
      BY <2>0, <2>4, <3>1, <3>3, <3>4 DEF Formed, Continuation
  <2> QED
    BY <2>1, <2>2, <2>3, <2>4
<1> QED
  BY <1>1, <1>2, <1>3, NoneIsNoLength

\* The decoder reads what the standard says that is written.
LEMMA DecodeIsShortest ==
  ASSUME NEW s \in Seq(Byte), Len(s) >= 1
  PROVE  DecodeRune(s) = Shortest(s)
<1> DEFINE fits == {k \in 1 .. 4 : OfLength(Reading(s, k), k)}
<1>1. \A k \in 1 .. 4 : /\ k \in fits <=> Formed(s, k)
                        /\ Formed(s, k) => Reading(s, k) = Value(s)
  BY FormedReading
<1>2. Shortest(s) = IF fits = {} THEN <<RuneError, 1>>
                    ELSE <<Reading(s, CHOOSE n \in fits : TRUE), CHOOSE n \in fits : TRUE>>
  BY DEF Shortest
<1> HIDE DEF fits
<1>3. fits \subseteq 1 .. 4
  BY DEF fits
<1>4. CASE Malformed(s)
  <2>1. fits = {}
    BY <1>1, <1>3, <1>4, FormedIs
  <2> QED
    BY <1>2, <1>4, <2>1, DecodeIs
<1>5. CASE ~Malformed(s)
  <2> DEFINE k == Size(s[1])
             n == CHOOSE n \in fits : TRUE
  <2>1. Formed(s, k) /\ k \in 1 .. 4
    BY <1>5, FormedIs DEF Formed
  <2>2. \A j : Formed(s, j) => j = k
    BY DEF Formed
  <2> HIDE DEF k
  <2>3. k \in fits
    BY <1>1, <2>1
  <2>4. n \in fits
    BY <2>3
  <2> HIDE DEF n
  <2>5. n = k
    BY <1>1, <1>3, <2>2, <2>4
  <2>6. Shortest(s) = <<Reading(s, k), k>>
    BY <1>2, <2>3, <2>5 DEF n
  <2>7. Reading(s, k) = Value(s)
    BY <1>1, <2>1
  <2> QED
    BY <1>5, <2>6, <2>7, DecodeIs DEF k
<1> QED
  BY <1>4, <1>5

-----------------------------------------------------------------------------
(* The runes of a string *)

\* The first rune from a position on, and where the next one begins.
FirstFrom(s, i) == DecodeRune(SubSeq(s, i, Len(s)))
Heads(s) == [i \in 1 .. Len(s) |-> FirstFrom(s, i)[1]]
Nexts(s) == [i \in 1 .. Len(s) |-> i + FirstFrom(s, i)[2]]
RunesRead(f, s) == Reads(f, Len(s), Nat, Heads(s), Nexts(s))

\* The decoder at a position of a string.
LEMMA FirstFromIs ==
  ASSUME NEW s \in Seq(Byte), NEW i \in 1 .. Len(s)
  PROVE  /\ FirstFrom(s, i)[1] \in Nat /\ IsScalar(FirstFrom(s, i)[1])
         /\ i + FirstFrom(s, i)[2] \in 1 .. Len(s) + 1 /\ i + FirstFrom(s, i)[2] > i
         /\ FirstFrom(s, i)[2] \in 1 .. 4
         /\ FirstFrom(s, i) = Shortest(SubSeq(s, i, Len(s)))
         /\ FirstFrom(s, i) = DecodeRune(SubStr(s, i - 1, Len(s)))
<1> DEFINE t == SubSeq(s, i, Len(s))
           k == DecodeRune(t)[2]
<1>1. Len(s) \in Nat /\ 1 <= i /\ i <= Len(s) + 1 /\ Len(s) <= Len(s) /\ i \in Nat
  OBVIOUS
<1>2. t \in Seq(Byte) /\ Len(t) = Len(s) - i + 1
  BY <1>1, SubSeqIs
<1>3. FirstFrom(s, i) = DecodeRune(t)
  BY DEF FirstFrom
<1>4. SubStr(s, i - 1, Len(s)) = t
  <2>1. (i - 1) + 1 = i
    OBVIOUS
  <2> QED
    BY <2>1 DEF SubStr
<1> HIDE DEF t
<1>5. Len(t) >= 1
  BY <1>1, <1>2
<1>6. /\ DecodeRune(t)[1] \in Nat /\ IsScalar(DecodeRune(t)[1])
      /\ k \in 1 .. 4 /\ k <= Len(t)
  BY <1>2, <1>5, DecodeTyped
<1>7. DecodeRune(t) = Shortest(t)
  BY <1>2, <1>5, DecodeIsShortest
<1>8. i + k \in 1 .. Len(s) + 1 /\ i + k > i
  <2> HIDE DEF k
  <2> QED
    BY <1>1, <1>2, <1>6
<1> QED
  BY <1>3, <1>4, <1>6, <1>7, <1>8 DEF t

\* The runes of a string are read onwards.
LEMMA HeadsAndNexts ==
  ASSUME NEW s \in Seq(Byte)
  PROVE  /\ Len(s) \in Nat
         /\ Heads(s) \in [1 .. Len(s) -> Nat]
         /\ Onwards(Len(s), Nexts(s))
<1>1. Heads(s) \in [1 .. Len(s) -> Nat]
  BY FirstFromIs DEF Heads
<1>2. Onwards(Len(s), Nexts(s))
  BY FirstFromIs DEF Nexts, Onwards
<1> QED
  BY <1>1, <1>2

\* The conversion to runes is such a reading of the string ...
LEMMA RunesIs ==
  ASSUME NEW s \in Seq(Byte)
  PROVE  \E f : RunesRead(f, s) /\ Runes(s) = f[1]
<1> DEFINE n == Len(s)
           h == Heads(s)
           to == Nexts(s)
           G(f) == Unfolded(f, n, h, to)
           F(f) == [i \in 1 .. n + 1 |->
                      IF i > n THEN <<>>
                      ELSE <<DecodeRune(SubStr(s, i - 1, n))[1]>> \o f[i + DecodeRune(SubStr(s, i - 1, n))[2]]]
           g == CHOOSE f : f = F(f)
<1>1. n \in Nat /\ h \in [1 .. n -> Nat] /\ Onwards(n, to)
  BY HeadsAndNexts
<1>2. ASSUME NEW i \in 1 .. n
      PROVE  /\ h[i] = DecodeRune(SubStr(s, i - 1, n))[1]
             /\ to[i] = i + DecodeRune(SubStr(s, i - 1, n))[2]
  BY FirstFromIs DEF Heads, Nexts
<1>3. Runes(s) = g[1]
  BY DEF Runes
<1> HIDE DEF h, to, n
<1>4. \A f : F(f) = G(f)
  <2> SUFFICES ASSUME NEW f, NEW i \in 1 .. n + 1
               PROVE  F(f)[i] = G(f)[i]
    BY DEF Unfolded
  <2>1. CASE i > n
    BY <2>1 DEF Unfolded
  <2>2. CASE ~(i > n)
    <3>1. i \in 1 .. n
      BY <1>1, <2>2
    <3> QED
      BY <1>2, <2>2, <3>1 DEF Unfolded
  <2> QED
    BY <2>1, <2>2
<1>5. PICK f : Reads(f, n, Nat, h, to)
  BY <1>1, ReadsExists
<1>6. f = G(f)
  <2>1. n \in Nat
    BY <1>1
  <2> QED
    BY <1>5, <2>1, ReadsBy
<1>7. g = F(g)
  <2> HIDE DEF F, G
  <2> QED
    BY <1>4, <1>6
<1> HIDE DEF g
<1>8. g = G(g)
  <2> HIDE DEF F, G
  <2> QED
    BY <1>4, <1>7
<1>9. Reads(g, n, Nat, h, to)
  BY <1>1, <1>8, ReadsIs
<1> QED
  BY <1>3, <1>9 DEF RunesRead, h, to, n

\* ... and so is what the standard makes of it.
LEMMA StandardIs ==
  ASSUME NEW s \in Seq(Byte)
  PROVE  \E f : RunesRead(f, s) /\ Standard(s) = f[1]
<1> DEFINE n == Len(s)
           h == Heads(s)
           to == Nexts(s)
           G(f) == Unfolded(f, n, h, to)
           F(f) == [i \in 1 .. n + 1 |->
                      IF i > n THEN <<>>
                      ELSE <<Shortest(SubSeq(s, i, n))[1]>> \o f[i + Shortest(SubSeq(s, i, n))[2]]]
           g == CHOOSE f : f = F(f)
<1>1. n \in Nat /\ h \in [1 .. n -> Nat] /\ Onwards(n, to)
  BY HeadsAndNexts
<1>2. ASSUME NEW i \in 1 .. n
      PROVE  /\ h[i] = Shortest(SubSeq(s, i, n))[1]
             /\ to[i] = i + Shortest(SubSeq(s, i, n))[2]
  BY FirstFromIs DEF Heads, Nexts
<1>3. Standard(s) = g[1]
  BY DEF Standard
<1> HIDE DEF h, to, n
<1>4. \A f : F(f) = G(f)
  <2> SUFFICES ASSUME NEW f, NEW i \in 1 .. n + 1
               PROVE  F(f)[i] = G(f)[i]
    BY DEF Unfolded
  <2>1. CASE i > n
    BY <2>1 DEF Unfolded
  <2>2. CASE ~(i > n)
    <3>1. i \in 1 .. n
      BY <1>1, <2>2
    <3> QED
      BY <1>2, <2>2, <3>1 DEF Unfolded
  <2> QED
    BY <2>1, <2>2
<1>5. PICK f : Reads(f, n, Nat, h, to)
  BY <1>1, ReadsExists
<1>6. f = G(f)
  <2>1. n \in Nat
    BY <1>1
  <2> QED
    BY <1>5, <2>1, ReadsBy
<1>7. g = F(g)
  <2> HIDE DEF F, G
  <2> QED
    BY <1>4, <1>6
<1> HIDE DEF g
<1>8. g = G(g)
  <2> HIDE DEF F, G
  <2> QED
    BY <1>4, <1>7
<1>9. Reads(g, n, Nat, h, to)
  BY <1>1, <1>8, ReadsIs
<1> QED
  BY <1>3, <1>9 DEF RunesRead, h, to, n

\* The runes are those of the standard.
LEMMA RunesAreStandard ==
  ASSUME NEW s \in Seq(Byte)
  PROVE  Runes(s) = Standard(s) /\ Runes(s) \in Seq(Nat)
<1>1. PICK f : RunesRead(f, s) /\ Runes(s) = f[1]
  BY RunesIs
<1>2. PICK g : RunesRead(g, s) /\ Standard(s) = g[1]
  BY StandardIs
<1>3. Len(s) \in Nat /\ Onwards(Len(s), Nexts(s))
  BY HeadsAndNexts
<1>4. f[1] = g[1]
  BY <1>1, <1>2, <1>3, ReadsSame DEF RunesRead
<1>5. f[1] \in Seq(Nat)
  <2>1. f \in [1 .. Len(s) + 1 -> Seq(Nat)] /\ 1 \in 1 .. Len(s) + 1
    BY <1>1, <1>3 DEF RunesRead, Reads
  <2> QED
    BY <2>1
<1> QED
  BY <1>1, <1>2, <1>4, <1>5

-----------------------------------------------------------------------------
(* Runes that are appended *)

\* What begins in the first of two sequences.
LEMMA SubSeqOver ==
  ASSUME NEW S, NEW s \in Seq(S), NEW t \in Seq(S), NEW m \in 1 .. Len(s) + 1
  PROVE  SubSeq(s \o t, m, Len(s \o t)) = SubSeq(s, m, Len(s)) \o t
<1> DEFINE a == SubSeq(s, 1, m - 1)
           b == SubSeq(s, m, Len(s))
<1>1. Len(s) \in Nat /\ m \in Nat /\ m - 1 \in 0 .. Len(s) /\ (m - 1) + 1 = m
  OBVIOUS
<1>2. a \in Seq(S) /\ Len(a) = (m - 1) - 1 + 1
  <2>1. m - 1 \in Nat /\ 1 <= (m - 1) + 1 /\ m - 1 <= Len(s) /\ 1 \in Nat /\ 1 <= 1
    BY <1>1
  <2> QED
    BY <2>1, SubSeqIs
<1>3. b \in Seq(S)
  <2>1. m <= Len(s) + 1 /\ 1 <= m /\ Len(s) <= Len(s)
    BY <1>1
  <2> QED
    BY <1>1, <2>1, SubSeqIs
<1>4. s = a \o b
  <2>1. s = SubSeq(s, 1, m - 1) \o SubSeq(s, (m - 1) + 1, Len(s))
    <3>1. Len(s) \in m - 1 .. Len(s)
      BY <1>1
    <3> QED
      BY <1>1, <3>1, Divided
  <2> QED
    BY <1>1, <2>1
<1>5. Len(a) = m - 1
  BY <1>1, <1>2
<1> HIDE DEF a, b
<1> DEFINE c == b \o t
<1>6. c \in Seq(S) /\ Len(c) \in Nat
  BY <1>3
<1>7. s \o t = a \o c
  BY <1>2, <1>3, <1>4, Associative
<1> HIDE DEF c
<1>8. Len(s \o t) = Len(a) + Len(c) /\ m = Len(a) + 1
  BY <1>1, <1>2, <1>5, <1>6, <1>7, Concatenated
<1>9. SubSeq(a \o c, Len(a) + 1, Len(a) + Len(c)) = SubSeq(c, 1, Len(c))
  BY <1>2, <1>6, SubSeqBehind
<1>10. SubSeq(c, 1, Len(c)) = c
  BY <1>6
<1> QED
  BY <1>7, <1>8, <1>9, <1>10 DEF b, c

\* Runes do not reach into what cannot go on with them.
LEMMA RunesApart ==
  ASSUME NEW s \in Seq(Byte), NEW w \in Seq(Byte), Len(w) >= 1, w[1] \notin Continuation
  PROVE  Runes(s \o w) = Runes(s) \o Runes(w)
<1> DEFINE u == s \o w
           n == Len(s)
           m == Len(w)
<1>1. n \in Nat /\ m \in Nat /\ u \in Seq(Byte) /\ Len(u) = n + m
  BY Concatenated
<1>2. PICK f : RunesRead(f, s) /\ Runes(s) = f[1]
  BY RunesIs
<1>3. PICK h : RunesRead(h, w) /\ Runes(w) = h[1]
  BY RunesIs
<1>4. PICK g : RunesRead(g, u) /\ Runes(u) = g[1]
  BY <1>1, RunesIs
<1>5. /\ f \in [1 .. n + 1 -> Seq(Nat)] /\ f[n + 1] = <<>>
      /\ \A i \in 1 .. n : f[i] = <<FirstFrom(s, i)[1]>> \o f[i + FirstFrom(s, i)[2]]
  BY <1>2 DEF RunesRead, Reads, Heads, Nexts
<1>6. /\ h \in [1 .. m + 1 -> Seq(Nat)] /\ h[m + 1] = <<>>
      /\ \A i \in 1 .. m : h[i] = <<FirstFrom(w, i)[1]>> \o h[i + FirstFrom(w, i)[2]]
  BY <1>3 DEF RunesRead, Reads, Heads, Nexts
<1>7. /\ g[n + m + 1] = <<>>
      /\ \A i \in 1 .. n + m : g[i] = <<FirstFrom(u, i)[1]>> \o g[i + FirstFrom(u, i)[2]]
  BY <1>1, <1>4 DEF RunesRead, Reads, Heads, Nexts
<1> HIDE DEF u
<1>8. ASSUME NEW i \in 1 .. m
      PROVE  FirstFrom(u, n + i) = FirstFrom(w, i)
  <2>1. SubSeq(u, n + i, n + m) = SubSeq(w, i, m)
    BY <1>1, SubSeqBehind DEF u
  <2> QED
    BY <1>1, <2>1 DEF FirstFrom
<1>9. ASSUME NEW i \in 1 .. n
      PROVE  FirstFrom(u, i) = FirstFrom(s, i)
  <2> DEFINE t == SubSeq(s, i, n)
  <2>1. SubSeq(u, i, Len(u)) = t \o w
    <3>1. i \in 1 .. n + 1
      BY <1>1
    <3> QED
      BY <3>1, SubSeqOver DEF u
  <2>2. t \in Seq(Byte) /\ Len(t) = n - i + 1
    <3>1. i \in Nat /\ 1 <= i /\ i <= n + 1 /\ n <= n
      BY <1>1
    <3> QED
      BY <1>1, <3>1, SubSeqIs
  <2> HIDE DEF t
  <2>3. Len(t) >= 1
    BY <1>1, <2>2
  <2>4. DecodeRune(t \o w) = DecodeRune(t)
    BY <2>2, <2>3, DecodeFront
  <2> QED
    BY <2>1, <2>4 DEF FirstFrom, t
<1> HIDE DEF n, m
<1> DEFINE P == {j \in 1 .. m + 1 : g[n + j] = h[j]}
<1>10. 1 .. m + 1 \subseteq P
  <2>1. m + 1 \in P
    BY <1>1, <1>6, <1>7
  <2>2. ASSUME NEW i \in 1 .. m, \A j \in i + 1 .. m + 1 : j \in P
        PROVE  i \in P
    <3> DEFINE to == i + FirstFrom(w, i)[2]
    <3>1. to \in 1 .. m + 1 /\ to > i
      BY FirstFromIs DEF m
    <3>2. n + i \in 1 .. n + m
      BY <1>1
    <3>3. g[n + i] = <<FirstFrom(w, i)[1]>> \o g[(n + i) + FirstFrom(w, i)[2]]
      BY <1>7, <1>8, <3>2
    <3>4. h[i] = <<FirstFrom(w, i)[1]>> \o h[to]
      BY <1>6
    <3>5. (n + i) + FirstFrom(w, i)[2] = n + to
      <4>1. FirstFrom(w, i)[2] \in Int
        BY FirstFromIs, SMTT(30) DEF m
      <4> QED
        BY <1>1, <4>1
    <3> HIDE DEF to
    <3>6. to \in i + 1 .. m + 1
      BY <1>1, <3>1
    <3>7. g[n + to] = h[to]
      BY <2>2, <3>6
    <3>8. i \in 1 .. m + 1
      BY <1>1
    <3> QED
      BY <3>3, <3>4, <3>5, <3>7, <3>8, Zenon
  <2> HIDE DEF P
  <2> QED
    BY <1>1, <2>1, <2>2, CountingDown
<1>11. g[n + 1] = h[1]
  BY <1>1, <1>10
<1> HIDE DEF P
<1> DEFINE Q == {i \in 1 .. n + 1 : g[i] = f[i] \o h[1]}
<1>12. h[1] \in Seq(Nat)
  BY <1>1, <1>6
<1>13. 1 .. n + 1 \subseteq Q
  <2>1. n + 1 \in Q
    <3>1. <<>> \o h[1] = h[1] /\ n + 1 \in 1 .. n + 1
      BY <1>1, <1>12
    <3> QED
      BY <1>5, <1>11, <3>1
  <2>2. ASSUME NEW i \in 1 .. n, \A j \in i + 1 .. n + 1 : j \in Q
        PROVE  i \in Q
    <3> DEFINE to == i + FirstFrom(s, i)[2]
               e == <<FirstFrom(s, i)[1]>>
    <3>1. to \in 1 .. n + 1 /\ to > i /\ FirstFrom(s, i)[1] \in Nat
      BY FirstFromIs DEF n
    <3>2. i \in 1 .. n + m /\ i \in 1 .. n + 1
      BY <1>1
    <3>3. g[i] = e \o g[to]
      BY <1>7, <1>9, <3>2
    <3>4. f[i] = e \o f[to]
      BY <1>5
    <3>9. e \in Seq(Nat)
      BY <3>1
    <3> HIDE DEF to, e
    <3>5. to \in i + 1 .. n + 1
      BY <1>1, <3>1
    <3>6. g[to] = f[to] \o h[1]
      BY <2>2, <3>5
    <3>7. f[to] \in Seq(Nat)
      BY <1>5, <3>1
    <3>8. e \o (f[to] \o h[1]) = (e \o f[to]) \o h[1]
      <4> DEFINE b == f[to]
                 c == h[1]
      <4>1. b \in Seq(Nat) /\ c \in Seq(Nat)
        BY <1>12, <3>7
      <4> HIDE DEF b, c
      <4>2. e \o (b \o c) = (e \o b) \o c
        <5>1. \A x, y, z \in Seq(Nat) : x \o (y \o z) = (x \o y) \o z
          OBVIOUS
        <5> QED
          BY <3>9, <4>1, <5>1
      <4> QED
        BY <4>2 DEF b, c
    <3> QED
      BY <3>2, <3>3, <3>4, <3>6, <3>8, Zenon
  <2> HIDE DEF Q
  <2> QED
    BY <1>1, <2>1, <2>2, CountingDown
<1>14. g[1] = f[1] \o h[1]
  <2>1. 1 \in 1 .. n + 1
    BY <1>1
  <2>2. 1 \in Q
    BY <1>13, <2>1
  <2> QED
    BY <2>2
<1> QED
  BY <1>2, <1>3, <1>4, <1>14 DEF u

\* A string that is one rune.
LEMMA RunesFirst ==
  ASSUME NEW w \in Seq(Byte), Len(w) >= 1, NEW r, DecodeRune(w) = <<r, Len(w)>>
  PROVE  Runes(w) = <<r>>
<1>1. PICK f : RunesRead(f, w) /\ Runes(w) = f[1]
  BY RunesIs
<1>2. Len(w) \in Nat /\ 1 \in 1 .. Len(w)
  OBVIOUS
<1>3. f[Len(w) + 1] = <<>> /\ f[1] = <<FirstFrom(w, 1)[1]>> \o f[1 + FirstFrom(w, 1)[2]]
  BY <1>1, <1>2 DEF RunesRead, Reads, Heads, Nexts
<1>4. SubSeq(w, 1, Len(w)) = w
  OBVIOUS
<1>5. FirstFrom(w, 1) = <<r, Len(w)>>
  BY <1>4 DEF FirstFrom
<1>6. f[1] = <<r>> \o <<>>
  <2>1. 1 + Len(w) = Len(w) + 1
    BY <1>2
  <2>2. FirstFrom(w, 1)[1] = r /\ FirstFrom(w, 1)[2] = Len(w)
    BY <1>5
  <2> QED
    BY <1>3, <2>1, <2>2, Zenon
<1>7. <<r>> \o <<>> = <<r>>
  OBVIOUS
<1> QED
  BY <1>1, <1>6, <1>7

\* Only replacement characters.
Errors(x) == x \in Seq(Nat) /\ \A i \in 1 .. Len(x) : x[i] = RuneError

\* One replacement character more.
LEMMA ErrorsOne ==
  ASSUME NEW x, Errors(x)
  PROVE  Errors(<<RuneError>> \o x) /\ Len(<<RuneError>> \o x) >= 1
<1> DEFINE e == RuneError
           y == <<e>>
<1>1. e \in Nat
  BY SMT DEF RuneError
<1> HIDE DEF e
<1>2. y \in Seq(Nat) /\ Len(y) = 1 /\ y[1] = e
  BY <1>1
<1> HIDE DEF y
<1>3. x \in Seq(Nat) /\ Len(x) \in Nat /\ \A i \in 1 .. Len(x) : x[i] = e
  BY DEF Errors, e
<1>4. y \o x \in Seq(Nat) /\ Len(y \o x) = 1 + Len(x)
      /\ (y \o x)[1] = e /\ \A i \in 1 .. Len(x) : (y \o x)[1 + i] = e
  <2>0. /\ y \o x \in Seq(Nat) /\ Len(y \o x) = Len(y) + Len(x)
        /\ \A i \in 1 .. Len(y) : (y \o x)[i] = y[i]
        /\ \A i \in Len(y) + 1 .. Len(y) + Len(x) : (y \o x)[i] = x[i - Len(y)]
    <3>1. y \in Seq(Nat) /\ x \in Seq(Nat)
      BY <1>2, <1>3
    <3> QED
      BY ONLY <3>1, Concatenated
  <2>1. y \o x \in Seq(Nat) /\ Len(y \o x) = 1 + Len(x) /\ \A i \in 1 .. 1 : (y \o x)[i] = y[i]
    BY <1>2, <2>0
  <2>2. \A i \in 1 + 1 .. 1 + Len(x) : (y \o x)[i] = x[i - 1]
    BY <1>2, <2>0
  <2>3. ASSUME NEW i \in 1 .. Len(x)
        PROVE  (y \o x)[1 + i] = e
    <3>1. 1 + i \in 1 + 1 .. 1 + Len(x) /\ (1 + i) - 1 = i
      BY <1>3
    <3>2. (y \o x)[1 + i] = x[(1 + i) - 1]
      BY <2>2, <3>1
    <3> QED
      BY <1>3, <3>1, <3>2
  <2> QED
    BY <1>2, <2>1, <2>3
<1>5. \A i \in 1 .. Len(y \o x) : (y \o x)[i] = e
  <2>1. ASSUME NEW i \in 1 .. Len(y \o x), i # 1
        PROVE  (y \o x)[i] = e
    <3>1. i - 1 \in 1 .. Len(x) /\ 1 + (i - 1) = i
      BY <1>3, <1>4, <2>1
    <3> QED
      BY <1>4, <3>1
  <2> QED
    BY <1>4, <2>1
<1> QED
  BY <1>3, <1>4, <1>5 DEF Errors, e, y

\* What an invalid rune of four bytes is read back as.
LEMMA ErrorFour ==
  ASSUME NEW w, w = <<240, 143, 191, 189>>
  PROVE  w \in Seq(Byte) /\ Len(w) = 4 /\ w[1] \notin Continuation
         /\ Errors(Runes(w)) /\ Len(Runes(w)) >= 1
<1>1. w \in Seq(Byte) /\ Len(w) = 4 /\ w[1] = 240 /\ w[2] = 143 /\ w[3] = 191 /\ w[4] = 189
  BY DEF Byte
<1>2. PICK f : RunesRead(f, w) /\ Runes(w) = f[1]
  BY <1>1, RunesIs
<1>3. /\ f[5] = <<>>
      /\ \A i \in 1 .. 4 : f[i] = <<FirstFrom(w, i)[1]>> \o f[i + FirstFrom(w, i)[2]]
  <2>1. /\ f[Len(w) + 1] = <<>>
        /\ \A i \in 1 .. Len(w) : f[i] = <<Heads(w)[i]>> \o f[Nexts(w)[i]]
    BY <1>2 DEF RunesRead, Reads
  <2>2. \A i \in 1 .. Len(w) : Heads(w)[i] = FirstFrom(w, i)[1] /\ Nexts(w)[i] = i + FirstFrom(w, i)[2]
    BY DEF Heads, Nexts
  <2>3. Len(w) = 4 /\ Len(w) + 1 = 5
    BY <1>1
  <2> QED
    <3>1. f[5] = <<>>
      BY <2>1, <2>3, Zenon
    <3>2. ASSUME NEW i \in 1 .. 4
          PROVE  f[i] = <<FirstFrom(w, i)[1]>> \o f[i + FirstFrom(w, i)[2]]
      <4>1. i \in 1 .. Len(w)
        BY <2>3
      <4>2. f[i] = <<Heads(w)[i]>> \o f[Nexts(w)[i]]
        BY <2>1, <4>1, ZenonT(60)
      <4>3. Heads(w)[i] = FirstFrom(w, i)[1] /\ Nexts(w)[i] = i + FirstFrom(w, i)[2]
        BY <2>2, <4>1
      <4> QED
        BY <4>2, <4>3, ZenonT(60)
    <3> QED
      BY <3>1, <3>2
<1>4. ASSUME NEW i \in 1 .. 4
      PROVE  f[i] = <<RuneError>> \o f[i + 1]
  <2> DEFINE t == SubSeq(w, i, 4)
  <2>1. t \in Seq(Byte) /\ Len(t) = 4 - i + 1 /\ t[1] = w[i] /\ (i < 4 => t[2] = w[i + 1])
    <3>1. i \in Nat /\ 4 \in Nat /\ 1 <= i /\ i <= 4 + 1 /\ 4 <= Len(w)
      BY <1>1
    <3>2. t \in Seq(Byte) /\ Len(t) = 4 - i + 1 /\ \A j \in 1 .. 4 - i + 1 : t[j] = w[i + j - 1]
      BY <1>1, <3>1, SubSeqIs
    <3> QED
      BY <3>1, <3>2
  <2> HIDE DEF t
  <2>2. Len(t) >= 1 /\ t[1] \in Byte
    BY <2>1
  <2>3. i = 1 => Malformed(t)
    <3>1. i = 1 => t[1] = 240 /\ t[2] = 143
      BY <1>1, <2>1
    <3>2. Size(240) = 4 /\ 143 \notin Accept(240)
      BY DEF Size, Accept
    <3> QED
      BY <3>1, <3>2 DEF Malformed
  <2>4. i # 1 => Malformed(t)
    <3>1. i # 1 => t[1] \in {143, 191, 189}
      BY <1>1, <2>1
    <3>2. Size(143) = 0 /\ Size(191) = 0 /\ Size(189) = 0
      BY DEF Size
    <3>3. i # 1 => Size(t[1]) = 0
      BY <3>1, <3>2
    <3> QED
      BY <3>3 DEF Malformed
  <2>5. DecodeRune(t) = <<RuneError, 1>>
    <3>1. Malformed(t)
      BY <2>3, <2>4, Zenon
    <3> QED
      BY <2>1, <2>2, <3>1, DecodeIs
  <2>6. FirstFrom(w, i)[1] = RuneError /\ FirstFrom(w, i)[2] = 1
    BY <1>1, <2>5 DEF FirstFrom, t
  <2>7. f[i] = <<FirstFrom(w, i)[1]>> \o f[i + FirstFrom(w, i)[2]]
    BY <1>3, ZenonT(60)
  <2> QED
    BY <2>6, <2>7, Zenon
<1>5. Errors(<<>>)
  BY DEF Errors
<1>6. f[4] = <<RuneError>> \o f[5] /\ f[3] = <<RuneError>> \o f[4]
      /\ f[2] = <<RuneError>> \o f[3] /\ f[1] = <<RuneError>> \o f[2]
  <2>1. f[4] = <<RuneError>> \o f[4 + 1] /\ f[3] = <<RuneError>> \o f[3 + 1]
        /\ f[2] = <<RuneError>> \o f[2 + 1] /\ f[1] = <<RuneError>> \o f[1 + 1]
    BY <1>4, SMTT(30)
  <2>2. 4 + 1 = 5 /\ 3 + 1 = 4 /\ 2 + 1 = 3 /\ 1 + 1 = 2
    OBVIOUS
  <2> QED
    BY <2>1, <2>2
<1>7. Errors(f[4])
  <2>1. Errors(f[5])
    BY <1>3, <1>5
  <2> QED
    BY <1>6, <2>1, ErrorsOne, Zenon
<1>8. Errors(f[3])
  BY <1>6, <1>7, ErrorsOne, Zenon
<1>9. Errors(f[2])
  BY <1>6, <1>8, ErrorsOne, Zenon
<1>10. Errors(f[1]) /\ Len(f[1]) >= 1
  BY <1>6, <1>9, ErrorsOne, Zenon
<1> QED
  BY <1>1, <1>2, <1>10 DEF Continuation

\* The bytes of a rune, whatever it is, begin a sequence.
LEMMA RuneBytes ==
  ASSUME NEW r \in Int
  PROVE  /\ RuneToBytes(r) \in Seq(Byte) /\ Len(RuneToBytes(r)) >= 1
         /\ RuneToBytes(r)[1] \notin Continuation
<1> DEFINE Leading(b) == b \in Byte /\ b \notin Continuation
           valid == IF IsScalar(r) THEN r ELSE RuneError
<1>1. \A a, b, c, d \in Byte : <<a>> \in Seq(Byte) /\ <<a, b>> \in Seq(Byte)
                             /\ <<a, b, c>> \in Seq(Byte) /\ <<a, b, c, d>> \in Seq(Byte)
  OBVIOUS
<1>2. \A n \in Nat : 128 + (n % 64) \in Byte
  BY SMT DEF Byte
<1>3. \A n \in Nat : n \div 64 \in Nat /\ n \div 4096 \in Nat
  BY SMT
<1>4. valid \in Nat /\ valid <= 1114111
  BY SMT DEF IsScalar, RuneError, MaxRune
<1>7. r <= 65535 => valid <= 65535
  BY SMT DEF RuneError
<1> HIDE DEF valid
<1>5. valid <= 65535 => Leading(224 + (valid \div 4096))
  BY <1>4, SMT DEF Byte, Continuation
<1>6. Leading(240 + (valid \div 262144))
  BY <1>4, SMT DEF Byte, Continuation
<1>8. 0 <= r /\ r < 2047 => Leading(192 + (r \div 64))
  BY SMT DEF Byte, Continuation
<1>9. 0 <= r /\ r <= 127 => Leading(r)
  BY SMT DEF Byte, Continuation
<1>10. LET w == Form4(valid) IN w \in Seq(Byte) /\ Len(w) >= 1 /\ w[1] \notin Continuation
  BY <1>1, <1>2, <1>3, <1>4, <1>6, SMT DEF Form4
<1>11. r <= 65535 =>
         LET w == Form3(valid) IN w \in Seq(Byte) /\ Len(w) >= 1 /\ w[1] \notin Continuation
  BY <1>1, <1>2, <1>3, <1>4, <1>5, <1>7, SMT DEF Form3
<1>12. 0 <= r /\ r < 2047 =>
         LET w == Form2(r) IN w \in Seq(Byte) /\ Len(w) >= 1 /\ w[1] \notin Continuation
  BY <1>1, <1>2, <1>3, <1>8, SMT DEF Form2
<1>13. 0 <= r /\ r <= 127 =>
         LET w == <<r>> IN w \in Seq(Byte) /\ Len(w) >= 1 /\ w[1] \notin Continuation
  BY <1>1, <1>9, SMT
<1>14. RuneToBytes(r) = IF r < 0 THEN Form4(valid)
                       ELSE IF r <= 127 THEN <<r>>
                       ELSE IF r < 2047 THEN Form2(r)
                       ELSE IF r <= 65535 THEN Form3(valid)
                       ELSE Form4(valid)
  BY SMT DEF RuneToBytes, Rune1Max, Rune2Max, Rune3Max, valid
<1> QED
  BY <1>10, <1>11, <1>12, <1>13, <1>14, SMT

\* Bytes that the decoder reads as one rune, whatever follows them.
LEMMA RunesOne ==
  ASSUME NEW w \in Seq(Byte), Len(w) >= 1, NEW r, DecodeRune(w \o <<>>) = <<r, Len(w)>>
  PROVE  Runes(w) = <<r>>
<1>1. w \o <<>> = w
  OBVIOUS
<1> QED
  BY <1>1, RunesFirst

\* What takes the place of a rune that is no code point is read back as
\* replacement characters.
LEMMA ErrorForms ==
  /\ Errors(Runes(Form3(RuneError))) /\ Len(Runes(Form3(RuneError))) >= 1
  /\ Errors(Runes(Form4(RuneError))) /\ Len(Runes(Form4(RuneError))) >= 1
<1> DEFINE e == RuneError
           v == Form3(e)
           w == Form4(e)
<1>1. w = <<240, 143, 191, 189>>
  <2>1. 240 + (e \div 262144) = 240
    BY SMT DEF RuneError
  <2>2. 128 + ((e \div 4096) % 64) = 143
    BY SMT DEF RuneError
  <2>3. 128 + ((e \div 64) % 64) = 191 /\ 128 + (e % 64) = 189
    BY SMT DEF RuneError
  <2> HIDE DEF e
  <2> QED
    BY <2>1, <2>2, <2>3, SMT DEF Form4
<1>2. e \in Int /\ e \in Nat /\ IsScalar(e) /\ e # Rune2Max
  BY SMT DEF RuneError, IsScalar, IsSurrogate, MaxRune, Rune2Max
<1>3. RuneToBytes(e) = v
  BY <1>2, SMT DEF RuneError, RuneToBytes, Rune1Max, Rune2Max, Rune3Max
<1> HIDE DEF e
<1>4. <<>> \in Seq(Byte)
  OBVIOUS
<1>5. DecodeRune(v \o <<>>) = <<e, Len(v)>>
  BY ONLY <1>2, <1>3, <1>4, RuneReadBack, Zenon
<1>6. v \in Seq(Byte) /\ Len(v) >= 1
  BY ONLY <1>2, <1>3, RuneBytes, Zenon
<1> HIDE DEF v, w
<1>7. Runes(v) = <<e>>
  BY ONLY <1>5, <1>6, RunesOne, Zenon
<1>8. Errors(Runes(v)) /\ Len(Runes(v)) >= 1
  BY <1>2, <1>7 DEF Errors, e
<1>9. Errors(Runes(w)) /\ Len(Runes(w)) >= 1
  BY <1>1, ErrorFour, Zenon
<1> QED
  BY <1>8, <1>9, Zenon DEF v, w, e

\* What a string gains when the bytes of a rune are put at its end.
LEMMA RuneGained ==
  ASSUME NEW r \in Int
  PROVE  /\ IsScalar(r) /\ r # Rune2Max => Runes(RuneToBytes(r)) = <<r>>
         /\ ~IsScalar(r) => /\ Errors(Runes(RuneToBytes(r)))
                            /\ Len(Runes(RuneToBytes(r))) >= 1
<1>1. ASSUME IsScalar(r), r # Rune2Max
      PROVE  Runes(RuneToBytes(r)) = <<r>>
  <2>1. RuneToBytes(r) \in Seq(Byte) /\ Len(RuneToBytes(r)) >= 1
    BY RuneBytes, Zenon
  <2>2. <<>> \in Seq(Byte)
    OBVIOUS
  <2>3. DecodeRune(RuneToBytes(r) \o <<>>) = <<r, Len(RuneToBytes(r))>>
    BY <1>1, <2>2, RuneReadBack, Zenon
  <2> QED
    BY <2>1, <2>3, RunesOne, Zenon
<1>2. ASSUME ~IsScalar(r)
      PROVE  RuneToBytes(r) = Form3(RuneError) \/ RuneToBytes(r) = Form4(RuneError)
  BY <1>2, SMT DEF RuneToBytes, IsScalar, IsSurrogate, MaxRune, Rune1Max, Rune2Max, Rune3Max
<1> QED
  BY <1>1, <1>2, ErrorForms, Zenon

-----------------------------------------------------------------------------
(* Runes and units *)

\* One element after the other is the sequence again.
LEMMA Singles ==
  ASSUME NEW S, NEW s \in Seq(S)
  PROVE  FlattenSeq([i \in DOMAIN s |-> <<s[i]>>]) = s
<1> DEFINE n == Len(s)
           q == [i \in 1 .. n |-> <<s[i]>>]
           f == [k \in 0 .. n |-> SubSeq(s, 1, k)]
<1>1. n \in Nat /\ DOMAIN s = 1 .. n /\ \A i \in 1 .. n : s[i] \in S
  OBVIOUS
<1>2. q \in Seq(Seq(S)) /\ Len(q) = n /\ \A i \in 1 .. n : q[i] = <<s[i]>>
  <2>1. \A i \in 1 .. n : <<s[i]>> \in Seq(S)
    BY <1>1
  <2> QED
    BY <1>1, <2>1
<1>0. q = [i \in DOMAIN s |-> <<s[i]>>]
  BY <1>1
<1>3. ASSUME NEW k \in 0 .. n
      PROVE  f[k] = SubSeq(s, 1, k) /\ f[k] \in Seq(S)
  <2>1. 1 \in Nat /\ k \in Nat /\ 1 <= 1 /\ 1 <= k + 1 /\ k <= Len(s)
    BY <1>1
  <2>2. SubSeq(s, 1, k) \in Seq(S)
    BY ONLY <2>1, s \in Seq(S), SubSeqIs
  <2> QED
    BY <2>2
<1>4. f \in [0 .. n -> Seq(S)] /\ f[0] = <<>>
  <2>1. SubSeq(s, 1, 0) = <<>>
    OBVIOUS
  <2> QED
    BY <1>1, <1>3, <2>1
<1>5. ASSUME NEW i \in 1 .. n
      PROVE  f[i] = f[i - 1] \o q[i]
  <2>1. i \in 0 .. n /\ i - 1 \in 0 .. n /\ i \in Nat /\ i - 1 \in Nat
    BY <1>1
  <2>2. SubSeq(s, 1, i) = SubSeq(s, 1, i - 1) \o <<s[i]>>
    BY <1>1, <2>1
  <2> QED
    BY <1>2, <1>3, <2>1, <2>2
<1> HIDE DEF f, q, n
<1>6. ASSUME NEW i \in 1 .. n
      PROVE  f[i] = Gathering(q, S)[i][f[i - 1]]
  <2>1. f[i - 1] \in Seq(S)
    BY <1>1, <1>4
  <2>2. Gathering(q, S)[i][f[i - 1]] = f[i - 1] \o q[i]
    BY <1>2, <2>1 DEF Gathering
  <2> QED
    BY <1>5, <2>2
<1>7. Computed(f, Len(q), Seq(S), <<>>, Gathering(q, S))
  BY <1>2, <1>4, <1>6 DEF Computed
<1>8. FlattenSeq(q) = f[n]
  <2>1. FlattenSeq(q) = f[Len(q)]
    BY ONLY <1>2, <1>7, FlattenIs
  <2> QED
    BY <1>2, <2>1
<1>9. f[n] = s
  <2>1. n \in 0 .. n
    BY <1>1
  <2>2. f[n] = SubSeq(s, 1, n)
    BY <1>3, <2>1
  <2>3. SubSeq(s, 1, Len(s)) = s
    OBVIOUS
  <2> QED
    BY <2>2, <2>3 DEF n
<1> QED
  BY <1>0, <1>8, <1>9

\* The code points.
Scalars == {r \in Nat : IsScalar(r)}

\* A string holds nothing but code points.
LEMMA RunesScalar ==
  ASSUME NEW s \in Seq(Byte)
  PROVE  Runes(s) \in Seq(Scalars)
<1> DEFINE n == Len(s)
           h == Heads(s)
           to == Nexts(s)
<1>1. PICK f : RunesRead(f, s) /\ Runes(s) = f[1]
  BY RunesIs
<1>2. n \in Nat /\ Onwards(n, to)
  BY HeadsAndNexts
<1>3. h \in [1 .. n -> Scalars]
  BY FirstFromIs DEF Heads, Scalars
<1>4. f = Unfolded(f, n, h, to)
  BY <1>1, <1>2, ReadsBy DEF RunesRead
<1> HIDE DEF n, h, to
<1>5. Reads(f, n, Scalars, h, to)
  BY <1>2, <1>3, <1>4, ReadsIs
<1>6. f \in [1 .. n + 1 -> Seq(Scalars)] /\ 1 \in 1 .. n + 1
  BY <1>2, <1>5 DEF Reads
<1> QED
  BY <1>1, <1>6

\* A code point of the first plane is its own unit.
LEMMA PlainIs ==
  ASSUME NEW r \in Scalars, r < SurrSelf
  PROVE  r \in Plain
<1> DEFINE a == Surr1
           b == Surr3
           m == SurrSelf
<1>1. r \in Int /\ 0 <= r /\ (r < a \/ b <= r)
  BY SMT DEF Scalars, IsScalar, IsSurrogate, Surr1, Surr3
<1>2. a \in Int /\ b \in Int /\ m \in Int
  BY SMT DEF Surr1, Surr3, SurrSelf
<1>3. Plain = (0 .. a - 1) \union (b .. m - 1)
  BY Zenon DEF Plain
<1>4. r < m
  OBVIOUS
<1> HIDE DEF a, b, m
<1>5. r \in 0 .. a - 1 \/ r \in b .. m - 1
  BY <1>1, <1>2, <1>4
<1> QED
  BY <1>3, <1>5

\* Runes of the first plane are their own units, and such units their own runes.
LEMMA PlainUnits ==
  ASSUME NEW t \in Seq(Nat), \A i \in 1 .. Len(t) : t[i] \in Plain
  PROVE  Utf16Encode(t) = t /\ Utf16Decode(t) = t
<1>1. DOMAIN t = 1 .. Len(t)
  OBVIOUS
<1>2. \A i \in DOMAIN t : UnitsOf(t[i]) = <<t[i]>>
  BY <1>1, SMT DEF UnitsOf
<1> DEFINE D(i) == IF t[i] \in Plain THEN <<t[i]>>
        ELSE IF PairAt(t, i) THEN <<PairToRune(t[i], t[i + 1])>>
        ELSE IF PairAt(t, i - 1) THEN <<>>
        ELSE <<ReplacementChar>>
<1>3. \A i \in DOMAIN t : D(i) = <<t[i]>>
  BY <1>1, Zenon
<1>4. Utf16Encode(t) = FlattenSeq([i \in DOMAIN t |-> <<t[i]>>])
  BY <1>2, Zenon DEF Utf16Encode
<1>5. Utf16Decode(t) = FlattenSeq([i \in DOMAIN t |-> <<t[i]>>])
  <2>1. Utf16Decode(t) = FlattenSeq([i \in DOMAIN t |-> D(i)])
    BY Zenon DEF Utf16Decode
  <2> HIDE DEF D
  <2> QED
    BY <1>3, <2>1, Zenon
<1> QED
  BY <1>4, <1>5, Singles

\* So is the null.
LEMMA NulPlain == Nul \in Nat /\ Nul = 0 /\ 0 \in Plain
BY SMT DEF Nul, Plain, Surr1

\* Where one element is found.
LEMMA MatchOne ==
  ASSUME NEW S, NEW s \in Seq(S), NEW c \in S, NEW i
  PROVE  i \in Matches(s, <<c>>) <=> i \in Nat /\ i + 1 \in 1 .. Len(s) /\ s[i + 1] = c
<1> DEFINE w == <<c>>
<1>1. w \in Seq(S) /\ Len(w) = 1 /\ w[1] = c
  OBVIOUS
<1>2. \A v \in Seq(S) : Len(v) = 1 /\ v[1] = c => v = w
  OBVIOUS
<1> HIDE DEF w
<1>3. i \in Matches(s, w) <=> i \in 0 .. Len(s) - 1 /\ SubSeq(s, i + 1, i + 1) = w
  BY <1>1, MatchIs
<1>4. ASSUME i \in 0 .. Len(s) - 1
      PROVE  SubSeq(s, i + 1, i + 1) = w <=> s[i + 1] = c
  <2> DEFINE v == SubSeq(s, i + 1, i + 1)
  <2>1. v \in Seq(S) /\ Len(v) = 1 /\ v[1] = s[i + 1]
    BY <1>4
  <2> HIDE DEF v
  <2>2. v = w <=> s[i + 1] = c
    BY <1>1, <1>2, <2>1
  <2> QED
    BY <2>2 DEF v
<1>5. i \in 0 .. Len(s) - 1 <=> i \in Nat /\ i + 1 \in 1 .. Len(s)
  OBVIOUS
<1> QED
  BY <1>3, <1>4, <1>5 DEF w

\* The runes before the first null.
TextOf(s) == SubStr(s, 0, Find(s \o <<Nul>>, <<Nul>>))

\* The units are those of the runes up to the first null, and a null.
LEMMA UnitsAre ==
  ASSUME NEW s \in Seq(Nat)
  PROVE  /\ \E at \in 0 .. Len(s) : TextOf(s) = SubSeq(s, 1, at)
         /\ Utf16FromRunes(s) = Utf16Encode(TextOf(s)) \o <<Nul>>
<1> DEFINE m == Len(s)
           w == <<Nul>>
           e == s \o w
           at == Find(e, w)
           nulls == {i \in DOMAIN s : s[i] = 0}
           last == IF nulls = {} THEN Len(s)
                   ELSE (CHOOSE i \in nulls : \A j \in nulls : i <= j) - 1
<1>1. m \in Nat /\ DOMAIN s = 1 .. m /\ Nul \in Nat /\ Nul = 0 /\ w \in Seq(Nat) /\ Len(w) = 1 /\ w[1] = 0
  BY NulPlain
<1>2. e \in Seq(Nat) /\ Len(e) = m + 1 /\ (\A i \in 1 .. m : e[i] = s[i]) /\ e[m + 1] = 0
  <2>1. /\ e \in Seq(Nat) /\ Len(e) = m + Len(w)
        /\ \A i \in 1 .. m : e[i] = s[i]
        /\ \A i \in m + 1 .. m + Len(w) : e[i] = w[i - m]
    <3>1. s \in Seq(Nat) /\ w \in Seq(Nat)
      BY <1>1
    <3> QED
      BY ONLY <3>1, Concatenated
  <2>2. m + 1 \in m + 1 .. m + Len(w) /\ (m + 1) - m = 1
    BY <1>1
  <2>3. e[m + 1] = w[(m + 1) - m]
    BY <2>1, <2>2
  <2> HIDE DEF e, w
  <2> QED
    BY <1>1, <2>1, <2>2, <2>3
<1> HIDE DEF e
<1>3. \A i : i \in Matches(e, w) <=> i \in Nat /\ i + 1 \in 1 .. m + 1 /\ e[i + 1] = 0
  <2> TAKE i
  <2>1. i \in Matches(e, <<Nul>>) <=> i \in Nat /\ i + 1 \in 1 .. Len(e) /\ e[i + 1] = Nul
    BY <1>1, <1>2, MatchOne
  <2> QED
    BY <1>1, <1>2, <2>1
<1> HIDE DEF w, m
<1>4. m \in Matches(e, w)
  BY <1>1, <1>2, <1>3
<1>5. at \in Matches(e, w) /\ \A i \in Matches(e, w) : at <= i
  <2>1. \/ FindFrom(e, w, 0) = None /\ \A i \in Matches(e, w) : i < 0
        \/ /\ FindFrom(e, w, 0) \in Matches(e, w)
           /\ \A i \in Matches(e, w) : 0 <= i => FindFrom(e, w, 0) <= i
    <3>1. 0 \in Nat
      OBVIOUS
    <3> QED
      BY <1>1, <1>2, <3>1, Found
  <2>2. \A i \in Matches(e, w) : i \in Nat
    BY <1>3
  <2>3. ~(m < 0)
    BY <1>1
  <2> QED
    BY <1>4, <2>1, <2>2, <2>3 DEF Find
<1> HIDE DEF at
<1>6. at \in Nat /\ at <= m /\ (at < m => s[at + 1] = 0 /\ at + 1 \in 1 .. m)
  BY <1>1, <1>2, <1>3, <1>4, <1>5
<1>7. \A i \in 1 .. m : s[i] = 0 => at <= i - 1
  <2> TAKE i \in 1 .. m
  <2> HAVE s[i] = 0
  <2>1. i - 1 \in Nat /\ (i - 1) + 1 = i /\ i \in 1 .. m + 1 /\ e[i] = 0
    BY <1>1, <1>2
  <2>2. i - 1 \in Matches(e, w)
    BY <1>3, <2>1
  <2> QED
    BY <1>5, <2>2
<1>8. last = at
  <2>1. CASE nulls = {}
    <3>1. ~(at < m)
      <4>1. ASSUME at < m
            PROVE  at + 1 \in nulls
        BY <1>1, <1>6, <4>1
      <4> QED
        BY <2>1, <4>1
    <3>2. last = Len(s)
      BY <2>1
    <3> HIDE DEF last
    <3> QED
      <4>1. at = m
        BY <1>1, <1>6, <3>1
      <4>2. m = Len(s)
        BY DEF m
      <4> QED
        BY <3>2, <4>1, <4>2
  <2>2. CASE nulls # {}
    <3> DEFINE Lowest(i) == i \in nulls /\ \A j \in nulls : i <= j
               c == CHOOSE i : Lowest(i)
    <3>1. \A j \in nulls : j \in 1 .. m /\ at + 1 <= j
      BY <1>1, <1>6, <1>7
    <3>2. at < m
      BY <1>1, <1>6, <2>2, <3>1
    <3>3. Lowest(at + 1)
      BY <1>1, <1>6, <3>1, <3>2
    <3>4. Lowest(c)
      <4> HIDE DEF Lowest
      <4> QED
        BY <3>3, Zenon
    <3>5. (CHOOSE i \in nulls : \A j \in nulls : i <= j) = c
      BY Zenon
    <3> HIDE DEF c
    <3>6. c = at + 1
      <4>1. c \in nulls /\ at + 1 \in nulls /\ c <= at + 1
        BY <3>3, <3>4
      <4>2. c \in 1 .. m /\ at + 1 <= c
        BY <3>1, <4>1
      <4> QED
        BY <1>6, <4>1, <4>2
    <3>7. last = c - 1
      BY <2>2, <3>5
    <3> HIDE DEF last
    <3> QED
      BY <1>6, <3>6, <3>7
  <2> QED
    BY <2>1, <2>2
<1>9. Utf16FromRunes(s) = Utf16Encode(SubSeq(s, 1, last)) \o <<0>>
  BY Zenon DEF Utf16FromRunes
<1>10. TextOf(s) = SubSeq(s, 0 + 1, at)
  BY Zenon DEF TextOf, SubStr, at, e, w
<1> HIDE DEF last
<1>11. Utf16FromRunes(s) = Utf16Encode(TextOf(s)) \o <<0>>
  BY <1>8, <1>9, <1>10
<1>12. at \in 0 .. m /\ TextOf(s) = SubSeq(s, 1, at)
  BY <1>1, <1>6, <1>10
<1> QED
  BY <1>1, <1>11, <1>12 DEF m

\* A text of the first plane comes back from its units.
LEMMA UnitsKeep ==
  ASSUME NEW s \in Seq(Scalars), \A i \in DOMAIN TextOf(s) : TextOf(s)[i] < SurrSelf
  PROVE  Utf16Decode(Utf16FromRunes(s)) = TextOf(s) \o <<Nul>>
<1> DEFINE t == TextOf(s)
           u == t \o <<Nul>>
<1>1. s \in Seq(Nat) /\ Len(s) \in Nat
  BY DEF Scalars
<1>2. PICK at \in 0 .. Len(s) : t = SubSeq(s, 1, at)
  BY <1>1, UnitsAre, Zenon
<1>3. t \in Seq(Scalars)
  <2>1. 1 \in Nat /\ at \in Nat /\ 1 <= at + 1 /\ at <= Len(s) /\ 1 <= 1
    BY <1>1
  <2>2. SubSeq(s, 1, at) \in Seq(Scalars)
    BY ONLY <2>1, s \in Seq(Scalars), SubSeqIs
  <2> QED
    BY <1>2, <2>2
<1>4. \A i \in DOMAIN t : t[i] < SurrSelf
  OBVIOUS
<1> HIDE DEF t
<1>5. t \in Seq(Nat) /\ Len(t) \in Nat /\ DOMAIN t = 1 .. Len(t) /\ \A i \in 1 .. Len(t) : t[i] \in Scalars
  BY <1>3 DEF Scalars
<1>6. \A i \in 1 .. Len(t) : t[i] \in Plain
  BY <1>4, <1>5, PlainIs
<1>7. Utf16Encode(t) = t
  BY <1>5, <1>6, PlainUnits, Zenon
<1>8. Utf16FromRunes(s) = u
  BY <1>1, <1>7, UnitsAre, Zenon DEF t
<1>9. u \in Seq(Nat) /\ \A i \in 1 .. Len(u) : u[i] \in Plain
  <2> DEFINE w == <<Nul>>
  <2>1. w \in Seq(Nat) /\ Len(w) = 1 /\ w[1] \in Plain
    BY NulPlain
  <2> HIDE DEF w
  <2>2. /\ t \o w \in Seq(Nat) /\ Len(t \o w) = Len(t) + Len(w)
        /\ \A i \in 1 .. Len(t) : (t \o w)[i] = t[i]
        /\ \A i \in Len(t) + 1 .. Len(t) + Len(w) : (t \o w)[i] = w[i - Len(t)]
    BY ONLY <1>5, <2>1, Concatenated
  <2>3. ASSUME NEW i \in 1 .. Len(t \o w)
        PROVE  (t \o w)[i] \in Plain
    <3>1. CASE i <= Len(t)
      BY <1>5, <1>6, <2>2, <3>1
    <3>2. CASE ~(i <= Len(t))
      <4>1. i - Len(t) = 1 /\ i \in Len(t) + 1 .. Len(t) + Len(w)
        BY <1>5, <2>1, <2>2, <3>2
      <4> QED
        BY <2>1, <2>2, <4>1
    <3> QED
      BY <3>1, <3>2
  <2> QED
    BY <2>2, <2>3 DEF w
<1> HIDE DEF u
<1>10. Utf16Decode(u) = u
  BY <1>9, PlainUnits, Zenon
<1> QED
  BY <1>8, <1>10, Zenon DEF u, t

-----------------------------------------------------------------------------
(* Types of the results *)

\* Sequences one after the other are a sequence.
LEMMA FlattenTyped ==
  ASSUME NEW S, NEW n \in Nat, NEW q, q = [i \in 1 .. n |-> q[i]],
         \A i \in 1 .. n : q[i] \in Seq(S)
  PROVE  FlattenSeq(q) \in Seq(S)
<1>1. q \in Seq(Seq(S))
  OBVIOUS
<1>2. <<>> \in Seq(S)
  OBVIOUS
<1> QED
  BY ONLY <1>1, <1>2, Flattened

\* Units are numbers.
LEMMA UnitsTyped ==
  ASSUME NEW s \in Seq(Nat)
  PROVE  Utf16FromRunes(s) \in Seq(Nat)
<1>1. \A r \in Nat : UnitsOf(r) \in Seq(Nat)
  <2> TAKE r \in Nat
  <2>1. \A a, b \in Nat : <<a>> \in Seq(Nat) /\ <<a, b>> \in Seq(Nat)
    OBVIOUS
  <2>2. ReplacementChar \in Nat
    BY SMT DEF ReplacementChar
  <2>3. \A n \in Int : n % 1024 \in Nat
    BY SMT
  <2>5. /\ (Surr1 + (r - SurrSelf) \div 1024) % 1024 \in Nat
        /\ (Surr2 + (r - SurrSelf)) % 1024 \in Nat
    BY SMT DEF SurrSelf, Surr1, Surr2
  <2>6. RuneToPair(r) \in Seq(Nat)
    BY <2>1, <2>2, <2>5, SMT DEF RuneToPair
  <2> QED
    BY <2>1, <2>2, <2>6, SMT DEF UnitsOf
<1>2. ASSUME NEW t \in Seq(Nat)
      PROVE  Utf16Encode(t) \in Seq(Nat)
  <2> DEFINE q == [i \in 1 .. Len(t) |-> UnitsOf(t[i])]
  <2>1. Len(t) \in Nat /\ DOMAIN t = 1 .. Len(t) /\ \A i \in 1 .. Len(t) : t[i] \in Nat
    OBVIOUS
  <2>2. \A i \in 1 .. Len(t) : q[i] = UnitsOf(t[i])
    OBVIOUS
  <2>3. q = [i \in 1 .. Len(t) |-> q[i]] /\ \A i \in 1 .. Len(t) : q[i] \in Seq(Nat)
    BY <1>1, <2>1
  <2>4. Utf16Encode(t) = FlattenSeq(q)
    BY <2>1, Zenon DEF Utf16Encode
  <2> HIDE DEF q
  <2>5. FlattenSeq(q) \in Seq(Nat)
    BY ONLY <2>1, <2>3, FlattenTyped
  <2> QED
    BY <2>4, <2>5
<1> DEFINE t == TextOf(s)
           w == <<Nul>>
<1>3. w \in Seq(Nat)
  BY NulPlain
<1>4. Utf16FromRunes(s) = Utf16Encode(t) \o w
  BY UnitsAre, Zenon
<1>5. t \in Seq(Nat)
  <2>1. PICK at \in 0 .. Len(s) : t = SubSeq(s, 1, at)
    BY UnitsAre, Zenon
  <2>2. 1 \in Nat /\ at \in Nat /\ 1 <= at + 1 /\ at <= Len(s)
    BY <2>1
  <2>3. SubSeq(s, 1, at) \in Seq(Nat)
    BY ONLY <2>2, s \in Seq(Nat), SubSeqIs
  <2> QED
    BY <2>1, <2>3
<1> HIDE DEF t, w
<1>6. Utf16Encode(t) \in Seq(Nat)
  BY <1>2, <1>5, Zenon
<1>7. Utf16Encode(t) \o w \in Seq(Nat)
  BY <1>3, <1>6
<1> QED
  BY <1>4, <1>7

\* So are the runes that are read from units.
LEMMA DecodedTyped ==
  ASSUME NEW u \in Seq(Nat)
  PROVE  Utf16Decode(u) \in Seq(Int)
<1> DEFINE D(i) == IF u[i] \in Plain THEN <<u[i]>>
        ELSE IF PairAt(u, i) THEN <<PairToRune(u[i], u[i + 1])>>
        ELSE IF PairAt(u, i - 1) THEN <<>>
        ELSE <<ReplacementChar>>
           q == [i \in 1 .. Len(u) |-> D(i)]
<1>1. Len(u) \in Nat /\ DOMAIN u = 1 .. Len(u) /\ \A i \in 1 .. Len(u) : u[i] \in Int
  OBVIOUS
<1>2. \A a, b \in Int : PairToRune(a, b) \in Int
  <2> TAKE a, b \in Int
  <2> DEFINE h == 1024 * (a - Surr1)
             l == (b - Surr2) + SurrSelf
  <2>1. h \in Int /\ l \in Int /\ h + l \in Int /\ h + l - SurrSelf \in Int /\ ReplacementChar \in Int
    BY SMT DEF Surr1, Surr2, SurrSelf, ReplacementChar
  <2> QED
    BY <2>1, SMT DEF PairToRune
<1>3. \A a \in Int : <<a>> \in Seq(Int)
  OBVIOUS
<1>4. <<>> \in Seq(Int) /\ ReplacementChar \in Int
  BY SMT DEF ReplacementChar
<1>5. ASSUME NEW i \in 1 .. Len(u)
      PROVE  D(i) \in Seq(Int)
  <2>1. PairAt(u, i) => i + 1 \in DOMAIN u
    BY Zenon DEF PairAt
  <2>2. <<u[i]>> \in Seq(Int) /\ <<ReplacementChar>> \in Seq(Int)
    BY <1>1, <1>3, <1>4, Zenon
  <2>3. PairAt(u, i) => <<PairToRune(u[i], u[i + 1])>> \in Seq(Int)
    BY <1>1, <1>2, <1>3, <2>1, Zenon
  <2> QED
    BY <1>4, <2>2, <2>3, Zenon
<1>6. Utf16Decode(u) = FlattenSeq(q)
  BY <1>1, Zenon DEF Utf16Decode
<1>7. \A i \in 1 .. Len(u) : q[i] = D(i)
  BY Zenon
<1> HIDE DEF D
<1>8. q = [i \in 1 .. Len(u) |-> q[i]] /\ \A i \in 1 .. Len(u) : q[i] \in Seq(Int)
  BY <1>5, <1>7, Zenon
<1> HIDE DEF q
<1>9. FlattenSeq(q) \in Seq(Int)
  BY ONLY <1>1, <1>8, FlattenTyped
<1> QED
  BY <1>6, <1>9

\* Runes, whatever they are, make a string of bytes.
LEMMA FromRunesTyped ==
  ASSUME NEW s \in Seq(Int)
  PROVE  FromRunes(s) \in Seq(Byte)
<1> DEFINE q == [i \in 1 .. Len(s) |-> RuneToBytes(s[i])]
<1>1. Len(s) \in Nat /\ DOMAIN s = 1 .. Len(s) /\ \A i \in 1 .. Len(s) : s[i] \in Int
  OBVIOUS
<1>2. \A i \in 1 .. Len(s) : RuneToBytes(s[i]) \in Seq(Byte)
  BY <1>1, RuneBytes, Zenon
<1>3. q = [i \in 1 .. Len(s) |-> q[i]] /\ \A i \in 1 .. Len(s) : q[i] \in Seq(Byte)
  BY <1>2
<1>4. FromRunes(s) = FlattenSeq(q)
  BY <1>1, Zenon DEF FromRunes
<1> HIDE DEF q
<1>5. FlattenSeq(q) \in Seq(Byte)
  BY ONLY <1>1, <1>3, FlattenTyped
<1> QED
  BY <1>4, <1>5

\* What is kept of a string is a piece of it.
LEMMA PieceTyped ==
  ASSUME NEW s \in Seq(Byte), NEW m \in 1 .. Len(s), NEW n \in 1 .. Len(s)
  PROVE  SubSeq(s, m, Len(s)) \in Seq(Byte) /\ SubSeq(s, 1, n) \in Seq(Byte)
<1>1. /\ Len(s) \in Nat /\ m \in Nat /\ n \in Nat /\ 1 \in Nat
      /\ 1 <= m /\ m <= Len(s) + 1 /\ Len(s) <= Len(s)
      /\ 1 <= 1 /\ 1 <= n + 1 /\ n <= Len(s)
  OBVIOUS
<1> QED
  BY ONLY <1>1, s \in Seq(Byte), SubSeqIs

\* What trim leaves is a string of bytes.
LEMMA TrimTyped ==
  ASSUME NEW s \in Seq(Byte), NEW bytes
  PROVE  Trim(s, bytes) \in Seq(Byte)
<1>1. ASSUME NEW t \in Seq(Byte)
      PROVE  LTrim(t, bytes) \in Seq(Byte)
  <2> DEFINE K == Kept(t, bytes)
  <2>1. K \in SUBSET Nat /\ K \subseteq 1 .. Len(t)
    BY DEF Kept
  <2>2. CASE K = {}
    BY <2>2 DEF LTrim
  <2>3. CASE K # {}
    <3> HIDE DEF K
    <3>1. \E x \in K : \A y \in K : x <= y
      BY <2>1, <2>3, Least
    <3>2. Min(K) \in K
      BY <3>1, Zenon DEF Min
    <3>3. LTrim(t, bytes) = SubSeq(t, Min(K), Len(t))
      BY <2>3 DEF LTrim, K
    <3>4. Min(K) \in 1 .. Len(t)
      BY <2>1, <3>2
    <3> QED
      BY <3>3, <3>4, PieceTyped
  <2> QED
    BY <2>2, <2>3
<1>2. ASSUME NEW t \in Seq(Byte)
      PROVE  RTrim(t, bytes) \in Seq(Byte)
  <2> DEFINE K == Kept(t, bytes)
             n == Len(t)
             R == {x \in 0 .. n : n - x \in K}
  <2>1. n \in Nat /\ K \subseteq 1 .. n
    BY DEF Kept
  <2>2. CASE K = {}
    BY <2>2 DEF RTrim
  <2>3. CASE K # {}
    <3>0. RTrim(t, bytes) = SubSeq(t, 1, Max(K))
      BY <2>3 DEF RTrim
    <3> HIDE DEF K
    <3>1. R \in SUBSET Nat /\ R # {}
      <4>1. PICK k : k \in K
        BY <2>3
      <4>2. k \in 1 .. n
        BY <2>1, <4>1
      <4>3. n - k \in 0 .. n /\ n - (n - k) = k
        BY <2>1, <4>2
      <4> QED
        BY <4>1, <4>3
    <3>2. PICK x \in R : \A y \in R : x <= y
      <4> HIDE DEF R
      <4> QED
        BY <3>1, Least
    <3>3. n - x \in K /\ x \in 0 .. n
      BY <3>2
    <3>4. \A k \in K : n - x >= k
      <4> TAKE k \in K
      <4>1. k \in 1 .. n /\ n - k \in 0 .. n /\ n - (n - k) = k
        BY <2>1
      <4>2. n - k \in R
        BY <4>1
      <4>3. x <= n - k
        BY <3>2, <4>2
      <4> QED
        BY <2>1, <3>3, <4>1, <4>3
    <3> HIDE DEF R
    <3>5. Max(K) \in K
      BY <3>3, <3>4, Zenon DEF Max
    <3>6. Max(K) \in 1 .. Len(t)
      BY <2>1, <3>5
    <3> QED
      BY <3>0, <3>6, PieceTyped
  <2> QED
    BY <2>2, <2>3
<1> QED
  BY <1>1, <1>2 DEF Trim

-----------------------------------------------------------------------------
(* The program that works on a string *)

\* The inductive invariant: the result is what the operation that asked is
\* remembers makes of the string.
TextResults ==
    /\ asked.op = "runes" => ret = Runes(str)
    /\ asked.op = "units" => ret = Utf16FromRunes(Runes(str))
    /\ asked.op = "split" =>
           /\ asked.sub \in Seq(Byte) /\ asked.n \in Int /\ ~Endless(asked.sub, asked.n)
           /\ ret = Split(str, asked.sub, asked.n)
    /\ asked.op = "replace" =>
           /\ asked.sub \in Seq(Byte) /\ asked.new \in Seq(Byte) /\ asked.n \in Int
           /\ ~Endless(asked.sub, asked.n)
           /\ ret = Replace(str, asked.sub, asked.new, asked.n)

\* And with the types.
TextInv == TextTypeOK /\ TextResults

\* The runes of a string of bytes.
LEMMA RunesTyped ==
  ASSUME NEW s \in Seq(Byte)
  PROVE  Runes(s) \in Seq(Nat)
BY RunesAreStandard

\* The parts of a string of bytes.
LEMMA SplitTyped ==
  ASSUME NEW s \in Seq(Byte), NEW sub \in Seq(Byte), NEW n \in Int, ~Endless(sub, n)
  PROVE  Split(s, sub, n) \in Seq(Seq(Byte))
<1>1. CASE n = 0
  BY <1>1 DEF Split
<1>2. CASE n # 0
  BY <1>2, SplitIs DEF Strings
<1> QED
  BY <1>1, <1>2

\* At the beginning nothing is asked.
LEMMA TextInitially == TextInit => TextInv
BY DEF TextInit, TextInv, TextTypeOK, TextResults, NoCall

\* A step whose answer, or whose lack of one, says nothing about ret.
LEMMA AskedOther ==
  ASSUME TextTypeOK', asked'.op \notin {"runes", "units", "split", "replace"}
  PROVE  TextInv'
BY DEF TextInv, TextResults

\* Every operation keeps the invariant.
LEMMA TextStep ==
  ASSUME TextInv, TextNext
  PROVE  TextInv'
<1>1. str \in Seq(Byte)
  BY DEF TextInv, TextTypeOK
<1>2. CASE Done
  <2>1. TextTypeOK'
    BY <1>1, <1>2 DEF Done, NoCall, TextTypeOK
  <2> QED
    BY <1>2, <2>1, AskedOther DEF Done, NoCall
<1>3. ASSUME NEW b \in Bytes, AppendByte(b)
      PROVE  TextInv'
  <2>1. b \in Byte
    BY TextAssumption
  <2>2. str' \in Seq(Byte)
    BY <1>1, <1>3, <2>1 DEF AppendByte
  <2>3. asked' = [op |-> "none"]
    BY <1>3 DEF AppendByte, NoCall
  <2>4. TextTypeOK'
    BY <2>2, <2>3 DEF TextTypeOK
  <2> QED
    BY <2>3, <2>4, AskedOther
<1>4. ASSUME NEW r \in RuneInputs, AppendRune(r)
      PROVE  TextInv'
  <2>1. RuneToBytes(r) \in Seq(Byte)
    BY TextAssumption, RuneBytes
  <2>2. str' \in Seq(Byte)
    BY <1>1, <1>4, <2>1 DEF AppendRune
  <2>3. asked' = [op |-> "append", rune |-> r]
    BY <1>4 DEF AppendRune
  <2>4. asked'.op = "append"
    BY <2>3
  <2>5. TextTypeOK'
    BY <2>2, <2>4 DEF TextTypeOK
  <2> QED
    BY <2>4, <2>5, AskedOther
<1>5. CASE ToRunes
  <2>1. asked'.op = "runes" /\ ret' = Runes(str) /\ str' = str
    BY <1>5 DEF ToRunes, Answer
  <2>2. Runes(str) \in Seq(Nat)
    BY <1>1, RunesTyped
  <2> QED
    BY <1>1, <2>1, <2>2 DEF TextInv, TextTypeOK, TextResults
<1>6. CASE ToUnits
  <2>1. asked'.op = "units" /\ ret' = Utf16FromRunes(Runes(str)) /\ str' = str
    BY <1>6 DEF ToUnits, Answer
  <2>2. Utf16FromRunes(Runes(str)) \in Seq(Nat)
    BY <1>1, RunesTyped, UnitsTyped
  <2> QED
    BY <1>1, <2>1, <2>2 DEF TextInv, TextTypeOK, TextResults
<1>7. CASE FromUnits
  <2>1. asked'.op = "text" /\ ret' = FromRunes(Utf16Decode(ret)) /\ str' = str /\ asked.op = "units"
    BY <1>7 DEF FromUnits
  <2>2. ret \in Seq(Nat)
    BY <2>1 DEF TextInv, TextTypeOK
  <2>3. FromRunes(Utf16Decode(ret)) \in Seq(Byte)
    BY <2>2, DecodedTyped, FromRunesTyped
  <2>4. TextTypeOK'
    BY <1>1, <2>1, <2>3 DEF TextTypeOK
  <2> QED
    BY <2>1, <2>4, AskedOther
<1>8. ASSUME NEW start \in 0 .. MaxRaw, NEW end \in 0 .. MaxRaw, DoSlice(start, end)
      PROVE  TextInv'
  <2>1. asked'.op = "slice" /\ ret' = SubStr(str, start, end) /\ str' = str
    BY <1>8 DEF DoSlice, Answer
  <2>2. /\ start + 1 \in Nat /\ end \in Nat /\ 1 <= start + 1
        /\ start + 1 <= end + 1 /\ end <= Len(str)
    BY <1>8, TextAssumption DEF DoSlice, InBounds
  <2>3. SubSeq(str, start + 1, end) \in Seq(Byte)
    BY ONLY <1>1, <2>2, SubSeqIs
  <2>4. TextTypeOK'
    BY <1>1, <2>1, <2>3 DEF TextTypeOK, SubStr
  <2> QED
    BY <2>1, <2>4, AskedOther
<1>9. ASSUME NEW sub \in Subs, DoFind(sub)
      PROVE  TextInv'
  <2>1. asked'.op = "find" /\ str' = str
    BY <1>9 DEF DoFind, Answer
  <2>2. TextTypeOK'
    BY <1>1, <2>1 DEF TextTypeOK
  <2> QED
    BY <2>1, <2>2, AskedOther
<1>10. ASSUME NEW bytes \in Subs, DoTrim(bytes)
       PROVE  TextInv'
  <2>1. asked'.op = "trim" /\ ret' = Trim(str, bytes) /\ str' = str
    BY <1>10 DEF DoTrim, Answer
  <2>2. Trim(str, bytes) \in Seq(Byte)
    BY <1>1, TrimTyped
  <2>3. TextTypeOK'
    BY <1>1, <2>1, <2>2 DEF TextTypeOK
  <2> QED
    BY <2>1, <2>3, AskedOther
<1>11. ASSUME NEW sub \in Subs, NEW n \in Counts, DoSplit(sub, n)
       PROVE  TextInv'
  <2>1. sub \in Seq(Byte) /\ n \in Int /\ ~Endless(sub, n)
    BY <1>11, TextAssumption DEF DoSplit
  <2>2. /\ asked'.op = "split" /\ asked'.sub = sub /\ asked'.n = n
        /\ ret' = Split(str, sub, n) /\ str' = str
    BY <1>11 DEF DoSplit, Answer
  <2>3. Split(str, sub, n) \in Seq(Seq(Byte))
    BY <1>1, <2>1, SplitTyped
  <2>4. TextTypeOK'
    BY <1>1, <2>2, <2>3 DEF TextTypeOK
  <2>5. TextResults'
    BY <2>1, <2>2 DEF TextResults
  <2> QED
    BY <2>4, <2>5 DEF TextInv
<1>12. ASSUME NEW sub \in Subs, NEW new \in Subs, NEW n \in Counts, DoReplace(sub, new, n)
       PROVE  TextInv'
  <2>1. sub \in Seq(Byte) /\ new \in Seq(Byte) /\ n \in Int /\ ~Endless(sub, n)
    BY <1>12, TextAssumption DEF DoReplace
  <2>2. /\ asked'.op = "replace" /\ asked'.sub = sub /\ asked'.new = new /\ asked'.n = n
        /\ ret' = Replace(str, sub, new, n) /\ str' = str
    BY <1>12 DEF DoReplace, Answer
  <2>3. Replace(str, sub, new, n) \in Seq(Byte)
    BY <1>1, <2>1, ReplaceIs DEF Strings
  <2>4. TextTypeOK'
    BY <1>1, <2>2, <2>3 DEF TextTypeOK
  <2>5. TextResults'
    BY <2>1, <2>2 DEF TextResults
  <2> QED
    BY <2>4, <2>5 DEF TextInv
<1> QED
  BY <1>2, <1>3, <1>4, <1>5, <1>6, <1>7, <1>8, <1>9, <1>10, <1>11, <1>12 DEF TextNext

\* The invariant of the program that works on a string.
LEMMA TextInvariant == TextSpec => []TextInv
<1>1. TextInv /\ [TextNext]_textVars => TextInv'
  <2>1. ASSUME TextInv, UNCHANGED textVars
        PROVE  TextInv'
    BY <2>1 DEF TextInv, TextTypeOK, TextResults, textVars
  <2> QED
    BY <2>1, TextStep
<1> QED
  BY <1>1, TextInitially, PTL DEF TextSpec

-----------------------------------------------------------------------------
(* Theorems *)

\* The string is always a sequence of bytes, and every result is of its type.
THEOREM TextTyped == TextSpec => []TextTypeOK
<1>1. TextInv => TextTypeOK
  BY DEF TextInv
<1> QED
  BY <1>1, TextInvariant, PTL

\* The runes of a string, whatever its bytes are, are those that the Unicode
\* standard reads in it: the conversion of a string to a slice of runes (str.hpp)
\* with the decoder of utf8.hpp.
THEOREM RunesAreTheStandards == TextSpec => []RunesByStandard
<1>1. TextInv => RunesByStandard
  BY RunesAreStandard DEF TextInv, TextTypeOK, TextResults, RunesByStandard
<1> QED
  BY <1>1, TextInvariant, PTL

\* A text of the first plane is in the units that the Windows build gives to the
\* system, up to its first null (utf16_from_str).
THEOREM UnitsKeepTheText == TextSpec => []UnitsKeepText
<1>1. ASSUME TextInv, asked.op = "units"
      PROVE  LET runes == Runes(str)
                 text  == SubStr(runes, 0, Find(runes \o <<Nul>>, <<Nul>>))
             IN  (\A i \in DOMAIN text : text[i] < SurrSelf) =>
                     Utf16Decode(ret) = text \o <<Nul>>
  <2>1. str \in Seq(Byte) /\ ret = Utf16FromRunes(Runes(str))
    BY <1>1 DEF TextInv, TextTypeOK, TextResults
  <2>2. Runes(str) \in Seq(Scalars)
    BY <2>1, RunesScalar
  <2>3. (\A i \in DOMAIN TextOf(Runes(str)) : TextOf(Runes(str))[i] < SurrSelf) =>
          Utf16Decode(ret) = TextOf(Runes(str)) \o <<Nul>>
    BY <2>1, <2>2, UnitsKeep, Zenon
  <2> QED
    BY <2>3, Zenon DEF TextOf
<1>2. TextInv => UnitsKeepText
  BY <1>1, Zenon DEF UnitsKeepText
<1> QED
  BY <1>2, TextInvariant, PTL

\* split loses nothing but, without a count, a last separator, makes no more parts
\* than it was told and leaves no separator in the parts before the last (Str::split).
THEOREM SplitLosesNothing == TextSpec => []SplitParts
<1>1. TextInv => SplitParts
  <2> SUFFICES ASSUME TextInv, asked.op = "split", asked.n # 0
               PROVE  /\ \/ Joined(ret, asked.sub) = CString(str)
                         \/ asked.n < 0 /\ Joined(ret, asked.sub) \o asked.sub = CString(str)
                      /\ asked.n > 0 => Len(ret) \in 1 .. asked.n
                      /\ asked.sub # <<>> =>
                             \A i \in DOMAIN ret :
                                 i < Len(ret) \/ asked.n < 0 => Find(ret[i], asked.sub) = None
    BY DEF SplitParts
  <2>1. /\ str \in Strings /\ asked.sub \in Strings /\ asked.n \in Int
        /\ ~Endless(asked.sub, asked.n) /\ ret = Split(str, asked.sub, asked.n)
    BY DEF TextInv, TextTypeOK, TextResults, Strings
  <2> QED
    BY <2>1, SplitIs
<1> QED
  BY <1>1, TextInvariant, PTL

\* replace puts the new text where split cuts (Str::replace and Str::split).
THEOREM ReplacingIsSplitting == TextSpec => []ReplaceIsSplit
<1>1. TextInv => ReplaceIsSplit
  <2> SUFFICES ASSUME TextInv, asked.op = "replace", asked.sub # <<>>, Find(str, <<Nul>>) = None
               PROVE  ret = Joined(Split(str, asked.sub, (IF asked.n < 0 THEN Len(str) ELSE asked.n) + 1),
                                   asked.new)
    BY DEF ReplaceIsSplit
  <2>1. /\ str \in Strings /\ asked.sub \in Strings /\ asked.new \in Strings /\ asked.n \in Int
        /\ ret = Replace(str, asked.sub, asked.new, asked.n)
    BY DEF TextInv, TextTypeOK, TextResults, Strings
  <2> QED
    BY <2>1, ReplaceIs
<1> QED
  BY <1>1, TextInvariant, PTL

\* What runes gain when the bytes of a rune follow.
LEMMA GainedIs ==
  ASSUME str \in Seq(Byte), NEW w \in Seq(Byte), Len(w) >= 1, w[1] \notin Continuation,
         str' = str \o w
  PROVE  Gained = Runes(w)
<1> DEFINE s == Runes(str)
           t == Runes(w)
           u == Runes(str')
<1>1. s \in Seq(Nat) /\ t \in Seq(Nat)
  BY RunesTyped
<1>2. u = s \o t
  BY RunesApart
<1> HIDE DEF s, t, u
<1>3. Len(s) \in Nat /\ Len(t) \in Nat /\ Len(u) = Len(s) + Len(t)
  BY <1>1, <1>2
<1>4. SubSeq(u, 1, Len(s)) = s
  BY <1>1, <1>2, SubSeqFront
<1>5. SubSeq(s, 1, Len(s)) = s /\ SubSeq(t, 1, Len(t)) = t
  BY <1>1
<1>6. IsPrefix(s, u)
  BY <1>3, <1>4, <1>5 DEF IsPrefix
<1>7. SubSeq(u, Len(s) + 1, Len(u)) = t
  <2>1. 1 \in Nat /\ Len(t) \in Nat /\ 1 <= 1 /\ 1 <= Len(t) + 1 /\ Len(t) <= Len(t)
    BY <1>3
  <2>2. SubSeq(s \o t, Len(s) + 1, Len(s) + Len(t)) = SubSeq(t, 1, Len(t))
    BY ONLY <1>1, <2>1, SubSeqBehind
  <2> QED
    BY <1>2, <1>3, <1>5, <2>2
<1> QED
  BY <1>6, <1>7, Zenon DEF Gained, s, t, u

\* Replacement characters and nothing else.
LEMMA ErrorsRange ==
  ASSUME NEW x, Errors(x), Len(x) >= 1
  PROVE  x # <<>> /\ Range(x) = {RuneError}
<1>1. DOMAIN x = 1 .. Len(x) /\ 1 \in 1 .. Len(x)
  BY DEF Errors
<1>2. \A i \in DOMAIN x : x[i] = RuneError
  BY <1>1 DEF Errors
<1>3. Range(x) = {RuneError}
  <2>1. 1 \in DOMAIN x
    BY <1>1
  <2> QED
    BY <1>2, <2>1, Zenon DEF Range
<1> QED
  BY <1>1, <1>3

\* A rune that is appended is read back as it is and changes no rune before it, and
\* one that is no code point adds replacement characters only; all but 2047
\* (utf8_rune_to_bytes and the decoder).
THEOREM AppendedIsReadBack == TextSpec => RuneAppended
<1> DEFINE A == asked'.op = "append" /\ asked'.rune # Rune2Max =>
                  IF IsScalar(asked'.rune) THEN Gained = <<asked'.rune>>
                  ELSE Gained # <<>> /\ Range(Gained) = {RuneError}
<1>1. ASSUME TextInv, TextNext, asked'.op = "append"
      PROVE  \E r \in RuneInputs : AppendRune(r)
  BY <1>1 DEF TextNext, Done, NoCall, AppendByte, ToRunes, ToUnits, FromUnits, DoSlice,
              DoFind, DoTrim, DoSplit, DoReplace, Answer
<1>2. ASSUME TextInv, NEW r \in RuneInputs, AppendRune(r), r # Rune2Max
      PROVE  asked'.rune = r /\ IF IsScalar(r) THEN Gained = <<r>>
                                ELSE Gained # <<>> /\ Range(Gained) = {RuneError}
  <2> DEFINE w == RuneToBytes(r)
  <2>1. r \in Int /\ str \in Seq(Byte)
    BY <1>2, TextAssumption DEF TextInv, TextTypeOK
  <2>2. asked'.rune = r /\ str' = str \o w
    BY <1>2 DEF AppendRune
  <2>3. w \in Seq(Byte) /\ Len(w) >= 1 /\ w[1] \notin Continuation
    BY <2>1, RuneBytes
  <2>4. /\ IsScalar(r) => Runes(w) = <<r>>
        /\ ~IsScalar(r) => Errors(Runes(w)) /\ Len(Runes(w)) >= 1
    BY <1>2, <2>1, RuneGained, Zenon
  <2> HIDE DEF w
  <2>5. Gained = Runes(w)
    BY <2>1, <2>2, <2>3, GainedIs
  <2> QED
    BY <2>2, <2>4, <2>5, ErrorsRange, Zenon
<1>3. TextInv /\ [TextNext]_textVars => [A]_textVars
  <2>1. ASSUME TextInv, TextNext, asked'.op = "append", asked'.rune # Rune2Max
        PROVE  A
    <3>1. PICK r \in RuneInputs : AppendRune(r)
      BY <1>1, <2>1
    <3>2. asked'.rune = r
      BY <3>1 DEF AppendRune
    <3>3. r # Rune2Max
      BY <2>1, <3>2, Zenon
    <3>4. IF IsScalar(r) THEN Gained = <<r>> ELSE Gained # <<>> /\ Range(Gained) = {RuneError}
      BY <1>2, <2>1, <3>1, <3>3, Zenon
    <3> QED
      BY <3>2, <3>4, Zenon
  <2>2. TextInv /\ TextNext => A
    BY <2>1, Zenon
  <2> HIDE DEF A
  <2> QED
    BY <2>2, Zenon
<1> QED
  BY <1>3, TextInvariant, PTL DEF TextSpec, RuneAppended
=============================================================================
