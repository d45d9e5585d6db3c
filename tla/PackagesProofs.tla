---------------------------- MODULE PackagesProofs ----------------------------
(* Theorems about Packages: for every program, whatever its packages use,    *)
(* and for every way in which packages may be broken.                        *)
EXTENDS Packages, FiniteSetTheorems, TLAPS

-----------------------------------------------------------------------------
(* The invariant *)

\* Entry l of file g comes before entry k of file f.
Earlier(g, l, f, k) == g < f \/ (g = f /\ l < k)

\* The entry that was made for use declaration k of file f of package p.
Has(p, f, k) == f \in 1 .. Len(tables[p]) /\ k \in 1 .. Len(tables[p][f])
Path(p, f, k) == tables[p][f][k].path
New(p, f, k, q) == Has(p, f, k) /\ Path(p, f, k) = q /\ ~tables[p][f][k].duplicate

\* at[p] packages were built when p was opened.  The first j were when entry
\* k of file f of p was made, ...
Before(at, p, f, k, j) ==
  \/ j <= at[p]
  \/ \E g, l \in Nat, m \in 1 .. Len(all), q \in Pkgs :
       j <= m /\ all[m] = q /\ New(p, g, l, q) /\ Earlier(g, l, f, k)

\* ... by the last entry of p that there is.
Within(at, p, j) ==
  \/ j <= at[p]
  \/ \E g, l \in Nat, m \in 1 .. Len(all), q \in Pkgs :
       j <= m /\ all[m] = q /\ New(p, g, l, q)

\* Entries say what the use declarations do.
Faithful ==
  \A p \in Pkgs : \A f, k \in Nat :
    Has(p, f, k) => /\ f <= Len(uses[p]) /\ k <= Len(uses[p][f])
                    /\ Path(p, f, k) = uses[p][f][k]

\* All entries of p are there.
Built(p) ==
  /\ Len(tables[p]) = Len(uses[p])
  /\ \A f \in 1 .. Len(uses[p]) : Len(tables[p][f]) = Len(uses[p][f])

\* One entry of each package is not a duplicate.
Single ==
  \A p1, p2, q \in Pkgs : \A f1, k1, f2, k2 \in Nat :
    New(p1, f1, k1, q) /\ New(p2, f2, k2, q) => p1 = p2 /\ f1 = f2 /\ k1 = k2

NewBuilt == \A p, q \in Pkgs : \A f, k \in Nat : New(p, f, k, q) => q \in Members(all)

\* The order in which packages were built, as the entries tell it: a duplicate
\* was built when its entry was made; nothing was built between the entry of a
\* new package and its opening, or between its last entry and its own end.
Duplicates(at) ==
  \A p \in Pkgs : \A f, k \in Nat :
    Has(p, f, k) /\ tables[p][f][k].duplicate =>
      \E j \in 1 .. Len(all) : all[j] = Path(p, f, k) /\ Before(at, p, f, k, j)
Openings(at) ==
  \A p, q \in Pkgs : \A f, k \in Nat : New(p, f, k, q) => Before(at, p, f, k, at[q])
Endings(at) == \A i \in 1 .. Len(all) : Within(at, all[i], i - 1)

Order(at) ==
  /\ Faithful /\ Single /\ NewBuilt
  /\ Duplicates(at) /\ Openings(at) /\ Endings(at)

Static(at) ==
  /\ ParsedOnce
  /\ UsesFirst
  /\ Main \notin Members(all) /\ at[Main] = 0
  /\ \A p \in Pkgs \ Members(parsed) : tables[p] = << >>
  /\ \A p \in Members(all) : p \in Members(parsed) /\ Built(p)
  /\ Order(at)

\* The stack starts with the main package and has each package once.
Stacked ==
  /\ stack # << >> /\ stack[1].pkg = Main
  /\ \A i, j \in 1 .. Len(stack) : stack[i].pkg = stack[j].pkg => i = j

\* Frame f has made the entries of all use declarations before its own.
Reached(f) ==
  /\ f.file <= Len(uses[f.pkg]) + 1
  /\ Len(tables[f.pkg]) = IF f.file <= Len(uses[f.pkg]) THEN f.file ELSE Len(uses[f.pkg])
  /\ \A g \in 1 .. Len(tables[f.pkg]) :
       g < f.file => Len(tables[f.pkg][g]) = Len(uses[f.pkg][g])
  /\ f.file <= Len(uses[f.pkg]) =>
       f.use <= Len(uses[f.pkg][f.file]) + 1 /\ Len(tables[f.pkg][f.file]) = f.use - 1

\* The use declaration of frame f is about package q.
Waits(f, q) ==
  /\ f.file <= Len(uses[f.pkg]) /\ f.use <= Len(uses[f.pkg][f.file])
  /\ uses[f.pkg][f.file][f.use] = q

Building1(at) ==
  /\ Stacked
  /\ checked = << >>
  /\ OnStack \cap Members(all) = {}
  /\ Members(parsed) = Members(all) \cup OnStack
  /\ \A i \in 1 .. Len(stack) : Reached(stack[i])
  /\ \A i \in 1 .. Len(stack) - 1 :
       Waits(stack[i], stack[i + 1].pkg) /\ Within(at, stack[i].pkg, at[stack[i + 1].pkg])
  /\ Within(at, Top.pkg, Len(all))

\* The first j packages that were built, those without files aside, are checked.
Done(j) ==
  \A m \in 1 .. Len(all) : m <= j /\ tables[all[m]] # << >> => all[m] \in Members(checked)

\* Frame x found them checked when its package was opened, and by its entries.
FrameDone(at, x) ==
  /\ Done(at[x.pkg])
  /\ \A g, l \in Nat, m \in 1 .. Len(all), q \in Pkgs :
       all[m] = q /\ New(x.pkg, g, l, q) /\ Earlier(g, l, x.file, x.use) => Done(m)

\* Where q was entered, that frame or package is past it.
Passed(q) ==
  \E p \in Pkgs : \E f, k \in Nat :
    /\ New(p, f, k, q)
    /\ \/ p \in Members(checked)
       \/ \E i \in 1 .. Len(stack) : stack[i].pkg = p /\ Earlier(f, k, stack[i].file, stack[i].use)

Checking1(at) ==
  /\ Stacked
  /\ Built(Main)
  /\ OnStack \subseteq Members(all) \cup {Main}
  /\ OnStack \cap Members(checked) = {}
  /\ \A i \in 1 .. Len(stack) - 1 :
       New(stack[i].pkg, stack[i].file, stack[i].use, stack[i + 1].pkg)
  /\ \A q \in Members(checked) : Passed(q)
  /\ \A i \in 1 .. Len(stack) : FrameDone(at, stack[i])

Inv(at) ==
  /\ TypeOK
  /\ Static(at)
  /\ CheckedOnce
  /\ phase = "build" => Building1(at)
  /\ phase = "check" => Checking1(at)

IInv == \E at \in [Pkgs -> Nat] : Inv(at)

-----------------------------------------------------------------------------
(* Stacks and tables *)

LEMMA MembersType ==
  ASSUME NEW s \in Seq(Pkgs)
  PROVE  Members(s) \subseteq Pkgs
BY DEF Members

\* The frame on top, one use declaration or one file further.
LEMMA Advanced ==
  ASSUME NEW s \in Seq(Frames), s # << >>
  PROVE  /\ AdvanceUse(s) \in Seq(Frames) /\ AdvanceFile(s) \in Seq(Frames)
         /\ Len(AdvanceUse(s)) = Len(s) /\ Len(AdvanceFile(s)) = Len(s)
         /\ \A i \in 1 .. Len(s) - 1 : AdvanceUse(s)[i] = s[i] /\ AdvanceFile(s)[i] = s[i]
         /\ AdvanceUse(s)[Len(s)] = [pkg |-> s[Len(s)].pkg, file |-> s[Len(s)].file,
                                     use |-> s[Len(s)].use + 1]
         /\ AdvanceFile(s)[Len(s)] = [pkg |-> s[Len(s)].pkg, file |-> s[Len(s)].file + 1,
                                      use |-> 1]
<1>1. Len(s) \in 1 .. Len(s) /\ s[Len(s)] \in Frames
  OBVIOUS
<1>2. /\ NextUse(s[Len(s)]) = [pkg |-> s[Len(s)].pkg, file |-> s[Len(s)].file,
                               use |-> s[Len(s)].use + 1]
      /\ NextFile(s[Len(s)]) = [pkg |-> s[Len(s)].pkg, file |-> s[Len(s)].file + 1,
                                use |-> 1]
  <2>1. ASSUME NEW f \in Frames
        PROVE  /\ NextUse(f) = [pkg |-> f.pkg, file |-> f.file, use |-> f.use + 1]
               /\ NextFile(f) = [pkg |-> f.pkg, file |-> f.file + 1, use |-> 1]
    <3>1. NextUse(f) = [pkg |-> f.pkg, file |-> f.file, use |-> f.use + 1]
      BY DEF NextUse, Frames
    <3>2. NextFile(f) = [pkg |-> f.pkg, file |-> f.file + 1, use |-> 1]
      <4>1. f = [pkg |-> f.pkg, file |-> f.file, use |-> f.use]
        BY DEF Frames
      <4>2. NextFile(f) = [[pkg |-> f.pkg, file |-> f.file, use |-> f.use]
                             EXCEPT !.file = f.file + 1, !.use = 1]
        BY <4>1 DEF NextFile
      <4> QED
        BY <4>2
    <3> QED
      BY <3>1, <3>2
  <2> QED
    BY <1>1, <2>1
<1>3. NextUse(s[Len(s)]) \in Frames /\ NextFile(s[Len(s)]) \in Frames
  BY <1>1, <1>2 DEF Frames
<1> QED
  BY <1>1, <1>2, <1>3 DEF AdvanceUse, AdvanceFile

\* The stack without its top.
LEMMA BelowTop ==
  ASSUME NEW s \in Seq(Frames), Len(s) > 1
  PROVE  LET r == SubSeq(s, 1, Len(s) - 1)
         IN  /\ r \in Seq(Frames) /\ r # << >> /\ Len(r) = Len(s) - 1
             /\ \A i \in 1 .. Len(s) - 1 : r[i] = s[i]
<1> DEFINE r == SubSeq(s, 1, Len(s) - 1)
<1>1. Len(s) \in Nat
  OBVIOUS
<1>2. \A i \in 1 .. Len(s) - 1 : s[i] \in Frames
  OBVIOUS
<1>3. r \in Seq(Frames)
  BY <1>1, <1>2
<1>4. Len(r) = Len(s) - 1 /\ \A i \in 1 .. Len(s) - 1 : r[i] = s[i]
  BY <1>1
<1>5. r # << >>
  <2>1. Len(r) > 0
    BY <1>1, <1>4
  <2>2. Len(<< >>) = 0
    OBVIOUS
  <2> HIDE DEF r
  <2> QED
    BY <2>1, <2>2
<1> QED
  BY <1>3, <1>4, <1>5

\* What the type invariant says of tables and programs, one level at a time.
LEMMA Typed ==
  ASSUME TypeOK, NEW p \in Pkgs
  PROVE  /\ tables[p] \in Seq(Seq(Imports)) /\ uses[p] \in Seq(Seq(Pkgs))
         /\ Len(tables[p]) \in Nat /\ Len(uses[p]) \in Nat
         /\ \A f \in 1 .. Len(tables[p]) :
              /\ tables[p][f] \in Seq(Imports) /\ Len(tables[p][f]) \in Nat
              /\ \A k \in 1 .. Len(tables[p][f]) :
                   Path(p, f, k) \in Pkgs /\ tables[p][f][k].duplicate \in BOOLEAN
         /\ \A f \in 1 .. Len(uses[p]) :
              /\ uses[p][f] \in Seq(Pkgs) /\ Len(uses[p][f]) \in Nat
              /\ \A k \in 1 .. Len(uses[p][f]) : uses[p][f][k] \in Pkgs
<1>1. tables[p] \in Seq(Seq(Imports)) /\ uses[p] \in Seq(Seq(Pkgs))
  BY ProgramAssumption DEF TypeOK
<1>2. ASSUME NEW f \in 1 .. Len(tables[p]) PROVE tables[p][f] \in Seq(Imports)
  BY <1>1
<1>3. ASSUME NEW f \in 1 .. Len(uses[p]) PROVE uses[p][f] \in Seq(Pkgs)
  BY <1>1
<1>4. ASSUME NEW f \in 1 .. Len(tables[p]), NEW k \in 1 .. Len(tables[p][f])
      PROVE  tables[p][f][k] \in Imports
  BY <1>2
<1>5. /\ Len(tables[p]) \in Nat /\ Len(uses[p]) \in Nat
      /\ \A f \in 1 .. Len(tables[p]) : Len(tables[p][f]) \in Nat
      /\ \A f \in 1 .. Len(uses[p]) : Len(uses[p][f]) \in Nat
  BY <1>1, <1>2, <1>3, SMTT(30)
<1>6. ASSUME NEW f \in 1 .. Len(uses[p]), NEW k \in 1 .. Len(uses[p][f])
      PROVE  uses[p][f][k] \in Pkgs
  BY <1>3
<1>7. ASSUME NEW f \in 1 .. Len(tables[p]), NEW k \in 1 .. Len(tables[p][f])
      PROVE  Path(p, f, k) \in Pkgs /\ tables[p][f][k].duplicate \in BOOLEAN
  BY <1>4 DEF Imports, Path
<1> QED
  BY <1>1, <1>2, <1>3, <1>5, <1>6, <1>7

\* tables gets entry k of file f of p, and nothing else changes.
Entered(p, f, k, q, d) ==
  /\ \A a \in Pkgs \ {p} : tables'[a] = tables[a]
  /\ Len(tables'[p]) = Len(tables[p]) /\ Len(tables'[p][f]) = k
  /\ \A g \in 1 .. Len(tables[p]) : g # f => tables'[p][g] = tables[p][g]
  /\ \A a \in Pkgs : \A g, l \in Nat :
       /\ Has(a, g, l)' <=> Has(a, g, l) \/ (a = p /\ g = f /\ l = k)
       /\ Has(a, g, l) => tables'[a][g][l] = tables[a][g][l]
  /\ tables'[p][f][k] = [path |-> q, duplicate |-> d]
  /\ ~Has(p, f, k)

LEMMA ImportEnters ==
  ASSUME TypeOK, NEW p \in Pkgs, NEW f \in 1 .. Len(tables[p]), NEW q \in Pkgs,
         NEW d \in BOOLEAN, tables' = Import(p, f, q, d)
  PROVE  /\ tables' \in [Pkgs -> Seq(Seq(Imports))]
         /\ Entered(p, f, Len(tables[p][f]) + 1, q, d)
<1> DEFINE e == [path |-> q, duplicate |-> d]
           k == Len(tables[p][f]) + 1
           t == Append(tables[p][f], e)
<1>1. tables[p] \in Seq(Seq(Imports)) /\ tables[p][f] \in Seq(Imports)
  BY Typed
<1>2. e \in Imports
  BY DEF Imports
<1>3. /\ t \in Seq(Imports) /\ Len(t) = k /\ k \in Nat /\ t[k] = e
      /\ \A l \in 1 .. k - 1 : t[l] = tables[p][f][l]
  BY <1>1, <1>2
<1>4. tables' = [tables EXCEPT ![p] = [tables[p] EXCEPT ![f] = t]]
  BY DEF Import
<1> HIDE DEF e, k, t
<1>5. [tables[p] EXCEPT ![f] = t] \in Seq(Seq(Imports))
  BY <1>1, <1>3
<1>6. tables' \in [Pkgs -> Seq(Seq(Imports))]
  BY <1>4, <1>5 DEF TypeOK
<1>7. /\ tables'[p] = [tables[p] EXCEPT ![f] = t]
      /\ \A a \in Pkgs \ {p} : tables'[a] = tables[a]
  BY <1>4 DEF TypeOK
<1>8. /\ Len(tables'[p]) = Len(tables[p]) /\ tables'[p][f] = t
      /\ \A g \in 1 .. Len(tables[p]) : g # f => tables'[p][g] = tables[p][g]
  BY <1>1, <1>3, <1>7
<1>9. ASSUME NEW a \in Pkgs, NEW g \in Nat, NEW l \in Nat
      PROVE  /\ Has(a, g, l)' <=> Has(a, g, l) \/ (a = p /\ g = f /\ l = k)
             /\ Has(a, g, l) => tables'[a][g][l] = tables[a][g][l]
  <2>1. CASE a # p
    BY <2>1, <1>7 DEF Has
  <2>2. CASE a = p /\ g # f
    BY <2>2, <1>8 DEF Has
  <2>3. CASE a = p /\ g = f
    <3>1. Len(tables[p][f]) = k - 1 /\ Len(tables[p][f]) \in Nat
      BY <1>1 DEF k
    <3> QED
      BY <2>3, <1>3, <1>8, <3>1 DEF Has
  <2> QED
    BY <2>1, <2>2, <2>3
<1>10. ~Has(p, f, k)
  BY <1>1 DEF Has, k
<1>11. Entered(p, f, k, q, d)
  BY <1>3, <1>7, <1>8, <1>9, <1>10 DEF Entered, e
<1> QED
  BY <1>6, <1>11 DEF k

-----------------------------------------------------------------------------
(* The order in which packages were built *)

SameEntries ==
  \A p \in Pkgs : \A f, k \in Nat :
    /\ Has(p, f, k)' <=> Has(p, f, k)
    /\ Has(p, f, k) => tables'[p][f][k] = tables[p][f][k]

\* New entries stay so, and all only gets longer.
Grows ==
  /\ Len(all) \in Nat /\ Len(all') \in Nat /\ Len(all') >= Len(all)
  /\ \A m \in 1 .. Len(all) : all'[m] = all[m]
  /\ \A p, q \in Pkgs : \A f, k \in Nat : New(p, f, k, q) => New(p, f, k, q)'

LEMMA StillBefore ==
  ASSUME TypeOK, Grows, NEW at \in [Pkgs -> Nat], NEW b \in [Pkgs -> Nat],
         NEW p \in Pkgs, b[p] = at[p], NEW j \in Nat
  PROVE  /\ Within(at, p, j) => Within(b, p, j)'
         /\ \A f, k \in Nat : Before(at, p, f, k, j) => Before(b, p, f, k, j)'
<1>1. \A m \in 1 .. Len(all) : m \in 1 .. Len(all') /\ all'[m] = all[m]
  BY DEF Grows
<1>2. ASSUME NEW g \in Nat, NEW l \in Nat, NEW q \in Pkgs, New(p, g, l, q)
      PROVE  New(p, g, l, q)'
  BY <1>2 DEF Grows
<1>3. Within(at, p, j) => Within(b, p, j)'
  BY <1>1, <1>2 DEF Within
<1>4. ASSUME NEW f \in Nat, NEW k \in Nat, Before(at, p, f, k, j)
      PROVE  Before(b, p, f, k, j)'
  BY <1>1, <1>2, <1>4 DEF Before
<1> QED
  BY <1>3, <1>4

\* Steps that make no entry.
LEMMA OrderKept ==
  ASSUME TypeOK, NEW at \in [Pkgs -> Nat], NEW b \in [Pkgs -> Nat], Order(at),
         SameEntries, UNCHANGED <<all, uses>>,
         \A p \in Pkgs : p \in Members(all) \/ tables[p] # << >> => b[p] = at[p]
  PROVE  Order(b)' /\ Grows
<1>1. /\ Len(all) \in Nat
      /\ \A m \in 1 .. Len(all) : all[m] \in Pkgs /\ all[m] \in Members(all)
  BY DEF TypeOK, Members
<1>2. \A p, q \in Pkgs : \A f, k \in Nat : New(p, f, k, q)' <=> New(p, f, k, q)
  BY DEF SameEntries, New, Path
<1>3. Grows
  BY <1>1, <1>2 DEF Grows
<1>4. \A p \in Pkgs : \A f, k \in Nat : Has(p, f, k) => b[p] = at[p] /\ Path(p, f, k) \in Pkgs
  <2>1. SUFFICES ASSUME NEW p \in Pkgs, NEW f \in Nat, NEW k \in Nat, Has(p, f, k)
                 PROVE  b[p] = at[p] /\ Path(p, f, k) \in Pkgs
    OBVIOUS
  <2>2. f \in 1 .. Len(tables[p]) /\ k \in 1 .. Len(tables[p][f])
    BY <2>1 DEF Has
  <2>3. tables[p] # << >>
    BY <2>2
  <2> QED
    BY <2>2, <2>3, Typed
<1>5. Faithful'
  <2>1. SUFFICES ASSUME NEW p \in Pkgs, NEW f \in Nat, NEW k \in Nat, Has(p, f, k)'
                 PROVE  /\ f <= Len(uses[p]) /\ k <= Len(uses[p][f])
                        /\ Path(p, f, k)' = uses[p][f][k]
    BY DEF Faithful
  <2>2. Has(p, f, k) /\ tables'[p][f][k] = tables[p][f][k]
    BY <2>1 DEF SameEntries
  <2> QED
    BY <2>2 DEF Order, Faithful, Path
<1>6. Single'
  <2>1. SUFFICES ASSUME NEW p1 \in Pkgs, NEW p2 \in Pkgs, NEW q \in Pkgs,
                        NEW f1 \in Nat, NEW k1 \in Nat, NEW f2 \in Nat, NEW k2 \in Nat,
                        New(p1, f1, k1, q)', New(p2, f2, k2, q)'
                 PROVE  p1 = p2 /\ f1 = f2 /\ k1 = k2
    BY DEF Single
  <2>2. New(p1, f1, k1, q) /\ New(p2, f2, k2, q)
    BY <1>2, <2>1
  <2> QED
    BY <2>2 DEF Order, Single
<1>7. NewBuilt'
  BY <1>2 DEF Order, NewBuilt, Members
<1>8. Duplicates(b)'
  <2>1. SUFFICES ASSUME NEW p \in Pkgs, NEW f \in Nat, NEW k \in Nat,
                        Has(p, f, k)', tables'[p][f][k].duplicate
                 PROVE  \E j \in 1 .. Len(all') : all'[j] = Path(p, f, k)' /\ Before(b, p, f, k, j)'
    BY DEF Duplicates
  <2>2. Has(p, f, k) /\ tables'[p][f][k] = tables[p][f][k]
    BY <2>1 DEF SameEntries
  <2>3. PICK j \in 1 .. Len(all) : all[j] = Path(p, f, k) /\ Before(at, p, f, k, j)
    BY <2>1, <2>2 DEF Order, Duplicates
  <2>4. j \in Nat /\ b[p] = at[p]
    BY <1>1, <1>4, <2>2
  <2>5. Before(b, p, f, k, j)'
    BY <1>3, <2>3, <2>4, StillBefore
  <2> QED
    BY <2>2, <2>3, <2>5 DEF Path
<1>9. Openings(b)'
  <2>1. SUFFICES ASSUME NEW p \in Pkgs, NEW q \in Pkgs, NEW f \in Nat, NEW k \in Nat,
                        New(p, f, k, q)'
                 PROVE  Before(b, p, f, k, b[q])'
    BY DEF Openings
  <2>2. New(p, f, k, q) /\ Has(p, f, k)
    BY <1>2, <2>1 DEF New
  <2>3. Before(at, p, f, k, at[q]) /\ q \in Members(all)
    BY <2>2 DEF Order, Openings, NewBuilt
  <2>4. b[p] = at[p] /\ b[q] = at[q] /\ at[q] \in Nat
    BY <1>4, <2>2, <2>3
  <2> QED
    BY <1>3, <2>3, <2>4, StillBefore
<1>10. Endings(b)'
  <2>1. SUFFICES ASSUME NEW i \in 1 .. Len(all) PROVE Within(b, all[i], i - 1)'
    BY DEF Endings
  <2>2. Within(at, all[i], i - 1) /\ all[i] \in Pkgs /\ b[all[i]] = at[all[i]] /\ i - 1 \in Nat
    BY <1>1 DEF Order, Endings
  <2>3. ASSUME NEW p \in Pkgs, p = all[i] PROVE Within(b, p, i - 1)'
    BY <1>3, <2>2, <2>3, StillBefore
  <2>4. PICK p \in Pkgs : p = all[i]
    BY <2>2
  <2> QED
    BY <2>3, <2>4 DEF Within
<1> QED
  BY <1>3, <1>5, <1>6, <1>7, <1>8, <1>9, <1>10 DEF Order


\* Steps that make one.
NewEntry(p, f, k, new, d) ==
  \A a, q \in Pkgs : \A g, l \in Nat :
    New(a, g, l, q)' <=> \/ New(a, g, l, q)
                         \/ ~d /\ a = p /\ g = f /\ l = k /\ q = new

LEMMA EntryMade ==
  ASSUME TypeOK, NEW p \in Pkgs, NEW new \in Pkgs, NEW f \in Nat, NEW k \in Nat,
         NEW d \in BOOLEAN, Entered(p, f, k, new, d), UNCHANGED uses,
         Faithful, f <= Len(uses[p]), k <= Len(uses[p][f]), uses[p][f][k] = new
  PROVE  Faithful' /\ NewEntry(p, f, k, new, d)
<1>1. /\ Has(p, f, k)' /\ tables'[p][f][k] = [path |-> new, duplicate |-> d] /\ ~Has(p, f, k)
      /\ Path(p, f, k)' = new /\ tables'[p][f][k].duplicate = d
  BY DEF Entered, Path
<1>2. ASSUME NEW a \in Pkgs, NEW g \in Nat, NEW l \in Nat, Has(a, g, l)'
      PROVE  \/ a = p /\ g = f /\ l = k
             \/ /\ Has(a, g, l) /\ tables'[a][g][l] = tables[a][g][l]
                /\ Path(a, g, l)' = Path(a, g, l)
  BY <1>2 DEF Entered, Path
<1>3. ASSUME NEW a \in Pkgs, NEW g \in Nat, NEW l \in Nat, Has(a, g, l)
      PROVE  /\ Has(a, g, l)' /\ tables'[a][g][l] = tables[a][g][l]
             /\ Path(a, g, l)' = Path(a, g, l)
  BY <1>3 DEF Entered, Path
<1>4. Faithful'
  <2>1. SUFFICES ASSUME NEW a \in Pkgs, NEW g \in Nat, NEW l \in Nat, Has(a, g, l)'
                 PROVE  /\ g <= Len(uses[a]) /\ l <= Len(uses[a][g])
                        /\ Path(a, g, l)' = uses[a][g][l]
    BY DEF Faithful
  <2>2. CASE a = p /\ g = f /\ l = k
    BY <1>1, <2>2
  <2>3. CASE Has(a, g, l) /\ Path(a, g, l)' = Path(a, g, l)
    BY <2>3 DEF Faithful
  <2> QED
    BY <1>2, <2>1, <2>2, <2>3
<1>5. ASSUME NEW a \in Pkgs, NEW q \in Pkgs, NEW g \in Nat, NEW l \in Nat
      PROVE  New(a, g, l, q)' <=> \/ New(a, g, l, q)
                                  \/ ~d /\ a = p /\ g = f /\ l = k /\ q = new
  <2>1. CASE Has(a, g, l)
    BY <1>1, <1>3, <2>1 DEF New
  <2>2. CASE a = p /\ g = f /\ l = k
    BY <1>1, <2>2 DEF New
  <2>3. CASE ~Has(a, g, l) /\ ~(a = p /\ g = f /\ l = k)
    BY <1>2, <2>3 DEF New
  <2> QED
    BY <2>1, <2>2, <2>3
<1> QED
  BY <1>4, <1>5 DEF NewEntry

\* It is the first of its package, or a duplicate.
LEMMA StillSingle ==
  ASSUME NEW p \in Pkgs, NEW new \in Pkgs, NEW f \in Nat, NEW k \in Nat,
         NEW d \in BOOLEAN, NewEntry(p, f, k, new, d), Single, NewBuilt,
         d \/ new \notin Members(all)
  PROVE  Single'
<1>1. SUFFICES ASSUME NEW p1 \in Pkgs, NEW p2 \in Pkgs, NEW q \in Pkgs,
                      NEW f1 \in Nat, NEW k1 \in Nat, NEW f2 \in Nat, NEW k2 \in Nat,
                      New(p1, f1, k1, q)', New(p2, f2, k2, q)'
               PROVE  p1 = p2 /\ f1 = f2 /\ k1 = k2
  BY SMTT(30) DEF Single
<1>2. CASE ~d /\ q = new
  <2>1. ~New(p1, f1, k1, q) /\ ~New(p2, f2, k2, q)
    BY <1>2 DEF NewBuilt
  <2> QED
    BY <1>1, <1>2, <2>1 DEF NewEntry
<1>3. CASE d \/ q # new
  <2>1. New(p1, f1, k1, q) /\ New(p2, f2, k2, q)
    BY <1>1, <1>3 DEF NewEntry
  <2> QED
    BY <2>1 DEF Single
<1> QED
  BY <1>2, <1>3

\* It is the last thing before what p does next.
LEMMA WithinLast ==
  ASSUME NEW at, NEW p \in Pkgs, NEW new \in Pkgs, NEW f \in Nat, NEW k \in Nat,
         New(p, f, k, new)', Len(all') \in 1 .. Len(all'), all'[Len(all')] = new
  PROVE  Within(at, p, Len(all))'
<1>1. Len(all') <= Len(all')
  OBVIOUS
<1> QED
  BY <1>1 DEF Within

\* What is within p is before an entry that comes after all of p's.
LEMMA WithinBefore ==
  ASSUME NEW at \in [Pkgs -> Nat], NEW p \in Pkgs, NEW f \in Nat, NEW k \in Nat,
         NEW j \in Nat, NEW n \in Nat, n <= j, Within(at, p, j),
         \A g, l \in Nat : Has(p, g, l) => Earlier(g, l, f, k)
  PROVE  Before(at, p, f, k, n)
<1>1. CASE j <= at[p]
  BY <1>1 DEF Before
<1>2. CASE \E g, l \in Nat, m \in 1 .. Len(all), q \in Pkgs :
             j <= m /\ all[m] = q /\ New(p, g, l, q)
  <2>1. PICK g \in Nat, l \in Nat, m \in 1 .. Len(all), q \in Pkgs :
               j <= m /\ all[m] = q /\ New(p, g, l, q)
    BY <1>2
  <2>2. Earlier(g, l, f, k)
    BY <2>1 DEF New
  <2>3. n <= m
    BY <2>1
  <2> QED
    BY <2>1, <2>2, <2>3 DEF Before
<1> QED
  BY <1>1, <1>2 DEF Within

\* A package that is there already is entered once more.
LEMMA ReuseOrder ==
  ASSUME TypeOK, NEW at \in [Pkgs -> Nat], Order(at),
         NEW p \in Pkgs, NEW new \in Pkgs, NEW f \in Nat, NEW k \in Nat,
         Entered(p, f, k, new, TRUE), UNCHANGED <<all, uses>>,
         f <= Len(uses[p]), k <= Len(uses[p][f]), uses[p][f][k] = new,
         \A g, l \in Nat : Has(p, g, l) => Earlier(g, l, f, k),
         new \in Members(all), Within(at, p, Len(all))
  PROVE  Order(at)' /\ Grows
<1>1. /\ Len(all) \in Nat
      /\ \A m \in 1 .. Len(all) : all[m] \in Pkgs
  BY DEF TypeOK
<1>2. /\ Faithful' /\ NewEntry(p, f, k, new, TRUE)
      /\ \A a, q \in Pkgs : \A g, l \in Nat : New(a, g, l, q)' <=> New(a, g, l, q)
  <2>1. Faithful
    BY DEF Order
  <2>2. Faithful' /\ NewEntry(p, f, k, new, TRUE)
    BY <2>1, EntryMade
  <2> QED
    BY <2>2 DEF NewEntry
<1>3. Grows
  BY <1>1, <1>2 DEF Grows
<1>4. Single'
  <2>1. Single /\ NewBuilt
    BY DEF Order
  <2> QED
    BY <1>2, <2>1, StillSingle
<1>5. NewBuilt'
  BY <1>2 DEF Order, NewBuilt, Members
<1>6. Duplicates(at)'
  <2>1. SUFFICES ASSUME NEW a \in Pkgs, NEW g \in Nat, NEW l \in Nat,
                        Has(a, g, l)', tables'[a][g][l].duplicate
                 PROVE  \E j \in 1 .. Len(all') : all'[j] = Path(a, g, l)' /\ Before(at, a, g, l, j)'
    BY DEF Duplicates
  <2>2. CASE Has(a, g, l)
    <3>1. tables'[a][g][l] = tables[a][g][l]
      BY <2>2 DEF Entered
    <3>2. PICK j \in 1 .. Len(all) : all[j] = Path(a, g, l) /\ Before(at, a, g, l, j)
      BY <2>1, <2>2, <3>1 DEF Order, Duplicates
    <3>3. j \in Nat
      BY <1>1
    <3>4. Before(at, a, g, l, j)'
      BY <1>3, <3>2, <3>3, StillBefore
    <3> QED
      BY <3>1, <3>2, <3>4 DEF Path
  <2>3. CASE a = p /\ g = f /\ l = k
    <3>1. PICK j \in 1 .. Len(all) : all[j] = new
      BY DEF Members
    <3>2. j \in Nat /\ j <= Len(all) /\ Len(all) \in Nat
      BY <1>1
    <3>3. Before(at, p, f, k, j)
      BY <3>2, WithinBefore
    <3>4. Before(at, p, f, k, j)'
      BY <1>3, <3>2, <3>3, StillBefore
    <3>5. Path(p, f, k)' = new
      BY DEF Entered, Path
    <3> QED
      BY <2>3, <3>1, <3>4, <3>5
  <2> QED
    BY <2>1, <2>2, <2>3 DEF Entered
<1>7. Openings(at)'
  <2>1. SUFFICES ASSUME NEW a \in Pkgs, NEW q \in Pkgs, NEW g \in Nat, NEW l \in Nat,
                        New(a, g, l, q)'
                 PROVE  Before(at, a, g, l, at[q])'
    BY DEF Openings
  <2>2. Before(at, a, g, l, at[q]) /\ at[q] \in Nat
    BY <1>2, <2>1 DEF Order, Openings
  <2> QED
    BY <1>3, <2>2, StillBefore
<1>8. Endings(at)'
  <2>1. SUFFICES ASSUME NEW i \in 1 .. Len(all) PROVE Within(at, all[i], i - 1)'
    BY DEF Endings
  <2>2. PICK q \in Pkgs : q = all[i]
    BY <1>1
  <2>3. Within(at, q, i - 1) /\ i - 1 \in Nat
    BY <1>1, <2>2 DEF Order, Endings
  <2>4. Within(at, q, i - 1)'
    BY <1>3, <2>3, StillBefore
  <2> QED
    BY <2>2, <2>4 DEF Within
<1> QED
  BY <1>2, <1>3, <1>4, <1>5, <1>6, <1>7, <1>8 DEF Order

\* A new package is entered when it has been built.
LEMMA BuiltOrder ==
  ASSUME TypeOK, NEW at \in [Pkgs -> Nat], Order(at),
         NEW p \in Pkgs, NEW new \in Pkgs, NEW f \in Nat, NEW k \in Nat,
         Entered(p, f, k, new, FALSE), all' = Append(all, new), UNCHANGED uses,
         f <= Len(uses[p]), k <= Len(uses[p][f]), uses[p][f][k] = new,
         \A g, l \in Nat : Has(p, g, l) => Earlier(g, l, f, k),
         new \notin Members(all), Within(at, p, at[new]), Within(at, new, Len(all))
  PROVE  Order(at)' /\ Grows /\ Within(at, p, Len(all))'
<1>1. /\ Len(all) \in Nat /\ Len(all') = Len(all) + 1 /\ all'[Len(all) + 1] = new
      /\ \A m \in 1 .. Len(all) : all[m] \in Pkgs /\ all'[m] = all[m]
      /\ Members(all') = Members(all) \cup {new}
  <2>1. all \in Seq(Pkgs)
    BY DEF TypeOK
  <2>2. /\ Len(all) \in Nat /\ Len(all') = Len(all) + 1 /\ all'[Len(all) + 1] = new
        /\ \A m \in 1 .. Len(all) : all[m] \in Pkgs /\ all'[m] = all[m]
    BY <2>1
  <2> QED
    BY <2>2 DEF Members
<1>2. /\ Faithful' /\ NewEntry(p, f, k, new, FALSE)
      /\ \A a, q \in Pkgs : \A g, l \in Nat :
           New(a, g, l, q)' <=> New(a, g, l, q) \/ (a = p /\ g = f /\ l = k /\ q = new)
  <2>1. Faithful
    BY DEF Order
  <2>2. Faithful' /\ NewEntry(p, f, k, new, FALSE)
    BY <2>1, EntryMade
  <2> QED
    BY <2>2 DEF NewEntry
<1>3. Grows
  BY <1>1, <1>2 DEF Grows
<1>5. Single'
  <2>1. Single /\ NewBuilt
    BY DEF Order
  <2> QED
    BY <1>2, <2>1, StillSingle
<1>6. NewBuilt'
  <2>1. SUFFICES ASSUME NEW a \in Pkgs, NEW q \in Pkgs, NEW g \in Nat, NEW l \in Nat,
                        New(a, g, l, q)'
                 PROVE  q \in Members(all')
    BY DEF NewBuilt, Members
  <2> QED
    BY <1>1, <1>2, <2>1 DEF Order, NewBuilt
<1>7. Duplicates(at)'
  <2>1. SUFFICES ASSUME NEW a \in Pkgs, NEW g \in Nat, NEW l \in Nat,
                        Has(a, g, l)', tables'[a][g][l].duplicate
                 PROVE  \E j \in 1 .. Len(all') : all'[j] = Path(a, g, l)' /\ Before(at, a, g, l, j)'
    BY DEF Duplicates
  <2>2. ~(a = p /\ g = f /\ l = k)
    BY <2>1 DEF Entered
  <2>3. Has(a, g, l) /\ tables'[a][g][l] = tables[a][g][l]
    BY <2>1, <2>2, SMTT(30) DEF Entered
  <2>4. PICK j \in 1 .. Len(all) : all[j] = Path(a, g, l) /\ Before(at, a, g, l, j)
    BY <2>1, <2>3 DEF Order, Duplicates
  <2>5. j \in Nat /\ j \in 1 .. Len(all')
    BY <1>1
  <2>6. Before(at, a, g, l, j)'
    BY <1>3, <2>4, <2>5, StillBefore
  <2> QED
    BY <1>1, <2>3, <2>4, <2>5, <2>6 DEF Path
<1>8. Openings(at)'
  <2>1. SUFFICES ASSUME NEW a \in Pkgs, NEW q \in Pkgs, NEW g \in Nat, NEW l \in Nat,
                        New(a, g, l, q)'
                 PROVE  Before(at, a, g, l, at[q])'
    BY DEF Openings
  <2>2. at[q] \in Nat
    OBVIOUS
  <2>3. Before(at, a, g, l, at[q])
    <3>1. CASE New(a, g, l, q)
      BY <3>1 DEF Order, Openings
    <3>2. CASE a = p /\ g = f /\ l = k /\ q = new
      BY <2>2, <3>2, WithinBefore
    <3> QED
      BY <1>2, <2>1, <3>1, <3>2
  <2> QED
    BY <1>3, <2>2, <2>3, StillBefore
<1>9. Endings(at)'
  <2>1. SUFFICES ASSUME NEW i \in 1 .. Len(all') PROVE Within(at, all[i], i - 1)'
    BY DEF Endings
  <2>2. PICK q \in Pkgs : q = all'[i]
    BY <1>1
  <2>3. Within(at, q, i - 1) /\ i - 1 \in Nat
    <3>1. CASE i \in 1 .. Len(all)
      BY <1>1, <2>2, <3>1 DEF Order, Endings
    <3>2. CASE i = Len(all) + 1
      <4>1. q = new /\ i - 1 = Len(all)
        BY <1>1, <2>2, <3>2
      <4> QED
        BY <1>1, <4>1
    <3>3. i - 1 \in Nat /\ (i \in 1 .. Len(all) \/ i = Len(all) + 1)
      BY <1>1
    <3> QED
      BY <3>1, <3>2, <3>3
  <2>4. Within(at, q, i - 1)'
    BY <1>3, <2>3, StillBefore
  <2> QED
    BY <2>2, <2>4 DEF Within
<1>10. Within(at, p, Len(all))'
  <2>1. New(p, f, k, new)'
    BY <1>2
  <2>2. Len(all') \in 1 .. Len(all') /\ all'[Len(all')] = new
    BY <1>1
  <2> QED
    BY <2>1, <2>2, WithinLast
<1> QED
  BY <1>2, <1>3, <1>5, <1>6, <1>7, <1>8, <1>9, <1>10 DEF Order

-----------------------------------------------------------------------------
(* Building *)

LEMMA TopFrame ==
  ASSUME TypeOK, stack # << >>
  PROVE  /\ Len(stack) \in Nat /\ Len(stack) \in 1 .. Len(stack)
         /\ Top = stack[Len(stack)] /\ Top \in Frames
         /\ Top.pkg \in Pkgs /\ Top.file \in Nat \ {0} /\ Top.use \in Nat \ {0}
         /\ Top.pkg \in OnStack
         /\ \A i \in 1 .. Len(stack) :
              stack[i] \in Frames /\ stack[i].pkg \in Pkgs /\ stack[i].pkg \in OnStack
<1>1. stack \in Seq(Frames)
  BY DEF TypeOK
<1>2. /\ Len(stack) \in Nat /\ Len(stack) \in 1 .. Len(stack)
      /\ \A i \in 1 .. Len(stack) : stack[i] \in Frames
  BY <1>1
<1> QED
  BY <1>2 DEF Top, Frames, OnStack

LEMMA UsesKept ==
  ASSUME UNCHANGED <<uses, all>>
  PROVE  UsesFirst' <=> UsesFirst
<1>1. \A p : Uses(p)' = Uses(p)
  BY DEF Uses, Members
<1> QED
  BY <1>1 DEF UsesFirst, Uses, Members

LEMMA ListsKept ==
  ASSUME UNCHANGED <<uses, all, parsed>>
  PROVE  /\ Members(all)' = Members(all) /\ Members(parsed)' = Members(parsed)
         /\ ParsedOnce' <=> ParsedOnce
         /\ UsesFirst' <=> UsesFirst
<1>1. Members(all)' = Members(all) /\ Members(parsed)' = Members(parsed)
  BY DEF Members
<1>2. ParsedOnce' <=> ParsedOnce
  BY DEF ParsedOnce, NoRepeats
<1> QED
  BY <1>1, <1>2, UsesKept

\* While a package is built only its own tables change.
LEMMA StaticKept ==
  ASSUME TypeOK, NEW at \in [Pkgs -> Nat], Static(at), Order(at)',
         NEW p \in Members(parsed), p \notin Members(all),
         \A a \in Pkgs \ {p} : tables'[a] = tables[a],
         UNCHANGED <<uses, all, parsed>>
  PROVE  Static(at)'
<1>1. ParsedOnce' /\ UsesFirst'
  BY ListsKept DEF Static
<1>2. Members(parsed)' = Members(parsed) /\ Members(all)' = Members(all)
  BY ListsKept
<1>3. \A a \in Pkgs \ Members(parsed') : tables'[a] = << >>
  BY <1>2 DEF Static, Members
<1>4. ASSUME NEW a \in Members(all') PROVE a \in Members(parsed') /\ Built(a)'
  <2>1. a \in Members(all) /\ a # p /\ a \in Pkgs
    BY <1>2, <1>4, MembersType DEF TypeOK
  <2>2. a \in Members(parsed) /\ Built(a) /\ tables'[a] = tables[a]
    BY <2>1 DEF Static
  <2> QED
    BY <1>2, <2>2 DEF Built, Members
<1>5. Main \notin Members(all') /\ at[Main] = 0
  BY <1>2 DEF Static, Members
<1> QED
  BY <1>1, <1>3, <1>4, <1>5 DEF Static

\* What a frame has reached depends on its package alone.
LEMMA ReachedKept ==
  ASSUME NEW f \in Frames, Reached(f), tables'[f.pkg] = tables[f.pkg], UNCHANGED uses
  PROVE  Reached(f)'
BY DEF Reached

\* The package on top goes on, and the others wait.
LEMMA GoesOn ==
  ASSUME TypeOK, NEW at \in [Pkgs -> Nat], Building1(at), Grows,
         NEW f \in Frames, f.pkg = Top.pkg, Reached(f)',
         Len(stack') = Len(stack), stack'[Len(stack)] = f,
         \A i \in 1 .. Len(stack) - 1 : stack'[i] = stack[i],
         \A a \in Pkgs \ {Top.pkg} : tables'[a] = tables[a],
         UNCHANGED <<uses, all, parsed, checked>>
  PROVE  Building1(at)'
<1> DEFINE n == Len(stack)
<1>1. stack # << >> /\ Stacked
  BY DEF Building1, Stacked
<1>2. /\ n \in Nat /\ n \in 1 .. n /\ Top = stack[n]
      /\ \A i \in 1 .. n : stack[i] \in Frames /\ stack[i].pkg \in Pkgs
  BY <1>1, TopFrame
<1>3. \A i \in 1 .. n : stack'[i].pkg = stack[i].pkg
  BY <1>2
<1>4. stack' # << >>
  BY <1>2
<1>5. Stacked'
  BY <1>1, <1>2, <1>3, <1>4 DEF Stacked
<1>6. OnStack' = OnStack
  BY <1>2, <1>3 DEF OnStack
<1>7. Top' = f
  BY DEF Top
<1>8. ASSUME NEW i \in 1 .. n PROVE Reached(stack[i])'
  <2>1. CASE i = n
    BY <2>1 DEF Reached
  <2>2. CASE i # n
    <3>1. stack'[i] = stack[i] /\ stack[i].pkg # Top.pkg
      BY <1>1, <1>2, <2>2 DEF Stacked
    <3>2. Reached(stack[i]) /\ tables'[stack[i].pkg] = tables[stack[i].pkg]
      BY <1>2, <3>1 DEF Building1
    <3>3. PICK x \in Frames : x = stack[i]
      BY <1>2
    <3>4. Reached(x)'
      BY <3>2, <3>3, ReachedKept
    <3> QED
      BY <3>1, <3>3, <3>4 DEF Reached
  <2> QED
    BY <2>1, <2>2
<1>9. ASSUME NEW i \in 1 .. n - 1
      PROVE  /\ Waits(stack[i], stack[i + 1].pkg)'
             /\ Within(at, stack[i].pkg, at[stack[i + 1].pkg])'
  <2>1. i \in 1 .. n /\ i + 1 \in 1 .. n
    BY <1>2
  <2>2. PICK x \in Frames, p \in Pkgs, q \in Pkgs :
          x = stack[i] /\ p = stack[i].pkg /\ q = stack[i + 1].pkg
    BY <1>2, <2>1
  <2>3. Waits(x, q) /\ Within(at, p, at[q])
    BY <2>2 DEF Building1
  <2>4. x = stack'[i] /\ p = stack'[i].pkg /\ q = stack'[i + 1].pkg
    BY <1>3, <2>1, <2>2
  <2>5. Within(at, p, at[q])'
    BY <2>3, StillBefore
  <2> QED
    BY <2>3, <2>4, <2>5 DEF Waits, Within
<1>10. Within(at, Top.pkg, Len(all))'
  <2>1. PICK p \in Pkgs : p = Top.pkg
    BY <1>2
  <2>2. PICK j \in Nat : j = Len(all)
    BY DEF TypeOK
  <2>3. Within(at, p, j)
    BY <2>1, <2>2 DEF Building1
  <2>4. Within(at, p, j)'
    BY <2>3, StillBefore
  <2> QED
    BY <1>7, <2>1, <2>2, <2>4 DEF Within
<1>11. /\ checked' = << >>
       /\ OnStack' \cap Members(all)' = {}
       /\ Members(parsed)' = Members(all)' \cup OnStack'
  BY <1>6, ListsKept DEF Building1
<1> HIDE DEF n
<1> QED
  BY <1>5, <1>8, <1>9, <1>10, <1>11 DEF Building1, n

\* A frame that waits is about to make the entry after all that its package has.
LEMMA NextEntry ==
  ASSUME TypeOK, NEW x \in Frames, NEW q, Reached(x), Waits(x, q)
  PROVE  /\ x.pkg \in Pkgs /\ x.file \in Nat /\ x.use \in Nat /\ q \in Pkgs
         /\ x.file \in 1 .. Len(tables[x.pkg]) /\ Len(tables[x.pkg][x.file]) + 1 = x.use
         /\ x.file <= Len(uses[x.pkg]) /\ x.use <= Len(uses[x.pkg][x.file])
         /\ uses[x.pkg][x.file][x.use] = q
         /\ \A g, l \in Nat : Has(x.pkg, g, l) => Earlier(g, l, x.file, x.use)
<1>1. x.pkg \in Pkgs /\ x.file \in Nat \ {0} /\ x.use \in Nat \ {0}
  BY DEF Frames
<1>2. /\ x.file <= Len(uses[x.pkg]) /\ x.use <= Len(uses[x.pkg][x.file])
      /\ uses[x.pkg][x.file][x.use] = q
  BY DEF Waits
<1>3. Len(tables[x.pkg]) = x.file /\ Len(tables[x.pkg][x.file]) = x.use - 1
  BY <1>2 DEF Reached
<1>4. q \in Pkgs
  <2>1. uses[x.pkg] \in Seq(Seq(Pkgs)) /\ x.file \in 1 .. Len(uses[x.pkg])
    BY <1>1, <1>2, Typed
  <2>2. uses[x.pkg][x.file] \in Seq(Pkgs)
    BY <2>1
  <2>3. x.use \in 1 .. Len(uses[x.pkg][x.file])
    BY <1>1, <1>2, <2>2
  <2> QED
    BY <1>2, <2>2, <2>3
<1>5. ASSUME NEW g \in Nat, NEW l \in Nat, Has(x.pkg, g, l)
      PROVE  Earlier(g, l, x.file, x.use)
  <2>1. g \in 1 .. x.file /\ l \in 1 .. Len(tables[x.pkg][g])
    BY <1>3, <1>5 DEF Has
  <2>2. CASE g = x.file
    BY <1>1, <1>3, <2>1, <2>2 DEF Earlier
  <2>3. CASE g # x.file
    BY <1>1, <2>1, <2>3 DEF Earlier
  <2> QED
    BY <2>2, <2>3
<1> QED
  BY <1>1, <1>2, <1>3, <1>4, <1>5, SMTT(30)

\* When it has made it, it has reached the next use declaration.
LEMMA EntryReached ==
  ASSUME TypeOK, NEW x \in Frames, NEW q, Reached(x), Waits(x, q), NEW d,
         Entered(x.pkg, x.file, x.use, q, d), UNCHANGED uses,
         NEW y \in Frames, y.pkg = x.pkg, y.file = x.file, y.use = x.use + 1
  PROVE  Reached(y)'
<1>1. /\ x.pkg \in Pkgs /\ x.file \in Nat \ {0} /\ x.use \in Nat \ {0}
      /\ x.file \in 1 .. Len(tables[x.pkg])
      /\ x.file <= Len(uses[x.pkg]) /\ x.use <= Len(uses[x.pkg][x.file])
      /\ Len(uses[x.pkg][x.file]) \in Nat
  <2>1. x.file \in Nat \ {0} /\ x.use \in Nat \ {0} /\ x.pkg \in Pkgs
    BY DEF Frames
  <2>2. x.file \in 1 .. Len(tables[x.pkg]) /\ x.file <= Len(uses[x.pkg])
        /\ x.use <= Len(uses[x.pkg][x.file])
    BY NextEntry
  <2>3. x.file \in 1 .. Len(uses[x.pkg])
    BY <2>1, <2>2, Typed
  <2> QED
    BY <2>1, <2>2, <2>3, Typed
<1>2. /\ Len(tables'[x.pkg]) = Len(tables[x.pkg]) /\ Len(tables'[x.pkg][x.file]) = x.use
      /\ \A g \in 1 .. Len(tables[x.pkg]) : g # x.file => tables'[x.pkg][g] = tables[x.pkg][g]
  BY DEF Entered
<1>3. Len(tables[x.pkg]) = x.file /\ Len(uses[x.pkg]) \in Nat
  <2>1. Len(uses[x.pkg]) \in Nat
    BY <1>1, Typed
  <2> QED
    BY <1>1, <2>1 DEF Reached
<1>4. \A g \in 1 .. Len(tables'[x.pkg]) :
        g < x.file => Len(tables'[x.pkg][g]) = Len(uses[x.pkg][g])
  <2>1. SUFFICES ASSUME NEW g \in 1 .. Len(tables'[x.pkg]), g < x.file
                 PROVE  Len(tables'[x.pkg][g]) = Len(uses[x.pkg][g])
    OBVIOUS
  <2>2. g \in 1 .. Len(tables[x.pkg]) /\ tables'[x.pkg][g] = tables[x.pkg][g]
    BY <1>1, <1>2, <1>3, <2>1
  <2> QED
    BY <2>1, <2>2 DEF Reached
<1>5. x.file <= Len(uses[x.pkg]) + 1
  BY <1>1, <1>3
<1>6. Len(tables'[x.pkg]) = x.file
  BY <1>2, <1>3
<1>7. x.use + 1 <= Len(uses[x.pkg][x.file]) + 1
  BY <1>1
<1>8. Len(tables'[x.pkg][x.file]) = (x.use + 1) - 1
  BY <1>1, <1>2
<1> QED
  BY <1>1, <1>4, <1>5, <1>6, <1>7, <1>8 DEF Reached

\* The use declaration that is being looked at.
LEMMA UseAtTop ==
  ASSUME TypeOK, NEW at \in [Pkgs -> Nat], Building1(at), Building, HasUse
  PROVE  Top \in Frames /\ Reached(Top) /\ Waits(Top, Used)
<1>1. stack # << >> /\ Len(stack) \in 1 .. Len(stack) /\ Top = stack[Len(stack)] /\ Top \in Frames
  BY TopFrame DEF Building
<1>2. Reached(Top)
  BY <1>1 DEF Building1
<1> QED
  BY <1>1, <1>2 DEF Waits, HasUse, InFile, Used

LEMMA StepReuse ==
  ASSUME NEW at \in [Pkgs -> Nat], Inv(at), Reuse
  PROVE  Inv(at)'
<1>1. /\ TypeOK /\ Static(at) /\ Building1(at) /\ Building /\ HasUse /\ Order(at)
      /\ phase = "build" /\ stack # << >>
  BY DEF Inv, Reuse, Building, Static
<1>2. PICK x \in Frames : x = Top
  BY <1>1, UseAtTop
<1>3. PICK q : q = Used
  OBVIOUS
<1>4. Reached(x) /\ Waits(x, q)
  BY <1>1, <1>2, <1>3, UseAtTop
<1>5. PICK p \in Pkgs, f \in Nat, k \in Nat :
        p = x.pkg /\ f = x.file /\ k = x.use
  BY DEF Frames
<1>6. /\ f \in 1 .. Len(tables[p]) /\ Len(tables[p][f]) + 1 = k /\ q \in Pkgs
      /\ f <= Len(uses[p]) /\ k <= Len(uses[p][f]) /\ uses[p][f][k] = q
      /\ \A g, l \in Nat : Has(p, g, l) => Earlier(g, l, f, k)
  BY <1>1, <1>4, <1>5, NextEntry
<1>7. /\ tables' = Import(p, f, q, TRUE) /\ stack' = AdvanceUse(stack)
      /\ UNCHANGED <<uses, fault, phase, all, parsed, checked>> /\ q \in Members(all)
  BY <1>2, <1>3, <1>5 DEF Reuse, Known
<1>8. tables' \in [Pkgs -> Seq(Seq(Imports))] /\ Entered(p, f, k, q, TRUE)
  BY <1>1, <1>6, <1>7, ImportEnters
<1>9. Order(at)' /\ Grows
  <2>1. Within(at, p, Len(all))
    BY <1>1, <1>2, <1>5 DEF Building1
  <2> QED
    BY <1>1, <1>6, <1>7, <1>8, <2>1, ReuseOrder
<1>10. PICK y \in Frames : y.pkg = x.pkg /\ y.file = x.file /\ y.use = x.use + 1
  <2>1. [pkg |-> p, file |-> f, use |-> k + 1] \in Frames
    BY <1>5 DEF Frames
  <2> QED
    BY <1>5, <2>1
<1>11. Reached(y)'
  BY <1>1, <1>4, <1>5, <1>7, <1>8, <1>10, EntryReached
<1>12. /\ stack' \in Seq(Frames) /\ Len(stack') = Len(stack) /\ stack'[Len(stack)] = y
       /\ \A i \in 1 .. Len(stack) - 1 : stack'[i] = stack[i]
  <2>1. stack \in Seq(Frames) /\ Top = stack[Len(stack)]
    BY <1>1 DEF TypeOK, Top
  <2>2. stack'[Len(stack)] = [pkg |-> x.pkg, file |-> x.file, use |-> x.use + 1]
    BY <1>1, <1>2, <1>7, <2>1, Advanced
  <2>3. y = [pkg |-> x.pkg, file |-> x.file, use |-> x.use + 1]
    BY <1>10 DEF Frames
  <2> QED
    BY <1>1, <1>7, <2>1, <2>2, <2>3, Advanced
<1>13. TypeOK'
  BY <1>1, <1>7, <1>8, <1>12 DEF TypeOK
<1>14. Building1(at)'
  <2>1. /\ y.pkg = Top.pkg
        /\ \A a \in Pkgs \ {Top.pkg} : tables'[a] = tables[a]
    BY <1>2, <1>5, <1>8, <1>10 DEF Entered
  <2> QED
    BY <1>1, <1>7, <1>9, <1>11, <1>12, <2>1, GoesOn
<1>15. Static(at)'
  <2>1. p \in Members(parsed) /\ p \notin Members(all)
    BY <1>1, <1>2, <1>5, TopFrame DEF Building1
  <2>2. \A a \in Pkgs \ {p} : tables'[a] = tables[a]
    BY <1>8 DEF Entered
  <2> QED
    BY <1>1, <1>7, <1>9, <2>1, <2>2, StaticKept
<1>16. CheckedOnce' /\ phase' = "build"
  BY <1>1, <1>7 DEF Inv, CheckedOnce, NoRepeats
<1> QED
  BY <1>13, <1>14, <1>15, <1>16 DEF Inv

\* The frame of a file whose use declarations are through, one file further.
LEMMA FileReached ==
  ASSUME TypeOK, NEW x \in Frames, Reached(x), UNCHANGED uses,
         x.file <= Len(uses[x.pkg]), ~(x.use <= Len(uses[x.pkg][x.file])),
         tables' = IF x.file = Len(uses[x.pkg]) THEN tables
                   ELSE [tables EXCEPT ![x.pkg] = Append(@, << >>)],
         NEW y \in Frames, y.pkg = x.pkg, y.file = x.file + 1, y.use = 1
  PROVE  /\ tables' \in [Pkgs -> Seq(Seq(Imports))]
         /\ SameEntries
         /\ \A a \in Pkgs \ {x.pkg} : tables'[a] = tables[a]
         /\ Reached(y)'
<1>1. PICK p \in Pkgs, f \in Nat \ {0}, k \in Nat \ {0} : p = x.pkg /\ f = x.file /\ k = x.use
  BY DEF Frames
<1>2. /\ tables[p] \in Seq(Seq(Imports)) /\ Len(tables[p]) \in Nat /\ Len(uses[p]) \in Nat
      /\ Len(uses[p][f]) \in Nat
  <2>1. f \in 1 .. Len(uses[p])
    BY <1>1, Typed
  <2> QED
    BY <2>1, Typed
<1>3. /\ Len(tables[p]) = f /\ Len(tables[p][f]) = k - 1 /\ k <= Len(uses[p][f]) + 1
      /\ \A g \in 1 .. Len(tables[p]) : g < f => Len(tables[p][g]) = Len(uses[p][g])
  BY <1>1 DEF Reached
<1>4. Len(tables[p][f]) = Len(uses[p][f])
  <2>1. ~(k <= Len(uses[p][f]))
    BY <1>1
  <2>2. PICK m \in Nat : m = Len(uses[p][f])
    BY <1>2
  <2>3. k = m + 1
    <3>1. k <= m + 1 /\ ~(k <= m)
      BY <1>3, <2>1, <2>2
    <3> QED
      BY <3>1
  <2> QED
    BY <1>3, <2>2, <2>3
<1>5. ASSUME NEW g \in 1 .. Len(tables[p]) PROVE Len(tables[p][g]) = Len(uses[p][g])
  <2>1. g = f \/ g < f
    BY <1>3
  <2> QED
    BY <1>3, <1>4, <2>1
<1>6. CASE f = Len(uses[p])
  <2>1. tables' = tables
    BY <1>1, <1>6
  <2>2. SameEntries
    BY <2>1 DEF SameEntries, Has
  <2>3. Reached(y)'
    BY <1>1, <1>2, <1>3, <1>5, <1>6, <2>1 DEF Reached
  <2> QED
    BY <2>1, <2>2, <2>3 DEF TypeOK
<1>7. CASE f # Len(uses[p])
  <2> DEFINE t == Append(tables[p], << >>)
  <2>1. tables' = [tables EXCEPT ![p] = t]
    BY <1>1, <1>7
  <2>2. << >> \in Seq(Imports) /\ Len(<< >>) = 0
    OBVIOUS
  <2>3. /\ t \in Seq(Seq(Imports)) /\ Len(t) = f + 1 /\ t[f + 1] = << >>
        /\ \A g \in 1 .. Len(tables[p]) : t[g] = tables[p][g]
    BY <1>2, <1>3, <2>2
  <2> HIDE DEF t
  <2>4. tables'[p] = t /\ \A a \in Pkgs \ {p} : tables'[a] = tables[a]
    BY <2>1 DEF TypeOK
  <2>5. tables' \in [Pkgs -> Seq(Seq(Imports))]
    BY <2>1, <2>3 DEF TypeOK
  <2>6. SameEntries
    <3>1. SUFFICES ASSUME NEW a \in Pkgs, NEW g \in Nat, NEW l \in Nat
                   PROVE  /\ Has(a, g, l)' <=> Has(a, g, l)
                          /\ Has(a, g, l) => tables'[a][g][l] = tables[a][g][l]
      BY DEF SameEntries
    <3>2. CASE a # p
      BY <2>4, <3>2 DEF Has
    <3>3. CASE a = p /\ g = f + 1
      BY <1>1, <1>2, <1>3, <2>2, <2>3, <2>4, <3>3 DEF Has
    <3>4. CASE a = p /\ g # f + 1
      <4>1. g \in 1 .. Len(tables'[p]) <=> g \in 1 .. Len(tables[p])
        BY <1>1, <1>3, <2>3, <2>4, <3>4, SMTT(30)
      <4>2. g \in 1 .. Len(tables[p]) => tables'[p][g] = tables[p][g]
        BY <2>3, <2>4
      <4> QED
        BY <3>4, <4>1, <4>2 DEF Has
    <3> QED
      BY <3>2, <3>3, <3>4
  <2>7. \A g \in 1 .. Len(tables'[p]) : g < f + 1 => Len(tables'[p][g]) = Len(uses[p][g])
    BY <1>1, <1>3, <1>5, <2>3, <2>4
  <2>8. /\ f + 1 <= Len(uses[p]) /\ Len(tables'[p]) = f + 1 /\ Len(tables'[p][f + 1]) = 0
    <3>1. f <= Len(uses[p])
      BY <1>1
    <3>2. f + 1 <= Len(uses[p])
      BY <1>2, <1>7, <3>1
    <3> QED
      BY <2>2, <2>3, <2>4, <3>2
  <2>9. Len(uses[p][f + 1]) \in Nat
    <3>1. f + 1 \in 1 .. Len(uses[p])
      BY <1>1, <1>2, <2>8, SMTT(30)
    <3> QED
      BY <3>1, Typed
  <2>10. Reached(y)'
    <3>1. f + 1 <= Len(uses[p]) + 1
      BY <1>2, <2>8
    <3>2. 1 <= Len(uses[p][f + 1]) + 1 /\ Len(tables'[p][f + 1]) = 1 - 1
      BY <2>8, <2>9
    <3>3. y.pkg = p /\ y.file = f + 1 /\ y.use = 1
      BY <1>1
    <3> HIDE <1>1
    <3> QED
      BY <2>7, <2>8, <3>1, <3>2, <3>3 DEF Reached
  <2> QED
    BY <1>1, <2>4, <2>5, <2>6, <2>10
<1> QED
  BY <1>6, <1>7

LEMMA StepFileBuilt ==
  ASSUME NEW at \in [Pkgs -> Nat], Inv(at), FileBuilt
  PROVE  Inv(at)'
<1>1. /\ TypeOK /\ Static(at) /\ Building1(at) /\ Order(at)
      /\ phase = "build" /\ stack # << >> /\ InFile /\ ~HasUse
  BY DEF Inv, FileBuilt, Building, Static
<1>2. PICK x \in Frames : x = Top
  BY <1>1, TopFrame
<1>3. Reached(x)
  BY <1>1, <1>2, TopFrame DEF Building1
<1>4. /\ x.file <= Len(uses[x.pkg]) /\ ~(x.use <= Len(uses[x.pkg][x.file]))
  BY <1>1, <1>2 DEF InFile, HasUse
<1>5. /\ tables' = IF x.file = Len(uses[x.pkg]) THEN tables
                   ELSE [tables EXCEPT ![x.pkg] = Append(@, << >>)]
      /\ stack' = AdvanceFile(stack)
      /\ UNCHANGED <<uses, fault, phase, all, parsed, checked>>
  BY <1>2 DEF FileBuilt
<1>6. PICK y \in Frames : y = [pkg |-> x.pkg, file |-> x.file + 1, use |-> 1]
  <2>1. [pkg |-> x.pkg, file |-> x.file + 1, use |-> 1] \in Frames
    BY DEF Frames
  <2> QED
    BY <2>1
<1>7. y.pkg = x.pkg /\ y.file = x.file + 1 /\ y.use = 1
  BY <1>6
<1>8. /\ tables' \in [Pkgs -> Seq(Seq(Imports))]
      /\ SameEntries
      /\ \A a \in Pkgs \ {x.pkg} : tables'[a] = tables[a]
      /\ Reached(y)'
  BY <1>1, <1>3, <1>4, <1>5, <1>7, FileReached
<1>9. Order(at)' /\ Grows
  BY <1>1, <1>5, <1>8, OrderKept
<1>10. /\ stack' \in Seq(Frames) /\ Len(stack') = Len(stack) /\ stack'[Len(stack)] = y
       /\ \A i \in 1 .. Len(stack) - 1 : stack'[i] = stack[i]
  <2>1. stack \in Seq(Frames) /\ Top = stack[Len(stack)]
    BY <1>1 DEF TypeOK, Top
  <2>2. stack'[Len(stack)] = [pkg |-> x.pkg, file |-> x.file + 1, use |-> 1]
    BY <1>1, <1>2, <1>5, <2>1, Advanced
  <2> QED
    BY <1>1, <1>5, <1>6, <2>1, <2>2, Advanced
<1>11. TypeOK'
  BY <1>1, <1>5, <1>8, <1>10 DEF TypeOK
<1>12. Building1(at)'
  <2>1. y.pkg = Top.pkg /\ \A a \in Pkgs \ {Top.pkg} : tables'[a] = tables[a]
    BY <1>2, <1>7, <1>8
  <2> QED
    BY <1>1, <1>5, <1>8, <1>9, <1>10, <2>1, GoesOn
<1>13. Static(at)'
  <2>1. PICK p \in Pkgs : p = x.pkg
    BY DEF Frames
  <2>2. p \in Members(parsed) /\ p \notin Members(all)
    BY <1>1, <1>2, <2>1, TopFrame DEF Building1
  <2> QED
    BY <1>1, <1>5, <1>8, <1>9, <2>1, <2>2, StaticKept
<1>14. CheckedOnce' /\ phase' = "build"
  BY <1>1, <1>5 DEF Inv, CheckedOnce, NoRepeats
<1> QED
  BY <1>11, <1>12, <1>13, <1>14 DEF Inv

\* A package that was not parsed has no tables; it gets that of its first file.
LEMMA Opened ==
  ASSUME TypeOK, NEW q \in Pkgs, tables[q] = << >>, UNCHANGED uses,
         tables' = [tables EXCEPT ![q] = IF uses[q] = << >> THEN << >> ELSE << << >> >>]
  PROVE  /\ tables' \in [Pkgs -> Seq(Seq(Imports))]
         /\ SameEntries
         /\ \A a \in Pkgs \ {q} : tables'[a] = tables[a]
         /\ First(q) \in Frames /\ First(q).pkg = q
         /\ Reached(First(q))'
<1> DEFINE t == IF uses[q] = << >> THEN << >> ELSE << << >> >>
<1>1. << >> \in Seq(Imports) /\ Len(<< >>) = 0
  OBVIOUS
<1>2. t \in Seq(Seq(Imports))
  BY <1>1
<1>3. /\ tables' \in [Pkgs -> Seq(Seq(Imports))]
      /\ tables'[q] = t /\ \A a \in Pkgs \ {q} : tables'[a] = tables[a]
  <2> HIDE DEF t
  <2>1. tables' = [tables EXCEPT ![q] = t]
    BY DEF t
  <2> QED
    BY <1>2, <2>1 DEF TypeOK
<1>4. uses[q] \in Seq(Seq(Pkgs)) /\ Len(uses[q]) \in Nat
  BY Typed
<1>5. CASE uses[q] = << >>
  <2>1. tables'[q] = << >> /\ Len(uses[q]) = 0
    BY <1>1, <1>3, <1>5
  <2>2. SameEntries
    <3>1. SUFFICES ASSUME NEW a \in Pkgs, NEW g \in Nat, NEW l \in Nat
                   PROVE  /\ Has(a, g, l)' <=> Has(a, g, l)
                          /\ Has(a, g, l) => tables'[a][g][l] = tables[a][g][l]
      BY DEF SameEntries
    <3>2. tables'[a] = tables[a]
      BY <1>3, <2>1
    <3> QED
      BY <3>2 DEF Has
  <2>3. /\ First(q) \in Frames /\ First(q).pkg = q /\ First(q).file = 1 /\ First(q).use = 1
    BY DEF First, Frames
  <2>4. Reached(First(q))'
    BY <1>1, <2>1, <2>3 DEF Reached, First
  <2> QED
    BY <1>3, <2>2, <2>3, <2>4
<1>6. CASE uses[q] # << >>
  <2>1. tables'[q] = << << >> >> /\ Len(uses[q]) >= 1
    BY <1>3, <1>4, <1>6
  <2>2. Len(tables'[q]) = 1 /\ tables'[q][1] = << >> /\ Len(tables'[q][1]) = 0
    BY <1>1, <2>1
  <2>3. SameEntries
    <3>1. SUFFICES ASSUME NEW a \in Pkgs, NEW g \in Nat, NEW l \in Nat
                   PROVE  /\ Has(a, g, l)' <=> Has(a, g, l)
                          /\ Has(a, g, l) => tables'[a][g][l] = tables[a][g][l]
      BY DEF SameEntries
    <3>2. CASE a # q
      BY <1>3, <3>2 DEF Has
    <3>3. CASE a = q
      <4>1. ~Has(a, g, l)
        BY <1>1, <3>3 DEF Has
      <4>2. ~Has(a, g, l)'
        BY <2>2, <3>3 DEF Has
      <4> QED
        BY <4>1, <4>2
    <3> QED
      BY <3>2, <3>3
  <2>4. /\ First(q) \in Frames /\ First(q).pkg = q /\ First(q).file = 1 /\ First(q).use = 1
    BY DEF First, Frames
  <2>5. Len(uses[q][1]) \in Nat
    <3>1. 1 \in 1 .. Len(uses[q])
      BY <1>4, <2>1
    <3> QED
      BY <3>1, Typed
  <2>6. 1 <= Len(uses[q]) + 1 /\ 1 <= Len(uses[q][1]) + 1
    BY <1>4, <2>5
  <2>7. Reached(First(q))'
    BY <2>1, <2>2, <2>4, <2>6 DEF Reached, First
  <2> QED
    BY <1>3, <2>3, <2>4, <2>7
<1> QED
  BY <1>5, <1>6

\* A list without repetitions that gets something new.
LEMMA AppendNew ==
  ASSUME NEW s \in Seq(Pkgs), NEW q \in Pkgs
  PROVE  /\ Append(s, q) \in Seq(Pkgs)
         /\ Members(Append(s, q)) = Members(s) \cup {q}
         /\ NoRepeats(s) /\ q \notin Members(s) => NoRepeats(Append(s, q))
<1>1. /\ Append(s, q) \in Seq(Pkgs) /\ Len(Append(s, q)) = Len(s) + 1 /\ Len(s) \in Nat
      /\ Append(s, q)[Len(s) + 1] = q /\ \A i \in 1 .. Len(s) : Append(s, q)[i] = s[i]
  OBVIOUS
<1>2. Members(Append(s, q)) = Members(s) \cup {q}
  BY <1>1 DEF Members
<1>3. ASSUME NoRepeats(s), q \notin Members(s) PROVE NoRepeats(Append(s, q))
  <2>1. SUFFICES ASSUME NEW i \in 1 .. Len(s) + 1, NEW j \in 1 .. Len(s) + 1,
                        Append(s, q)[i] = Append(s, q)[j]
                 PROVE  i = j
    BY <1>1 DEF NoRepeats
  <2>2. CASE i \in 1 .. Len(s) /\ j \in 1 .. Len(s)
    BY <1>1, <1>3, <2>1, <2>2 DEF NoRepeats
  <2>3. CASE i = Len(s) + 1 /\ j \in 1 .. Len(s)
    BY <1>1, <1>3, <2>1, <2>3 DEF Members
  <2>4. CASE j = Len(s) + 1 /\ i \in 1 .. Len(s)
    BY <1>1, <1>3, <2>1, <2>4 DEF Members
  <2> QED
    BY <1>1, <2>2, <2>3, <2>4
<1> QED
  BY <1>1, <1>2, <1>3

\* What a step that opens q leaves of the static part.
LEMMA StaticOpened ==
  ASSUME TypeOK, NEW at \in [Pkgs -> Nat], Static(at), NEW b \in [Pkgs -> Nat], Order(b)',
         NEW q \in Pkgs, q \notin Members(parsed), q # Main,
         \A p \in Pkgs \ {q} : b[p] = at[p] /\ tables'[p] = tables[p],
         parsed' = Append(parsed, q), UNCHANGED <<uses, all>>
  PROVE  Static(b)' /\ Members(parsed)' = Members(parsed) \cup {q}
<1>1. /\ parsed \in Seq(Pkgs) /\ NoRepeats(parsed) /\ NoRepeats(all) /\ Main \in Pkgs
  BY MainAssumption DEF TypeOK, Static, ParsedOnce
<1>2. NoRepeats(parsed') /\ Members(parsed') = Members(parsed) \cup {q}
  BY <1>1, AppendNew
<1>3. ParsedOnce'
  BY <1>1, <1>2 DEF ParsedOnce, NoRepeats
<1>4. UsesFirst'
  BY UsesKept DEF Static
<1>5. Members(all') = Members(all)
  BY DEF Members
<1>6. Main \notin Members(all') /\ b[Main] = 0
  BY <1>1, <1>5 DEF Static
<1>7. \A p \in Pkgs \ Members(parsed') : tables'[p] = << >>
  BY <1>2 DEF Static
<1>8. ASSUME NEW p \in Members(all') PROVE p \in Members(parsed') /\ Built(p)'
  <2>1. p \in Members(all) /\ p \in Pkgs
    BY <1>5, <1>8, MembersType DEF TypeOK
  <2>2. p \in Members(parsed) /\ Built(p)
    BY <2>1 DEF Static
  <2>3. p \in Pkgs \ {q}
    BY <2>1, <2>2
  <2>4. tables'[p] = tables[p]
    BY <2>3
  <2> QED
    BY <1>2, <2>2, <2>4 DEF Built
<1> QED
  BY <1>2, <1>3, <1>4, <1>6, <1>7, <1>8 DEF Static, Members

LEMMA BuildOpened ==
  ASSUME TypeOK, NEW at \in [Pkgs -> Nat], Building1(at), Grows,
         NEW b \in [Pkgs -> Nat], NEW q \in Pkgs, q \notin OnStack, q \notin Members(all),
         Waits(Top, q), b[q] = Len(all),
         \A p \in Pkgs \ {q} : b[p] = at[p] /\ tables'[p] = tables[p],
         First(q) \in Frames, First(q).pkg = q, Reached(First(q))',
         stack' = Append(stack, First(q)),
         Members(parsed)' = Members(parsed) \cup {q},
         UNCHANGED <<uses, all, checked>>
  PROVE  Building1(b)' /\ stack' \in Seq(Frames)
<1> DEFINE n == Len(stack)
<1>1. stack # << >> /\ Stacked
  BY DEF Building1, Stacked
<1>2. /\ n \in Nat /\ n \in 1 .. n /\ Top = stack[n]
      /\ \A i \in 1 .. n : stack[i] \in Frames /\ stack[i].pkg \in Pkgs
  BY <1>1, TopFrame
<1>3. PICK y \in Frames : y = First(q)
  OBVIOUS
<1>4. /\ stack' \in Seq(Frames) /\ Len(stack') = n + 1 /\ stack'[n + 1] = y
      /\ \A i \in 1 .. n : stack'[i] = stack[i]
  <2>1. stack \in Seq(Frames)
    BY DEF TypeOK
  <2> QED
    BY <1>3, <2>1
<1>5. stack' # << >> /\ stack'[1].pkg = Main
  <2>1. 1 \in 1 .. n /\ stack[1].pkg = Main
    BY <1>1, <1>2 DEF Stacked
  <2>2. Len(<< >>) = 0
    OBVIOUS
  <2> QED
    BY <1>2, <1>4, <2>1, <2>2
<1>6. y.pkg = q /\ \A i \in 1 .. n : stack[i].pkg # q
  BY <1>3 DEF OnStack
<1>7. Stacked'
  <2>1. SUFFICES ASSUME NEW i \in 1 .. n + 1, NEW j \in 1 .. n + 1,
                        stack'[i].pkg = stack'[j].pkg
                 PROVE  i = j
    BY <1>4, <1>5 DEF Stacked
  <2>2. CASE i \in 1 .. n /\ j \in 1 .. n
    BY <1>1, <1>4, <2>1, <2>2 DEF Stacked
  <2>3. CASE i = n + 1 /\ j \in 1 .. n
    BY <1>4, <1>6, <2>1, <2>3
  <2>4. CASE j = n + 1 /\ i \in 1 .. n
    BY <1>4, <1>6, <2>1, <2>4
  <2> QED
    BY <1>2, <2>2, <2>3, <2>4
<1>8. OnStack' = OnStack \cup {q}
  BY <1>2, <1>4, <1>6 DEF OnStack
<1>9. ASSUME NEW i \in 1 .. n + 1 PROVE Reached(stack[i])'
  <2>1. CASE i = n + 1
    BY <1>3, <1>4, <2>1 DEF Reached
  <2>2. CASE i \in 1 .. n
    <3>1. PICK x \in Frames : x = stack[i]
      BY <1>2, <2>2
    <3>2. x = stack'[i] /\ x.pkg \in Pkgs \ {q} /\ Reached(x)
      BY <1>2, <1>4, <1>6, <2>2, <3>1 DEF Building1
    <3>3. Reached(x)'
      BY <3>2, ReachedKept
    <3> QED
      BY <3>2, <3>3 DEF Reached
  <2> QED
    BY <1>2, <2>1, <2>2
<1>10. PICK m \in Nat : m = Len(all)
  BY DEF TypeOK
<1>11. ASSUME NEW i \in 1 .. n
       PROVE  /\ Waits(stack[i], stack[i + 1].pkg)'
              /\ Within(b, stack[i].pkg, b[stack[i + 1].pkg])'
  <2>1. PICK x \in Frames, p \in Pkgs : x = stack[i] /\ p = stack[i].pkg
    BY <1>2
  <2>2. x = stack'[i] /\ p = stack'[i].pkg /\ b[p] = at[p]
    BY <1>4, <1>6, <2>1
  <2>3. PICK c \in Pkgs : c = stack'[i + 1].pkg
    <3>1. i + 1 \in 1 .. n \/ i + 1 = n + 1
      BY <1>2
    <3> QED
      BY <1>2, <1>4, <1>6, <3>1
  <2>4. Waits(x, c) /\ Within(at, p, b[c])
    <3>1. CASE i = n
      <4>1. c = q /\ x = Top
        BY <1>2, <1>4, <1>6, <2>1, <2>3, <3>1
      <4> QED
        BY <2>1, <4>1 DEF Building1
    <3>2. CASE i # n
      <4>1. i \in 1 .. n - 1 /\ i + 1 \in 1 .. n
        BY <1>2, <3>2
      <4>2. c = stack[i + 1].pkg /\ b[c] = at[c]
        BY <1>4, <1>6, <2>3, <4>1
      <4> QED
        BY <2>1, <4>1, <4>2 DEF Building1
    <3> QED
      BY <3>1, <3>2
  <2>5. Within(b, p, b[c])'
    <3>1. b[c] \in Nat
      OBVIOUS
    <3> QED
      BY <2>2, <2>4, <3>1, StillBefore
  <2> QED
    BY <2>2, <2>3, <2>4, <2>5 DEF Waits, Within
<1>12. Within(b, Top.pkg, Len(all))'
  <2>1. Top'.pkg = q
    BY <1>4, <1>6 DEF Top
  <2>2. Len(all') <= b[q]
    BY <1>10
  <2> QED
    BY <2>1, <2>2 DEF Within
<1>13. Members(all)' = Members(all)
  BY DEF Members
<1>14. /\ checked' = << >>
       /\ OnStack' \cap Members(all)' = {}
       /\ Members(parsed)' = Members(all)' \cup OnStack'
  BY <1>8, <1>13 DEF Building1
<1>15. Len(stack') = n + 1 /\ Len(stack') - 1 = n
  BY <1>2, <1>4
<1> HIDE DEF n
<1> QED
  BY <1>4, <1>7, <1>9, <1>11, <1>12, <1>14, <1>15 DEF Building1

LEMMA StepDescend ==
  ASSUME NEW at \in [Pkgs -> Nat], Inv(at), Descend
  PROVE  \E b \in [Pkgs -> Nat] : Inv(b)'
<1>1. /\ TypeOK /\ Static(at) /\ Building1(at) /\ Order(at) /\ Building /\ HasUse
      /\ phase = "build" /\ stack # << >>
  BY DEF Inv, Descend, Building, Static
<1>2. PICK q : q = Used
  OBVIOUS
<1>3. Top \in Frames /\ Reached(Top) /\ Waits(Top, q) /\ q \in Pkgs
  BY <1>1, <1>2, UseAtTop, NextEntry
<1>4. q \notin Members(all) /\ q \notin OnStack
  BY <1>2 DEF Descend, Known, Cyclic
<1>5. q \notin Members(parsed) /\ tables[q] = << >>
  BY <1>1, <1>3, <1>4 DEF Building1, Static
<1>6. q # Main
  <2>1. 1 \in 1 .. Len(stack) /\ stack[1].pkg = Main
    BY <1>1, TopFrame DEF Building1, Stacked
  <2> QED
    BY <1>4, <2>1 DEF OnStack
<1>7. /\ stack' = Append(stack, First(q))
      /\ tables' = [tables EXCEPT ![q] = IF uses[q] = << >> THEN << >> ELSE << << >> >>]
      /\ parsed' = Append(parsed, q)
      /\ UNCHANGED <<uses, fault, phase, all, checked>>
  BY <1>2 DEF Descend, Open
<1>8. /\ tables' \in [Pkgs -> Seq(Seq(Imports))]
      /\ SameEntries
      /\ \A a \in Pkgs \ {q} : tables'[a] = tables[a]
      /\ First(q) \in Frames /\ First(q).pkg = q
      /\ Reached(First(q))'
  BY <1>1, <1>3, <1>5, <1>7, Opened
<1>9. PICK b \in [Pkgs -> Nat] : b[q] = Len(all) /\ \A p \in Pkgs \ {q} : b[p] = at[p]
  <2>1. Len(all) \in Nat
    BY <1>1 DEF TypeOK
  <2> DEFINE c == [at EXCEPT ![q] = Len(all)]
  <2>2. c \in [Pkgs -> Nat] /\ c[q] = Len(all) /\ \A p \in Pkgs \ {q} : c[p] = at[p]
    BY <1>3, <2>1
  <2> QED
    BY <2>2
<1>10. \A p \in Pkgs : p \in Members(all) \/ tables[p] # << >> => b[p] = at[p]
  BY <1>4, <1>5, <1>9
<1>11. Order(b)' /\ Grows
  BY <1>1, <1>7, <1>8, <1>10, OrderKept
<1>12. \A p \in Pkgs \ {q} : b[p] = at[p] /\ tables'[p] = tables[p]
  BY <1>8, <1>9
<1>13. Static(b)' /\ Members(parsed)' = Members(parsed) \cup {q}
  BY <1>1, <1>3, <1>5, <1>6, <1>7, <1>11, <1>12, StaticOpened
<1>14. Building1(b)' /\ stack' \in Seq(Frames)
  BY <1>1, <1>3, <1>4, <1>7, <1>8, <1>9, <1>11, <1>12, <1>13, BuildOpened, ZenonT(60)
<1>15. TypeOK'
  <2>1. parsed' \in Seq(Pkgs)
    BY <1>1, <1>3, <1>7 DEF TypeOK
  <2> QED
    BY <1>1, <1>7, <1>8, <1>14, <2>1 DEF TypeOK
<1>16. CheckedOnce' /\ phase' = "build"
  BY <1>1, <1>7 DEF Inv, CheckedOnce, NoRepeats
<1>17. Inv(b)'
  BY <1>13, <1>14, <1>15, <1>16 DEF Inv
<1> QED
  BY <1>17

\* A package whose files are through has all its entries.
LEMMA FilesEnd ==
  ASSUME TypeOK, NEW x \in Frames, Reached(x), ~(x.file <= Len(uses[x.pkg]))
  PROVE  Built(x.pkg)
<1>1. PICK p \in Pkgs, f \in Nat \ {0} : p = x.pkg /\ f = x.file
  BY DEF Frames
<1>2. Len(tables[p]) \in Nat /\ Len(uses[p]) \in Nat
  BY Typed
<1>3. Len(tables[p]) = Len(uses[p])
  BY <1>1 DEF Reached
<1>4. ~(f <= Len(uses[p]))
  BY <1>1
<1>5. \A g \in 1 .. Len(tables[p]) : g < f
  BY <1>2, <1>3, <1>4
<1>6. \A g \in 1 .. Len(tables[p]) : Len(tables[p][g]) = Len(uses[p][g])
  BY <1>1, <1>5 DEF Reached
<1> QED
  BY <1>1, <1>3, <1>6 DEF Built

LEMMA AllEntered ==
  ASSUME TypeOK, NEW p \in Pkgs, Faithful, Built(p), NEW q \in Uses(p)
  PROVE  \E f, k \in Nat : Has(p, f, k) /\ Path(p, f, k) = q
<1>1. PICK f \in 1 .. Len(uses[p]) : q \in Members(uses[p][f])
  BY DEF Uses
<1>2. PICK k \in 1 .. Len(uses[p][f]) : q = uses[p][f][k]
  BY <1>1 DEF Members
<1>3. f \in Nat /\ k \in Nat
  <2>1. Len(uses[p]) \in Nat /\ Len(uses[p][f]) \in Nat
    BY Typed
  <2> QED
    BY <2>1
<1>4. Has(p, f, k)
  BY DEF Has, Built
<1> QED
  BY <1>2, <1>3, <1>4 DEF Faithful

\* What is entered has been built.
LEMMA EntriesBuilt ==
  ASSUME TypeOK, NEW at \in [Pkgs -> Nat], Order(at), NEW p \in Pkgs,
         NEW f \in Nat, NEW k \in Nat, Has(p, f, k)
  PROVE  Path(p, f, k) \in Members(all)
<1>1. PICK q \in Pkgs : q = Path(p, f, k)
  BY Typed DEF Has
<1>2. CASE tables[p][f][k].duplicate
  BY <1>2 DEF Order, Duplicates, Members
<1>3. CASE ~tables[p][f][k].duplicate
  <2>1. New(p, f, k, q)
    BY <1>1, <1>3 DEF New
  <2> QED
    BY <1>1, <2>1 DEF Order, NewBuilt
<1> QED
  BY <1>2, <1>3

LEMMA UsesAppend ==
  ASSUME all \in Seq(Pkgs), UsesFirst, NEW q \in Pkgs, Uses(q) \subseteq Members(all),
         all' = Append(all, q), UNCHANGED uses
  PROVE  UsesFirst'
<1>1. /\ Len(all) \in Nat /\ Len(all') = Len(all) + 1 /\ all'[Len(all) + 1] = q
      /\ \A m \in 1 .. Len(all) : all'[m] = all[m]
  OBVIOUS
<1>2. \A p : Uses(p)' = Uses(p)
  BY DEF Uses, Members
<1>3. \A i \in 1 .. Len(all) + 1 : SubSeq(all', 1, i - 1) = SubSeq(all, 1, i - 1)
  BY <1>1
<1>4. SubSeq(all, 1, Len(all)) = all
  OBVIOUS
<1>5. ASSUME NEW i \in 1 .. Len(all')
      PROVE  Uses(all'[i]) \subseteq Members(SubSeq(all', 1, i - 1))
  <2>1. CASE i \in 1 .. Len(all)
    <3>1. Uses(all[i]) \subseteq Members(SubSeq(all, 1, i - 1))
      BY <2>1 DEF UsesFirst
    <3>2. all'[i] = all[i] /\ SubSeq(all', 1, i - 1) = SubSeq(all, 1, i - 1)
      BY <1>1, <1>3, <2>1
    <3> QED
      BY <3>1, <3>2
  <2>2. CASE i = Len(all) + 1
    <3>1. all'[i] = q /\ i - 1 = Len(all)
      BY <1>1, <2>2
    <3>2. SubSeq(all', 1, i - 1) = all
      BY <1>1, <1>3, <1>4, <2>2, <3>1
    <3> QED
      BY <3>1, <3>2
  <2> QED
    BY <1>1, <2>1, <2>2
<1>6. \A i \in 1 .. Len(all') : Uses(all[i])' = Uses(all'[i])
  BY DEF Uses, Members
<1> QED
  BY <1>5, <1>6 DEF UsesFirst, Members

LEMMA StaticBuilt ==
  ASSUME TypeOK, NEW at \in [Pkgs -> Nat], Static(at), Order(at)',
         NEW p \in Members(parsed), p \notin Members(all),
         NEW q \in Members(parsed), q \notin Members(all), q # p, q # Main, Built(q),
         \A a \in Pkgs \ {p} : tables'[a] = tables[a],
         all' = Append(all, q), UNCHANGED <<uses, parsed>>
  PROVE  Static(at)' /\ Members(all)' = Members(all) \cup {q}
<1>1. /\ all \in Seq(Pkgs) /\ parsed \in Seq(Pkgs) /\ NoRepeats(parsed) /\ NoRepeats(all)
      /\ p \in Pkgs /\ q \in Pkgs
  BY MembersType DEF TypeOK, Static, ParsedOnce
<1>2. NoRepeats(all') /\ Members(all') = Members(all) \cup {q}
  BY <1>1, AppendNew
<1>3. ParsedOnce'
  BY <1>1, <1>2 DEF ParsedOnce, NoRepeats
<1>4. Members(parsed') = Members(parsed)
  BY DEF Members
<1>5. UsesFirst'
  <2>1. ASSUME NEW c \in Uses(q) PROVE c \in Members(all)
    <3>1. Faithful /\ Order(at)
      BY DEF Static, Order
    <3>2. PICK f \in Nat, k \in Nat : Has(q, f, k) /\ Path(q, f, k) = c
      BY <1>1, <3>1, AllEntered
    <3> QED
      BY <1>1, <3>1, <3>2, EntriesBuilt
  <2>2. UsesFirst
    BY DEF Static
  <2> QED
    BY <1>1, <2>1, <2>2, UsesAppend
<1>6. Main \notin Members(all') /\ at[Main] = 0
  BY <1>2 DEF Static
<1>7. \A a \in Pkgs \ Members(parsed') : tables'[a] = << >>
  BY <1>4 DEF Static
<1>8. ASSUME NEW a \in Members(all') PROVE a \in Members(parsed') /\ Built(a)'
  <2>1. a \in Members(parsed) /\ Built(a) /\ a # p /\ a \in Pkgs
    <3>1. CASE a = q
      BY <1>1, <3>1
    <3>2. CASE a \in Members(all)
      <4>1. a \in Pkgs /\ a # p
        BY <1>1, <3>2, MembersType
      <4> QED
        BY <3>2, <4>1 DEF Static
    <3>3. a = q \/ a \in Members(all)
      BY <1>2, <1>8
    <3> QED
      BY <3>1, <3>2, <3>3
  <2>2. tables'[a] = tables[a]
    BY <2>1
  <2> QED
    BY <1>4, <2>1, <2>2 DEF Built
<1> QED
  BY <1>2, <1>3, <1>5, <1>6, <1>7, <1>8 DEF Static, Members

\* The package on top is built, and its user goes on as frame y.
LEMMA BuildGoesOn ==
  ASSUME TypeOK, NEW at \in [Pkgs -> Nat], Building1(at), Grows, Len(stack) > 1,
         NEW y \in Frames, y.pkg = stack[Len(stack) - 1].pkg, Reached(y)', Within(at, y.pkg, Len(all))',
         stack' \in Seq(Frames), Len(stack') = Len(stack) - 1, stack'[Len(stack) - 1] = y,
         \A i \in 1 .. Len(stack) - 2 : stack'[i] = stack[i],
         \A a \in Pkgs \ {y.pkg} : tables'[a] = tables[a],
         Members(all)' = Members(all) \cup {Top.pkg},
         UNCHANGED <<uses, parsed, checked>>
  PROVE  Building1(at)'
<1> DEFINE n == Len(stack) - 1
<1>1. stack # << >> /\ Stacked
  BY DEF Building1, Stacked
<1>2. /\ n \in Nat /\ n \in 1 .. n /\ n + 1 = Len(stack) /\ Top = stack[n + 1]
      /\ \A i \in 1 .. n + 1 : stack[i] \in Frames /\ stack[i].pkg \in Pkgs
  BY <1>1, TopFrame
<1>3. \A i \in 1 .. n : stack'[i].pkg = stack[i].pkg
  <2>1. \A i \in 1 .. n : i = n \/ i \in 1 .. Len(stack) - 2
    BY <1>2
  <2> QED
    BY <2>1
<1>4. stack' # << >>
  BY <1>2
<1>5. Stacked'
  BY <1>1, <1>2, <1>3, <1>4, SMTT(30) DEF Stacked
<1>6. OnStack = OnStack' \cup {Top.pkg} /\ Top.pkg \notin OnStack'
  <2>1. OnStack' = {stack[i].pkg : i \in 1 .. n}
    BY <1>3 DEF OnStack
  <2>2. \A i \in 1 .. n : stack[i].pkg # Top.pkg
    <3>1. \A i \in 1 .. n : i \in 1 .. Len(stack) /\ i # n + 1
      BY <1>2
    <3>2. n + 1 \in 1 .. Len(stack)
      BY <1>2
    <3> QED
      BY <1>1, <1>2, <3>1, <3>2 DEF Stacked
  <2>3. 1 .. Len(stack) = 1 .. n \cup {n + 1}
    BY <1>2
  <2>4. OnStack = {stack[i].pkg : i \in 1 .. n \cup {n + 1}}
    BY <2>3 DEF OnStack
  <2>5. Top.pkg = stack[n + 1].pkg
    BY <1>2
  <2>6. {stack[i].pkg : i \in 1 .. n \cup {n + 1}}
          = {stack[i].pkg : i \in 1 .. n} \cup {stack[n + 1].pkg}
    OBVIOUS
  <2>7. Top.pkg \notin {stack[i].pkg : i \in 1 .. n}
    BY <2>2
  <2> QED
    BY <2>1, <2>4, <2>5, <2>6, <2>7
<1>7. Top' = y
  BY DEF Top
<1>8. ASSUME NEW i \in 1 .. n PROVE Reached(stack[i])'
  <2>1. CASE i = n
    BY <2>1 DEF Reached
  <2>2. CASE i # n
    <3>1. i \in 1 .. Len(stack) - 2 /\ i \in 1 .. Len(stack) /\ n \in 1 .. Len(stack)
      BY <1>2, <2>2
    <3>2. stack'[i] = stack[i] /\ stack[i].pkg # y.pkg
      BY <1>1, <2>2, <3>1 DEF Stacked
    <3>3. PICK x \in Frames : x = stack[i]
      BY <1>2, <3>1
    <3>4. Reached(x) /\ tables'[x.pkg] = tables[x.pkg]
      BY <1>2, <3>1, <3>2, <3>3 DEF Building1
    <3>5. Reached(x)'
      BY <3>4, ReachedKept
    <3> QED
      BY <3>2, <3>3, <3>5 DEF Reached
  <2> QED
    BY <2>1, <2>2
<1>9. ASSUME NEW i \in 1 .. n - 1
      PROVE  /\ Waits(stack[i], stack[i + 1].pkg)'
             /\ Within(at, stack[i].pkg, at[stack[i + 1].pkg])'
  <2>1. i \in 1 .. n /\ i + 1 \in 1 .. n /\ i \in 1 .. Len(stack) - 2 /\ i \in 1 .. Len(stack) - 1
        /\ i \in 1 .. n + 1 /\ i + 1 \in 1 .. n + 1
    BY <1>2
  <2>2. PICK x \in Frames, p \in Pkgs, q \in Pkgs :
          x = stack[i] /\ p = stack[i].pkg /\ q = stack[i + 1].pkg
    BY <1>2, <2>1
  <2>3. Waits(x, q) /\ Within(at, p, at[q])
    BY <2>1, <2>2 DEF Building1
  <2>4. x = stack'[i] /\ p = stack'[i].pkg /\ q = stack'[i + 1].pkg
    BY <1>3, <2>1, <2>2
  <2>5. Within(at, p, at[q])'
    BY <2>3, StillBefore
  <2> QED
    BY <2>3, <2>4, <2>5 DEF Waits, Within
<1>10. Within(at, Top.pkg, Len(all))'
  BY <1>7 DEF Within
<1>11. Members(parsed)' = Members(parsed)
  BY DEF Members
<1>12. /\ checked' = << >>
       /\ OnStack' \cap Members(all)' = {}
       /\ Members(parsed)' = Members(all)' \cup OnStack'
  BY <1>6, <1>11 DEF Building1
<1>13. Len(stack') = n
  OBVIOUS
<1> HIDE DEF n
<1> QED
  BY <1>5, <1>8, <1>9, <1>10, <1>12, <1>13 DEF Building1

LEMMA StepPackageBuilt ==
  ASSUME NEW at \in [Pkgs -> Nat], Inv(at), PackageBuilt
  PROVE  Inv(at)'
<1>1. /\ TypeOK /\ Static(at) /\ Building1(at) /\ Order(at) /\ Stacked
      /\ phase = "build" /\ stack # << >> /\ ~InFile /\ Len(stack) > 1
  BY DEF Inv, PackageBuilt, Building, Static, Building1
<1> DEFINE n == Len(stack) - 1
<1>2. /\ n \in Nat /\ n \in 1 .. n /\ n + 1 = Len(stack) /\ Top = stack[n + 1]
      /\ n \in 1 .. Len(stack) /\ n + 1 \in 1 .. Len(stack) /\ n \in 1 .. Len(stack) - 1
      /\ \A i \in 1 .. Len(stack) : stack[i] \in Frames /\ stack[i].pkg \in OnStack
  BY <1>1, TopFrame
<1>3. PICK x \in Frames, u \in Frames : x = Top /\ u = stack[n]
  BY <1>2
<1>4. PICK p \in Pkgs, q \in Pkgs, f \in Nat, k \in Nat :
        p = u.pkg /\ f = u.file /\ k = u.use /\ q = x.pkg
  BY DEF Frames
<1>5. /\ Reached(u) /\ Waits(u, q) /\ Reached(x)
      /\ Within(at, p, at[q]) /\ Within(at, q, Len(all))
  BY <1>1, <1>2, <1>3, <1>4 DEF Building1
<1>6. /\ f \in 1 .. Len(tables[p]) /\ Len(tables[p][f]) + 1 = k
      /\ f <= Len(uses[p]) /\ k <= Len(uses[p][f]) /\ uses[p][f][k] = q
      /\ \A g, l \in Nat : Has(p, g, l) => Earlier(g, l, f, k)
  BY <1>1, <1>4, <1>5, NextEntry
<1>7. /\ p \in OnStack /\ q \in OnStack /\ p \notin Members(all) /\ q \notin Members(all)
      /\ p \in Members(parsed) /\ q \in Members(parsed)
  BY <1>1, <1>2, <1>3, <1>4 DEF Building1
<1>8. q # p /\ q # Main
  <2>1. n # n + 1 /\ 1 # n + 1 /\ 1 \in 1 .. Len(stack)
    <3> HIDE DEF n
    <3> QED
      BY <1>2
  <2> QED
    BY <1>1, <1>2, <1>3, <1>4, <2>1 DEF Stacked
<1>9. /\ tables' = Import(p, f, q, FALSE) /\ stack' = AdvanceUse(Below)
      /\ all' = Append(all, q)
      /\ UNCHANGED <<uses, fault, phase, parsed, checked>>
  BY <1>3, <1>4, <1>7 DEF PackageBuilt, Imported
<1>10. tables' \in [Pkgs -> Seq(Seq(Imports))] /\ Entered(p, f, k, q, FALSE)
  BY <1>1, <1>6, <1>9, ImportEnters
<1>11. Order(at)' /\ Grows /\ Within(at, p, Len(all))'
  BY <1>1, <1>5, <1>6, <1>7, <1>9, <1>10, BuiltOrder
<1>12. \A a \in Pkgs \ {p} : tables'[a] = tables[a]
  BY <1>10 DEF Entered
<1>13. Built(q)
  BY <1>1, <1>3, <1>4, <1>5, FilesEnd DEF InFile
<1>14. Static(at)' /\ Members(all)' = Members(all) \cup {q}
  BY <1>1, <1>7, <1>8, <1>9, <1>11, <1>12, <1>13, StaticBuilt
<1>15. PICK y \in Frames : y.pkg = u.pkg /\ y.file = u.file /\ y.use = u.use + 1
  <2>1. [pkg |-> p, file |-> f, use |-> k + 1] \in Frames
    BY <1>4 DEF Frames
  <2> QED
    BY <1>4, <2>1
<1>16. Reached(y)'
  BY <1>1, <1>4, <1>5, <1>9, <1>10, <1>15, EntryReached
<1>17. /\ stack' \in Seq(Frames) /\ Len(stack') = n /\ stack'[n] = y
       /\ \A i \in 1 .. Len(stack) - 2 : stack'[i] = stack[i]
  <2>1. /\ Below \in Seq(Frames) /\ Below # << >> /\ Len(Below) = n
        /\ \A i \in 1 .. n : Below[i] = stack[i]
    BY <1>1, BelowTop DEF TypeOK, Below
  <2>2. /\ stack' \in Seq(Frames) /\ Len(stack') = n
        /\ stack'[n] = [pkg |-> u.pkg, file |-> u.file, use |-> u.use + 1]
        /\ \A i \in 1 .. n - 1 : stack'[i] = Below[i]
    <3>1. PICK r \in Seq(Frames) : r = Below
      BY <2>1
    <3>2. r # << >> /\ Len(r) = n /\ r[n] = u /\ stack' = AdvanceUse(r)
      BY <1>2, <1>3, <1>9, <2>1, <3>1
    <3> HIDE DEF n
    <3> QED
      BY <3>1, <3>2, Advanced
  <2>3. y = [pkg |-> u.pkg, file |-> u.file, use |-> u.use + 1]
    BY <1>15 DEF Frames
  <2> QED
    BY <1>2, <2>1, <2>2, <2>3
<1>18. Building1(at)'
  <2>1. y.pkg = stack[Len(stack) - 1].pkg /\ y.pkg = p /\ q = Top.pkg
    BY <1>3, <1>4, <1>15
  <2>2. Within(at, y.pkg, Len(all))'
    BY <1>11, <2>1
  <2> QED
    BY <1>1, <1>9, <1>11, <1>12, <1>14, <1>16, <1>17, <2>1, <2>2, BuildGoesOn
<1>19. TypeOK'
  <2>1. all' \in Seq(Pkgs)
    BY <1>1, <1>9 DEF TypeOK
  <2> QED
    BY <1>1, <1>9, <1>10, <1>17, <2>1 DEF TypeOK
<1>20. CheckedOnce' /\ phase' = "build"
  BY <1>1, <1>9 DEF Inv, CheckedOnce, NoRepeats
<1> QED
  BY <1>14, <1>18, <1>19, <1>20 DEF Inv

-----------------------------------------------------------------------------
(* Checking *)

\* From here on nothing of the static part changes.
LEMMA StaticSame ==
  ASSUME TypeOK, NEW at \in [Pkgs -> Nat], Static(at),
         UNCHANGED <<uses, tables, all, parsed>>
  PROVE  Static(at)'
<1>1. SameEntries
  BY DEF SameEntries, Has
<1>2. Order(at)'
  <2>1. Order(at)
    BY DEF Static
  <2> QED
    BY <1>1, <2>1, OrderKept
<1>3. \A a \in Pkgs \ Members(parsed)' : tables'[a] = << >>
  BY ListsKept DEF Static
<1>4. \A a \in Members(all)' : a \in Members(parsed)' /\ Built(a)'
  BY ListsKept DEF Static, Built
<1>5. Main \notin Members(all)' /\ at[Main] = 0
  BY ListsKept DEF Static
<1>6. ParsedOnce' /\ UsesFirst'
  BY ListsKept DEF Static
<1> QED
  BY <1>2, <1>3, <1>4, <1>5, <1>6 DEF Static

\* What is done stays done.
LEMMA StillDone ==
  ASSUME TypeOK, NEW at \in [Pkgs -> Nat], UNCHANGED <<tables, all>>,
         Members(checked) \subseteq Members(checked)'
  PROVE  /\ \A j : Done(j) => Done(j)'
         /\ \A x : FrameDone(at, x) => FrameDone(at, x)'
<1>1. ASSUME NEW j, Done(j) PROVE Done(j)'
  BY <1>1 DEF Done
<1>2. ASSUME NEW x, FrameDone(at, x) PROVE FrameDone(at, x)'
  <2>1. Done(at[x.pkg])'
    BY <1>1, <1>2 DEF FrameDone
  <2>2. ASSUME NEW g \in Nat, NEW l \in Nat, NEW m \in 1 .. Len(all'), NEW q \in Pkgs,
               all'[m] = q, New(x.pkg, g, l, q)', Earlier(g, l, x.file, x.use)
        PROVE  Done(m)'
    <3>1. New(x.pkg, g, l, q)
      BY <2>2 DEF New, Has, Path
    <3>2. Done(m)
      BY <1>2, <2>2, <3>1 DEF FrameDone
    <3> QED
      BY <1>1, <3>2
  <2> QED
    BY <2>1, <2>2 DEF FrameDone, Earlier
<1> QED
  BY <1>1, <1>2

LEMMA FewerDone ==
  ASSUME NEW j, NEW i, Done(j), \A m \in 1 .. Len(all) : m <= i => m <= j
  PROVE  Done(i)
BY DEF Done

\* What was built before the entry at hand is checked, ...
LEMMA BeforeDone ==
  ASSUME TypeOK, NEW at \in [Pkgs -> Nat], NEW x \in Frames, FrameDone(at, x),
         NEW j \in Nat, Before(at, x.pkg, x.file, x.use, j)
  PROVE  Done(j)
<1>1. x.pkg \in Pkgs /\ Len(all) \in Nat
  BY DEF Frames, TypeOK
<1>2. CASE j <= at[x.pkg]
  <2>1. Done(at[x.pkg]) /\ at[x.pkg] \in Nat
    BY <1>1 DEF FrameDone
  <2>2. \A m \in 1 .. Len(all) : m <= j => m <= at[x.pkg]
    BY <1>1, <1>2, <2>1
  <2> QED
    BY <2>1, <2>2, FewerDone
<1>3. CASE \E g, l \in Nat, m \in 1 .. Len(all), q \in Pkgs :
             j <= m /\ all[m] = q /\ New(x.pkg, g, l, q) /\ Earlier(g, l, x.file, x.use)
  <2>1. PICK g \in Nat, l \in Nat, m \in 1 .. Len(all), q \in Pkgs :
             j <= m /\ all[m] = q /\ New(x.pkg, g, l, q) /\ Earlier(g, l, x.file, x.use)
    BY <1>3
  <2>2. Done(m)
    BY <2>1 DEF FrameDone
  <2>3. \A i \in 1 .. Len(all) : i <= j => i <= m
    BY <1>1, <2>1
  <2> QED
    BY <2>2, <2>3, FewerDone
<1> QED
  BY <1>2, <1>3 DEF Before

\* ... and what was built by the end of a package whose entries are through.
LEMMA WithinDone ==
  ASSUME TypeOK, NEW at \in [Pkgs -> Nat], NEW x \in Frames, FrameDone(at, x),
         ~(x.file <= Len(tables[x.pkg])), NEW j \in Nat, Within(at, x.pkg, j)
  PROVE  Done(j)
<1>1. Before(at, x.pkg, x.file, x.use, j)
  <2>1. \A g, l \in Nat : Has(x.pkg, g, l) => Earlier(g, l, x.file, x.use)
    <3>1. x.pkg \in Pkgs /\ x.file \in Nat
      BY DEF Frames
    <3>2. Len(tables[x.pkg]) \in Nat
      BY <3>1, Typed
    <3> QED
      BY <3>1, <3>2 DEF Has, Earlier
  <2>2. x.pkg \in Pkgs /\ x.file \in Nat /\ x.use \in Nat
    BY DEF Frames
  <2> QED
    BY <2>1, <2>2, WithinBefore
<1> QED
  BY <1>1, BeforeDone

\* The import at hand is past when its package is checked, or has no files.
LEMMA PastEntry ==
  ASSUME TypeOK, NEW at \in [Pkgs -> Nat], Static(at), NEW x \in Frames, FrameDone(at, x),
         NEW y \in Frames, y.pkg = x.pkg, y.file = x.file, y.use = x.use + 1,
         \A q \in Pkgs : New(x.pkg, x.file, x.use, q) => tables[q] = << >>
  PROVE  FrameDone(at, y)
<1>1. x.pkg \in Pkgs /\ x.file \in Nat /\ x.use \in Nat /\ Len(all) \in Nat
  BY DEF Frames, TypeOK
<1>2. Done(at[y.pkg])
  BY DEF FrameDone
<1>3. ASSUME NEW g \in Nat, NEW l \in Nat, NEW m \in 1 .. Len(all), NEW q \in Pkgs,
             all[m] = q, New(y.pkg, g, l, q), Earlier(g, l, y.file, y.use)
      PROVE  Done(m)
  <2>1. CASE Earlier(g, l, x.file, x.use)
    BY <1>3, <2>1 DEF FrameDone
  <2>2. CASE g = x.file /\ l = x.use
    <3>1. New(x.pkg, x.file, x.use, q) /\ tables[q] = << >>
      BY <1>3, <2>2
    <3>2. \A g2, l2 \in Nat, q2 \in Pkgs : ~New(q, g2, l2, q2)
      <4>1. Len(<< >>) = 0
        OBVIOUS
      <4> QED
        BY <3>1, <4>1 DEF New, Has
    <3>3. Within(at, q, m - 1)
      BY <1>3 DEF Static, Order, Endings
    <3>4. m - 1 <= at[q] /\ at[q] \in Nat
      BY <3>2, <3>3 DEF Within
    <3>5. Before(at, x.pkg, x.file, x.use, at[q])
      BY <1>1, <3>1 DEF Static, Order, Openings
    <3>6. Done(at[q])
      BY <3>4, <3>5, BeforeDone
    <3>7. ASSUME NEW i \in 1 .. Len(all), i <= m, tables[all[i]] # << >>
          PROVE  all[i] \in Members(checked)
      <4>1. i # m
        BY <1>3, <3>1, <3>7
      <4>2. i <= at[q]
        BY <1>1, <3>4, <3>7, <4>1
      <4> QED
        BY <3>6, <3>7, <4>2 DEF Done
    <3> QED
      BY <3>7 DEF Done
  <2>3. Earlier(g, l, x.file, x.use) \/ (g = x.file /\ l = x.use)
    BY <1>1, <1>3 DEF Earlier
  <2> QED
    BY <2>1, <2>2, <2>3
<1> QED
  BY <1>2, <1>3 DEF FrameDone

LEMMA StillNew ==
  ASSUME UNCHANGED tables, NEW p, NEW f, NEW k, NEW q, New(p, f, k, q)
  PROVE  New(p, f, k, q)'
BY DEF New, Has, Path

\* The package on top goes on as frame y.
LEMMA CheckMovesOn ==
  ASSUME TypeOK, NEW at \in [Pkgs -> Nat], Checking1(at),
         NEW y \in Frames, y.pkg = Top.pkg, FrameDone(at, y),
         \A g, l \in Nat : Earlier(g, l, Top.file, Top.use) => Earlier(g, l, y.file, y.use),
         Len(stack') = Len(stack), stack'[Len(stack)] = y,
         \A i \in 1 .. Len(stack) - 1 : stack'[i] = stack[i],
         UNCHANGED <<uses, tables, all, parsed, checked>>
  PROVE  Checking1(at)'
<1> DEFINE n == Len(stack)
<1>1. stack # << >> /\ Stacked
  BY DEF Checking1, Stacked
<1>2. /\ n \in Nat /\ n \in 1 .. n /\ Top = stack[n]
      /\ \A i \in 1 .. n : stack[i] \in Frames /\ stack[i].pkg \in Pkgs
  BY <1>1, TopFrame
<1>3. \A i \in 1 .. n : stack'[i].pkg = stack[i].pkg
  BY <1>2
<1>4. stack' # << >>
  BY <1>2
<1>5. Stacked'
  BY <1>1, <1>2, <1>3, <1>4 DEF Stacked
<1>6. OnStack' = OnStack
  BY <1>2, <1>3 DEF OnStack
<1>7. Members(all)' = Members(all) /\ Members(checked)' = Members(checked)
  BY DEF Members
<1>8. /\ OnStack' \subseteq Members(all)' \cup {Main}
      /\ OnStack' \cap Members(checked)' = {}
  BY <1>6, <1>7 DEF Checking1
<1>9. Built(Main)'
  BY DEF Checking1, Built
<1>10. ASSUME NEW i \in 1 .. n - 1
       PROVE  New(stack[i].pkg, stack[i].file, stack[i].use, stack[i + 1].pkg)'
  <2>1. i \in 1 .. n /\ i + 1 \in 1 .. n
    BY <1>2
  <2>2. stack'[i] = stack[i] /\ stack'[i + 1].pkg = stack[i + 1].pkg
    BY <1>3, <2>1
  <2>3. New(stack[i].pkg, stack[i].file, stack[i].use, stack[i + 1].pkg)
    BY DEF Checking1
  <2> QED
    BY <2>2, <2>3 DEF New, Has, Path
<1>11. ASSUME NEW q \in Members(checked') PROVE Passed(q)'
  <2>1. Passed(q)
    BY <1>7, <1>11 DEF Checking1
  <2>2. PICK p \in Pkgs, f \in Nat, k \in Nat :
          /\ New(p, f, k, q)
          /\ \/ p \in Members(checked)
             \/ \E i \in 1 .. n :
                  stack[i].pkg = p /\ Earlier(f, k, stack[i].file, stack[i].use)
    BY <2>1 DEF Passed
  <2>3. New(p, f, k, q)'
    BY <2>2, StillNew
  <2>4. ASSUME NEW i \in 1 .. n, stack[i].pkg = p, Earlier(f, k, stack[i].file, stack[i].use)
        PROVE  stack'[i].pkg = p /\ Earlier(f, k, stack'[i].file, stack'[i].use)
    <3>1. CASE i = n
      BY <1>2, <1>3, <2>4, <3>1
    <3>2. CASE i # n
      BY <1>2, <2>4, <3>2
    <3> QED
      BY <3>1, <3>2
  <2> QED
    BY <1>7, <2>2, <2>3, <2>4 DEF Passed, Earlier
<1>12. ASSUME NEW i \in 1 .. n PROVE FrameDone(at, stack[i])'
  <2>1. PICK x \in Frames : x = stack'[i] /\ FrameDone(at, x)
    <3>1. CASE i = n
      BY <3>1
    <3>2. CASE i # n
      BY <1>2, <3>2 DEF Checking1
    <3> QED
      BY <3>1, <3>2
  <2>2. FrameDone(at, x)'
    BY <1>7, <2>1, StillDone
  <2> QED
    BY <2>1, <2>2 DEF FrameDone, New, Has, Path
<1> HIDE DEF n
<1> QED
  BY <1>5, <1>8, <1>9, <1>10, <1>11, <1>12 DEF Checking1, n

\* A package that was entered as new is opened.
LEMMA CheckOpens ==
  ASSUME TypeOK, NEW at \in [Pkgs -> Nat], Static(at), Checking1(at),
         NEW q \in Pkgs, New(Top.pkg, Top.file, Top.use, q),
         stack' = Append(stack, First(q)),
         UNCHANGED <<uses, tables, all, parsed, checked>>
  PROVE  Checking1(at)' /\ stack' \in Seq(Frames)
<1> DEFINE n == Len(stack)
<1>1. stack # << >> /\ Stacked
  BY DEF Checking1, Stacked
<1>2. /\ n \in Nat /\ n \in 1 .. n /\ Top = stack[n] /\ Top \in Frames
      /\ Top.pkg \in Pkgs /\ Top.file \in Nat /\ Top.use \in Nat
      /\ \A i \in 1 .. n : stack[i] \in Frames /\ stack[i].pkg \in Pkgs
  BY <1>1, TopFrame
<1>3. PICK y \in Frames : y = First(q) /\ y.pkg = q /\ y.file = 1 /\ y.use = 1
  BY DEF First, Frames
<1>4. /\ stack' \in Seq(Frames) /\ Len(stack') = n + 1 /\ stack'[n + 1] = y
      /\ \A i \in 1 .. n : stack'[i] = stack[i]
  <2>1. stack \in Seq(Frames)
    BY DEF TypeOK
  <2> QED
    BY <1>3, <2>1
<1>5. stack' # << >> /\ stack'[1].pkg = Main
  <2>1. 1 \in 1 .. n /\ stack[1].pkg = Main
    BY <1>1, <1>2 DEF Stacked
  <2>2. Len(<< >>) = 0
    OBVIOUS
  <2> QED
    BY <1>2, <1>4, <2>1, <2>2
<1>6. q \in Members(all) /\ q # Main /\ Single
  BY <1>2 DEF Static, Order, NewBuilt
<1>7. \A i \in 1 .. n : stack[i].pkg # q
  <2>1. SUFFICES ASSUME NEW i \in 1 .. n, stack[i].pkg = q PROVE FALSE
    OBVIOUS
  <2>2. i # 1
    BY <1>1, <1>6, <2>1 DEF Stacked
  <2>3. i - 1 \in 1 .. n - 1 /\ (i - 1) + 1 = i /\ i - 1 \in 1 .. n /\ i - 1 # n
    BY <1>2, <2>2
  <2>4. New(stack[i - 1].pkg, stack[i - 1].file, stack[i - 1].use, q)
    BY <2>1, <2>3 DEF Checking1
  <2>5. PICK x \in Frames : x = stack[i - 1]
    BY <1>2, <2>3
  <2>6. x.pkg \in Pkgs /\ x.file \in Nat /\ x.use \in Nat /\ New(x.pkg, x.file, x.use, q)
    BY <2>4, <2>5 DEF Frames
  <2>7. x.pkg = Top.pkg
    BY <1>2, <1>6, <2>6 DEF Single
  <2> QED
    BY <1>1, <1>2, <2>3, <2>5, <2>7 DEF Stacked
<1>8. q \notin Members(checked)
  <2>1. SUFFICES ASSUME q \in Members(checked) PROVE FALSE
    OBVIOUS
  <2>2. Passed(q)
    BY <2>1 DEF Checking1
  <2>3. PICK p \in Pkgs, f \in Nat, k \in Nat :
          /\ New(p, f, k, q)
          /\ \/ p \in Members(checked)
             \/ \E i \in 1 .. n :
                  stack[i].pkg = p /\ Earlier(f, k, stack[i].file, stack[i].use)
    BY <2>2 DEF Passed
  <2>4. p = Top.pkg /\ f = Top.file /\ k = Top.use
    BY <1>2, <1>6, <2>3 DEF Single
  <2>5. p \notin Members(checked)
    BY <1>2, <2>4 DEF Checking1, OnStack
  <2>6. PICK i \in 1 .. n : stack[i].pkg = p /\ Earlier(f, k, stack[i].file, stack[i].use)
    BY <2>3, <2>5
  <2>7. i = n
    BY <1>1, <1>2, <2>4, <2>6 DEF Stacked
  <2>8. Earlier(f, k, f, k)
    BY <1>2, <2>4, <2>6, <2>7
  <2> QED
    BY <2>8 DEF Earlier
<1>9. Stacked'
  <2>1. SUFFICES ASSUME NEW i \in 1 .. n + 1, NEW j \in 1 .. n + 1,
                        stack'[i].pkg = stack'[j].pkg
                 PROVE  i = j
    BY <1>4, <1>5 DEF Stacked
  <2>2. CASE i \in 1 .. n /\ j \in 1 .. n
    BY <1>1, <1>4, <2>1, <2>2 DEF Stacked
  <2>3. CASE i = n + 1 /\ j \in 1 .. n
    BY <1>3, <1>4, <1>7, <2>1, <2>3
  <2>4. CASE j = n + 1 /\ i \in 1 .. n
    BY <1>3, <1>4, <1>7, <2>1, <2>4
  <2> QED
    BY <1>2, <2>2, <2>3, <2>4
<1>10. OnStack' = OnStack \cup {q}
  BY <1>2, <1>3, <1>4 DEF OnStack
<1>11. Members(all)' = Members(all) /\ Members(checked)' = Members(checked)
  BY DEF Members
<1>12. /\ OnStack' \subseteq Members(all)' \cup {Main}
       /\ OnStack' \cap Members(checked)' = {}
  BY <1>6, <1>8, <1>10, <1>11 DEF Checking1
<1>13. Built(Main)'
  BY DEF Checking1, Built
<1>14. ASSUME NEW i \in 1 .. n
       PROVE  New(stack[i].pkg, stack[i].file, stack[i].use, stack[i + 1].pkg)'
  <2>1. New(stack'[i].pkg, stack'[i].file, stack'[i].use, stack'[i + 1].pkg)
    <3>1. CASE i = n
      BY <1>2, <1>3, <1>4, <3>1
    <3>2. CASE i # n
      <4>1. i \in 1 .. n - 1 /\ i + 1 \in 1 .. n
        BY <1>2, <3>2
      <4> QED
        BY <1>4, <4>1 DEF Checking1
    <3> QED
      BY <3>1, <3>2
  <2> QED
    BY <2>1 DEF New, Has, Path
<1>15. ASSUME NEW r \in Members(checked') PROVE Passed(r)'
  <2>1. Passed(r)
    BY <1>11, <1>15 DEF Checking1
  <2>2. PICK p \in Pkgs, f \in Nat, k \in Nat :
          /\ New(p, f, k, r)
          /\ \/ p \in Members(checked)
             \/ \E i \in 1 .. n :
                  stack[i].pkg = p /\ Earlier(f, k, stack[i].file, stack[i].use)
    BY <2>1 DEF Passed
  <2>3. New(p, f, k, r)'
    BY <2>2, StillNew
  <2>4. \A i \in 1 .. n : i \in 1 .. Len(stack') /\ stack'[i] = stack[i]
    BY <1>2, <1>4
  <2> QED
    BY <1>11, <2>2, <2>3, <2>4 DEF Passed, Earlier
<1>16. FrameDone(at, y)
  <2>1. \A g, l \in Nat : Has(q, g, l) => ~Earlier(g, l, 1, 1)
    BY DEF Has, Earlier
  <2>2. Before(at, Top.pkg, Top.file, Top.use, at[q])
    BY <1>2 DEF Static, Order, Openings
  <2>3. FrameDone(at, Top)
    BY <1>2 DEF Checking1
  <2>4. Done(at[q])
    BY <1>2, <2>2, <2>3, BeforeDone
  <2> QED
    BY <1>3, <2>1, <2>4 DEF FrameDone, New
<1>17. ASSUME NEW i \in 1 .. n + 1 PROVE FrameDone(at, stack[i])'
  <2>1. PICK x \in Frames : x = stack'[i] /\ FrameDone(at, x)
    <3>1. CASE i = n + 1
      BY <1>4, <1>16, <3>1
    <3>2. CASE i # n + 1
      <4>1. i \in 1 .. n
        BY <1>2, <3>2
      <4> QED
        BY <1>2, <1>4, <4>1 DEF Checking1
    <3> QED
      BY <3>1, <3>2
  <2>2. FrameDone(at, x)'
    BY <1>11, <2>1, StillDone
  <2> QED
    BY <2>1, <2>2 DEF FrameDone, New, Has, Path
<1>18. Len(stack') = n + 1 /\ Len(stack') - 1 = n
  BY <1>2, <1>4
<1> HIDE DEF n
<1> QED
  BY <1>4, <1>9, <1>12, <1>13, <1>14, <1>15, <1>17, <1>18 DEF Checking1

\* The import at hand is past when its package q has been checked.
LEMMA PastChecked ==
  ASSUME TypeOK, NEW at \in [Pkgs -> Nat], Static(at),
         NEW x \in Frames, FrameDone(at, x), ~(x.file <= Len(tables[x.pkg])),
         NEW u \in Frames, FrameDone(at, u), New(u.pkg, u.file, u.use, x.pkg),
         NEW y \in Frames, y.pkg = u.pkg, y.file = u.file, y.use = u.use + 1,
         UNCHANGED <<tables, all>>, Members(checked)' = Members(checked) \cup {x.pkg}
  PROVE  FrameDone(at, y)'
<1>1. u.pkg \in Pkgs /\ u.file \in Nat /\ u.use \in Nat /\ Len(all) \in Nat /\ x.pkg \in Pkgs
  BY DEF Frames, TypeOK
<1>2. FrameDone(at, u)' /\ \A j : Done(j) => Done(j)'
  BY StillDone
<1>3. Done(at[y.pkg])'
  BY <1>2 DEF FrameDone
<1>4. ASSUME NEW g \in Nat, NEW l \in Nat, NEW m \in 1 .. Len(all'), NEW q \in Pkgs,
             all'[m] = q, New(y.pkg, g, l, q)', Earlier(g, l, y.file, y.use)
      PROVE  Done(m)'
  <2>1. New(u.pkg, g, l, q) /\ all[m] = q /\ m \in 1 .. Len(all)
    BY <1>4 DEF New, Has, Path
  <2>2. CASE Earlier(g, l, u.file, u.use)
    BY <1>2, <2>1, <2>2 DEF FrameDone
  <2>3. CASE g = u.file /\ l = u.use
    <3>1. q = x.pkg
      BY <2>1, <2>3 DEF New
    <3>2. Within(at, q, m - 1) /\ m - 1 \in Nat
      BY <1>1, <2>1 DEF Static, Order, Endings
    <3>3. Done(m - 1)
      BY <3>1, <3>2, WithinDone
    <3>4. ASSUME NEW i \in 1 .. Len(all'), i <= m, tables'[all'[i]] # << >>
          PROVE  all'[i] \in Members(checked)'
      <4>1. CASE i = m
        BY <2>1, <3>1, <4>1
      <4>2. CASE i # m
        <5>1. i <= m - 1
          BY <1>1, <2>1, <3>4, <4>2
        <5> QED
          BY <3>3, <3>4, <5>1 DEF Done
      <4> QED
        BY <4>1, <4>2
    <3> QED
      BY <3>4 DEF Done
  <2>4. Earlier(g, l, u.file, u.use) \/ (g = u.file /\ l = u.use)
    BY <1>1, <1>4 DEF Earlier
  <2> QED
    BY <2>2, <2>3, <2>4
<1> QED
  BY <1>3, <1>4 DEF FrameDone, Earlier

\* The package on top is checked, and its user goes on as frame y.
LEMMA CheckReturns ==
  ASSUME TypeOK, NEW at \in [Pkgs -> Nat], Static(at), Checking1(at), Len(stack) > 1,
         ~(Top.file <= Len(tables[Top.pkg])),
         NEW u \in Frames, u = stack[Len(stack) - 1],
         NEW y \in Frames, y.pkg = u.pkg, y.file = u.file, y.use = u.use + 1,
         stack' \in Seq(Frames), Len(stack') = Len(stack) - 1, stack'[Len(stack) - 1] = y,
         \A i \in 1 .. Len(stack) - 2 : stack'[i] = stack[i],
         Members(checked)' = Members(checked) \cup {Top.pkg},
         UNCHANGED <<uses, tables, all, parsed>>
  PROVE  Checking1(at)'
<1> DEFINE n == Len(stack) - 1
<1>1. stack # << >> /\ Stacked
  BY DEF Checking1, Stacked
<1>2. /\ n \in Nat /\ n \in 1 .. n /\ n + 1 = Len(stack) /\ Top = stack[n + 1] /\ Top \in Frames
      /\ \A i \in 1 .. n + 1 : stack[i] \in Frames /\ stack[i].pkg \in Pkgs
  BY <1>1, TopFrame
<1>3. \A i \in 1 .. n : stack'[i].pkg = stack[i].pkg
  <2>1. \A i \in 1 .. n : i = n \/ i \in 1 .. Len(stack) - 2
    BY <1>2
  <2> QED
    BY <2>1
<1>4. stack' # << >>
  BY <1>2
<1>5. Stacked'
  BY <1>1, <1>2, <1>3, <1>4 DEF Stacked
<1>6. OnStack = OnStack' \cup {Top.pkg} /\ Top.pkg \notin OnStack'
  <2>1. OnStack' = {stack[i].pkg : i \in 1 .. n}
    BY <1>3 DEF OnStack
  <2>2. \A i \in 1 .. n : stack[i].pkg # Top.pkg
    <3>1. \A i \in 1 .. n : i \in 1 .. Len(stack) /\ i # n + 1
      BY <1>2
    <3>2. n + 1 \in 1 .. Len(stack)
      BY <1>2
    <3> QED
      BY <1>1, <1>2, <3>1, <3>2 DEF Stacked
  <2>3. 1 .. Len(stack) = 1 .. n \cup {n + 1}
    BY <1>2
  <2>4. OnStack = {stack[i].pkg : i \in 1 .. n \cup {n + 1}}
    BY <2>3 DEF OnStack
  <2>5. Top.pkg = stack[n + 1].pkg
    BY <1>2
  <2>6. {stack[i].pkg : i \in 1 .. n \cup {n + 1}}
          = {stack[i].pkg : i \in 1 .. n} \cup {stack[n + 1].pkg}
    OBVIOUS
  <2>7. Top.pkg \notin {stack[i].pkg : i \in 1 .. n}
    BY <2>2
  <2> QED
    BY <2>1, <2>4, <2>5, <2>6, <2>7
<1>7. Members(all)' = Members(all)
  BY DEF Members
<1>8. /\ OnStack' \subseteq Members(all)' \cup {Main}
      /\ OnStack' \cap Members(checked)' = {}
  BY <1>6, <1>7 DEF Checking1
<1>9. Built(Main)'
  BY DEF Checking1, Built
<1>10. ASSUME NEW i \in 1 .. n - 1
       PROVE  New(stack[i].pkg, stack[i].file, stack[i].use, stack[i + 1].pkg)'
  <2>1. i \in 1 .. n /\ i + 1 \in 1 .. n /\ i \in 1 .. Len(stack) - 2 /\ i \in 1 .. Len(stack) - 1
    BY <1>2
  <2>2. stack'[i] = stack[i] /\ stack'[i + 1].pkg = stack[i + 1].pkg
    BY <1>3, <2>1
  <2>3. New(stack[i].pkg, stack[i].file, stack[i].use, stack[i + 1].pkg)
    BY <2>1 DEF Checking1
  <2> QED
    BY <2>2, <2>3 DEF New, Has, Path
<1>11. PICK x \in Frames : x = Top
  BY <1>2
<1>12. New(u.pkg, u.file, u.use, x.pkg)
  <2>1. n \in 1 .. Len(stack) - 1
    BY <1>2
  <2> QED
    BY <1>2, <1>11, <2>1 DEF Checking1
<1>13. ASSUME NEW r \in Members(checked') PROVE Passed(r)'
  <2>1. CASE r = x.pkg
    <3>1. New(u.pkg, u.file, u.use, r)'
      BY <1>12, <2>1, StillNew
    <3>2. Earlier(u.file, u.use, y.file, y.use) /\ u.pkg \in Pkgs /\ u.file \in Nat /\ u.use \in Nat
      BY SMTT(30) DEF Frames, Earlier
    <3>3. n \in 1 .. Len(stack') /\ stack'[n] = y
      BY <1>2
    <3> HIDE DEF n
    <3> QED
      BY <3>1, <3>2, <3>3 DEF Passed, Earlier
  <2>2. CASE r \in Members(checked)
    <3>1. Passed(r)
      BY <2>2 DEF Checking1
    <3>2. PICK p \in Pkgs, f \in Nat, k \in Nat :
            /\ New(p, f, k, r)
            /\ \/ p \in Members(checked)
               \/ \E i \in 1 .. Len(stack) :
                    stack[i].pkg = p /\ Earlier(f, k, stack[i].file, stack[i].use)
      BY <3>1 DEF Passed
    <3>3. New(p, f, k, r)'
      BY <3>2, StillNew
    <3>4. ASSUME NEW i \in 1 .. Len(stack), stack[i].pkg = p,
                 Earlier(f, k, stack[i].file, stack[i].use)
          PROVE  \/ p \in Members(checked)'
                 \/ /\ i \in 1 .. Len(stack')
                    /\ stack'[i].pkg = p /\ Earlier(f, k, stack'[i].file, stack'[i].use)
      <4>1. CASE i = n + 1
        BY <1>2, <3>4, <4>1
      <4>2. CASE i = n
        <5>1. Earlier(f, k, y.file, y.use)
          BY <3>4, <4>2 DEF Frames, Earlier
        <5> QED
          BY <1>2, <1>3, <3>4, <4>2, <5>1
      <4>3. CASE i # n /\ i # n + 1
        <5>1. i \in 1 .. Len(stack) - 2 /\ i \in 1 .. n
          BY <1>2, <4>3
        <5> QED
          BY <3>4, <5>1
      <4> QED
        BY <4>1, <4>2, <4>3
    <3> HIDE DEF n
    <3> QED
      BY <3>2, <3>3, <3>4 DEF Passed, Earlier
  <2> QED
    BY <1>11, <1>13, <2>1, <2>2 DEF Members
<1>14. ASSUME NEW i \in 1 .. n PROVE FrameDone(at, stack[i])'
  <2>1. CASE i = n
    <3>1. n \in 1 .. Len(stack) /\ n + 1 \in 1 .. Len(stack)
      BY <1>2
    <3>2. FrameDone(at, x) /\ FrameDone(at, u)
      BY <1>2, <1>11, <3>1 DEF Checking1
    <3>3. FrameDone(at, y)'
      BY <1>11, <1>12, <3>2, PastChecked
    <3> QED
      BY <2>1, <3>3 DEF FrameDone, New, Has, Path
  <2>2. CASE i # n
    <3>1. i \in 1 .. Len(stack) - 2 /\ i \in 1 .. Len(stack) /\ i \in 1 .. n + 1
      BY <1>2, <2>2
    <3>2. PICK z \in Frames : z = stack'[i] /\ FrameDone(at, z)
      BY <1>2, <3>1 DEF Checking1
    <3>3. FrameDone(at, z)'
      BY <3>2, StillDone
    <3> QED
      BY <3>2, <3>3 DEF FrameDone, New, Has, Path
  <2> QED
    BY <2>1, <2>2
<1>15. Len(stack') = n
  OBVIOUS
<1> HIDE DEF n
<1> QED
  BY <1>5, <1>8, <1>9, <1>10, <1>13, <1>14, <1>15 DEF Checking1

\* All files of the main package are built: checking starts.
LEMMA StepProgramBuilt ==
  ASSUME NEW at \in [Pkgs -> Nat], Inv(at), ProgramBuilt
  PROVE  Inv(at)'
<1>1. /\ TypeOK /\ Static(at) /\ Building1(at) /\ Stacked
      /\ phase = "build" /\ stack # << >> /\ ~InFile /\ Len(stack) = 1
  BY DEF Inv, ProgramBuilt, Building, Building1
<1>2. /\ phase' = "check" /\ stack' = <<First(Main)>>
      /\ UNCHANGED <<uses, fault, tables, all, parsed, checked>>
  BY DEF ProgramBuilt
<1>3. PICK x \in Frames : x = Top
  BY <1>1, TopFrame
<1>4. Reached(x) /\ x.pkg = Main /\ ~(x.file <= Len(uses[x.pkg]))
  BY <1>1, <1>3, TopFrame DEF Building1, Stacked, InFile
<1>5. Built(Main)
  BY <1>1, <1>4, FilesEnd
<1>6. Static(at)'
  BY <1>1, <1>2, StaticSame
<1>7. PICK y \in Frames : y = First(Main) /\ y.pkg = Main /\ y.file = 1 /\ y.use = 1
  <2>1. First(Main) \in Frames
    BY MainAssumption DEF First, Frames
  <2>2. First(Main).pkg = Main /\ First(Main).file = 1 /\ First(Main).use = 1
    BY DEF First
  <2> QED
    BY <2>1, <2>2
<1>8. /\ stack' = <<y>> /\ stack' \in Seq(Frames) /\ stack' # << >>
      /\ Len(stack') = 1 /\ stack'[1] = y
  BY <1>2, <1>7
<1>9. Members(checked)' = {} /\ Members(checked) = {}
  BY <1>1, <1>2 DEF Building1, Members
<1>10. Stacked'
  BY <1>7, <1>8 DEF Stacked
<1>11. OnStack' = {Main}
  BY <1>7, <1>8 DEF OnStack
<1>12. FrameDone(at, y)
  <2>1. Done(at[y.pkg])
    <3>1. at[y.pkg] = 0 /\ Len(all) \in Nat
      BY <1>1, <1>7 DEF Static, TypeOK
    <3> QED
      BY <3>1 DEF Done
  <2>2. \A g, l \in Nat : Has(y.pkg, g, l) => ~Earlier(g, l, y.file, y.use)
    BY <1>7 DEF Has, Earlier
  <2> QED
    BY <2>1, <2>2 DEF FrameDone, New
<1>13. ASSUME NEW i \in 1 .. Len(stack') PROVE FrameDone(at, stack[i])'
  <2>1. i = 1
    BY <1>8
  <2>2. FrameDone(at, y)'
    BY <1>1, <1>2, <1>9, <1>12, StillDone
  <2> QED
    BY <1>8, <2>1, <2>2 DEF FrameDone, New, Has, Path
<1>14. Built(Main)'
  BY <1>2, <1>5 DEF Built
<1>15. Checking1(at)'
  <2>1. \A i \in 1 .. Len(stack') - 1 : FALSE
    BY <1>8
  <2> QED
    BY <1>9, <1>10, <1>11, <1>13, <1>14, <2>1 DEF Checking1
<1>16. TypeOK'
  BY <1>1, <1>2, <1>8 DEF TypeOK
<1>17. CheckedOnce'
  BY <1>2 DEF Inv, CheckedOnce, NoRepeats
<1> QED
  BY <1>2, <1>6, <1>15, <1>16, <1>17 DEF Inv

\* The import that is being looked at.
LEMMA ImportAtTop ==
  ASSUME TypeOK, NEW at \in [Pkgs -> Nat], Checking1(at)
  PROVE  /\ stack # << >> /\ Top \in Frames /\ FrameDone(at, Top)
         /\ Top.pkg \in Pkgs /\ Top.file \in Nat /\ Top.use \in Nat
         /\ Top.pkg \in Members(all) \cup {Main} /\ Top.pkg \notin Members(checked)
         /\ HasImport => Has(Top.pkg, Top.file, Top.use)
         /\ Top.pkg \in Pkgs => Imp.path = Path(Top.pkg, Top.file, Top.use)
                                /\ Imp = tables[Top.pkg][Top.file][Top.use]
<1>1. stack # << >>
  BY DEF Checking1, Stacked
<1>2. /\ Len(stack) \in 1 .. Len(stack) /\ Top = stack[Len(stack)] /\ Top \in Frames
      /\ Top.pkg \in Pkgs /\ Top.file \in Nat \ {0} /\ Top.use \in Nat \ {0}
      /\ Top.pkg \in OnStack
  BY <1>1, TopFrame
<1>3. HasImport => Has(Top.pkg, Top.file, Top.use)
  <2>1. SUFFICES ASSUME HasImport PROVE Has(Top.pkg, Top.file, Top.use)
    OBVIOUS
  <2>2. Top.file <= Len(tables[Top.pkg]) /\ Top.use <= Len(tables[Top.pkg][Top.file])
    BY <2>1 DEF HasImport, HasFile, Table
  <2>3. Top.file \in 1 .. Len(tables[Top.pkg])
    BY <1>2, <2>2, Typed
  <2>4. Len(tables[Top.pkg][Top.file]) \in Nat
    BY <1>2, <2>3, Typed
  <2> QED
    BY <1>2, <2>2, <2>3, <2>4 DEF Has
<1> QED
  BY <1>1, <1>2, <1>3 DEF Checking1, Imp, Table, Path

LEMMA StepSkipImport ==
  ASSUME NEW at \in [Pkgs -> Nat], Inv(at), SkipImport
  PROVE  Inv(at)'
<1>1. /\ TypeOK /\ Static(at) /\ Checking1(at) /\ phase = "check" /\ HasImport
      /\ tables[Imp.path] = << >> \/ Imp.duplicate
  BY DEF Inv, SkipImport, Checking
<1>2. /\ stack' = AdvanceUse(stack)
      /\ UNCHANGED <<uses, fault, phase, tables, all, parsed, checked>>
  BY DEF SkipImport
<1>3. PICK x \in Frames : x = Top /\ FrameDone(at, x)
  BY <1>1, ImportAtTop
<1>4. PICK y \in Frames : y = [pkg |-> x.pkg, file |-> x.file, use |-> x.use + 1]
  <2>1. [pkg |-> x.pkg, file |-> x.file, use |-> x.use + 1] \in Frames
    BY DEF Frames
  <2> QED
    BY <2>1
<1>5. y.pkg = x.pkg /\ y.file = x.file /\ y.use = x.use + 1
  BY <1>4
<1>6. \A q \in Pkgs : New(x.pkg, x.file, x.use, q) => tables[q] = << >>
  BY <1>1, <1>3, ImportAtTop DEF New
<1>7. FrameDone(at, y)
  BY <1>1, <1>3, <1>5, <1>6, PastEntry
<1>8. /\ stack' \in Seq(Frames) /\ Len(stack') = Len(stack) /\ stack'[Len(stack)] = y
      /\ \A i \in 1 .. Len(stack) - 1 : stack'[i] = stack[i]
  <2>1. stack \in Seq(Frames) /\ stack # << >> /\ Top = stack[Len(stack)]
    BY <1>1, ImportAtTop DEF TypeOK, Top
  <2>2. stack'[Len(stack)] = [pkg |-> x.pkg, file |-> x.file, use |-> x.use + 1]
    BY <1>2, <1>3, <2>1, Advanced
  <2> QED
    BY <1>2, <1>4, <2>1, <2>2, Advanced
<1>9. Checking1(at)'
  <2>1. \A g, l \in Nat : Earlier(g, l, x.file, x.use) => Earlier(g, l, y.file, y.use)
    BY <1>5 DEF Earlier, Frames
  <2> QED
    BY <1>1, <1>2, <1>3, <1>5, <1>7, <1>8, <2>1, CheckMovesOn
<1>10. Static(at)'
  BY <1>1, <1>2, StaticSame
<1>11. TypeOK'
  BY <1>1, <1>2, <1>8 DEF TypeOK
<1>12. CheckedOnce'
  BY <1>2 DEF Inv, CheckedOnce, NoRepeats
<1> QED
  BY <1>1, <1>2, <1>9, <1>10, <1>11, <1>12 DEF Inv

LEMMA StepFileChecked ==
  ASSUME NEW at \in [Pkgs -> Nat], Inv(at), FileChecked
  PROVE  Inv(at)'
<1>1. /\ TypeOK /\ Static(at) /\ Checking1(at) /\ phase = "check" /\ HasFile /\ ~HasImport
  BY DEF Inv, FileChecked, Checking
<1>2. /\ stack' = AdvanceFile(stack)
      /\ UNCHANGED <<uses, fault, phase, tables, all, parsed, checked>>
  BY DEF FileChecked
<1>3. PICK x \in Frames : x = Top /\ FrameDone(at, x)
  BY <1>1, ImportAtTop
<1>4. PICK y \in Frames : y = [pkg |-> x.pkg, file |-> x.file + 1, use |-> 1]
  <2>1. [pkg |-> x.pkg, file |-> x.file + 1, use |-> 1] \in Frames
    BY DEF Frames
  <2> QED
    BY <2>1
<1>5. y.pkg = x.pkg /\ y.file = x.file + 1 /\ y.use = 1
  BY <1>4
<1>6. \A g, l \in Nat : Has(x.pkg, g, l) /\ Earlier(g, l, y.file, y.use)
                           => Earlier(g, l, x.file, x.use)
  <2>1. SUFFICES ASSUME NEW g \in Nat, NEW l \in Nat, Has(x.pkg, g, l),
                        Earlier(g, l, y.file, y.use)
                 PROVE  Earlier(g, l, x.file, x.use)
    OBVIOUS
  <2>2. x.pkg \in Pkgs /\ x.file \in Nat /\ x.use \in Nat
    BY DEF Frames
  <2>3. g \in 1 .. Len(tables[x.pkg]) /\ l \in 1 .. Len(tables[x.pkg][g])
    BY <2>1 DEF Has
  <2>4. g <= x.file
    BY <1>5, <2>1, <2>2, <2>3 DEF Earlier
  <2>5. CASE g = x.file
    <3>1. Len(tables[x.pkg][g]) \in Nat
      BY <2>2, <2>3, Typed
    <3>2. ~(x.use <= Len(tables[x.pkg][g]))
      BY <1>1, <1>3, <2>5 DEF HasImport, Table
    <3>3. l < x.use
      BY <2>2, <2>3, <3>1, <3>2
    <3> QED
      BY <2>5, <3>3 DEF Earlier
  <2> QED
    BY <2>2, <2>4, <2>5 DEF Earlier
<1>7. FrameDone(at, y)
  BY <1>3, <1>5, <1>6 DEF FrameDone, New
<1>8. /\ stack' \in Seq(Frames) /\ Len(stack') = Len(stack) /\ stack'[Len(stack)] = y
      /\ \A i \in 1 .. Len(stack) - 1 : stack'[i] = stack[i]
  <2>1. stack \in Seq(Frames) /\ stack # << >> /\ Top = stack[Len(stack)]
    BY <1>1, ImportAtTop DEF TypeOK, Top
  <2>2. stack'[Len(stack)] = [pkg |-> x.pkg, file |-> x.file + 1, use |-> 1]
    BY <1>2, <1>3, <2>1, Advanced
  <2> QED
    BY <1>2, <1>4, <2>1, <2>2, Advanced
<1>9. Checking1(at)'
  <2>1. \A g, l \in Nat : Earlier(g, l, x.file, x.use) => Earlier(g, l, y.file, y.use)
    BY <1>5 DEF Earlier, Frames
  <2> QED
    BY <1>1, <1>2, <1>3, <1>5, <1>7, <1>8, <2>1, CheckMovesOn
<1>10. Static(at)'
  BY <1>1, <1>2, StaticSame
<1>11. TypeOK'
  BY <1>1, <1>2, <1>8 DEF TypeOK
<1>12. CheckedOnce'
  BY <1>2 DEF Inv, CheckedOnce, NoRepeats
<1> QED
  BY <1>1, <1>2, <1>9, <1>10, <1>11, <1>12 DEF Inv

LEMMA StepCheckImport ==
  ASSUME NEW at \in [Pkgs -> Nat], Inv(at), CheckImport
  PROVE  Inv(at)'
<1>1. /\ TypeOK /\ Static(at) /\ Checking1(at) /\ phase = "check" /\ HasImport
      /\ ~Imp.duplicate
  BY DEF Inv, CheckImport, Checking
<1>2. /\ Has(Top.pkg, Top.file, Top.use) /\ Imp.path = Path(Top.pkg, Top.file, Top.use)
      /\ ~tables[Top.pkg][Top.file][Top.use].duplicate
      /\ Top.pkg \in Pkgs
  BY <1>1, ImportAtTop
<1>3. PICK q \in Pkgs : q = Imp.path
  BY <1>1, <1>2, Typed DEF Has
<1>4. New(Top.pkg, Top.file, Top.use, q)
  BY <1>2, <1>3 DEF New
<1>5. /\ stack' = Append(stack, First(q))
      /\ UNCHANGED <<uses, fault, phase, tables, all, parsed, checked>>
  BY <1>3 DEF CheckImport
<1>6. Checking1(at)' /\ stack' \in Seq(Frames)
  BY <1>1, <1>4, <1>5, CheckOpens
<1>7. Static(at)'
  BY <1>1, <1>5, StaticSame
<1>8. TypeOK'
  BY <1>1, <1>5, <1>6 DEF TypeOK
<1>9. CheckedOnce'
  BY <1>5 DEF Inv, CheckedOnce, NoRepeats
<1> QED
  BY <1>1, <1>5, <1>6, <1>7, <1>8, <1>9 DEF Inv

LEMMA StepCheckDecls ==
  ASSUME NEW at \in [Pkgs -> Nat], Inv(at), CheckDecls
  PROVE  Inv(at)'
<1>1. /\ TypeOK /\ Static(at) /\ Checking1(at) /\ phase = "check" /\ ~HasFile /\ CheckedOnce
      /\ stack # << >>
  BY DEF Inv, CheckDecls, Checking
<1>2. /\ checked' = Append(checked, Top.pkg) /\ UNCHANGED <<uses, fault, tables, all, parsed>>
  BY DEF CheckDecls
<1>3. /\ Top.pkg \in Pkgs /\ Top.pkg \notin Members(checked)
      /\ ~(Top.file <= Len(tables[Top.pkg])) /\ checked \in Seq(Pkgs)
  BY <1>1, ImportAtTop DEF HasFile, TypeOK
<1>4. /\ checked' \in Seq(Pkgs) /\ Members(checked') = Members(checked) \cup {Top.pkg}
      /\ NoRepeats(checked')
  BY <1>1, <1>2, <1>3, AppendNew DEF CheckedOnce
<1>5. CheckedOnce' /\ Members(checked)' = Members(checked) \cup {Top.pkg}
  BY <1>4 DEF CheckedOnce, NoRepeats, Members
<1>6. Static(at)'
  BY <1>1, <1>2, StaticSame
<1>7. CASE Len(stack) = 1
  <2>1. phase' = "done" /\ stack' = << >>
    BY <1>7 DEF CheckDecls
  <2>2. TypeOK'
    BY <1>1, <1>2, <1>4, <2>1 DEF TypeOK
  <2> QED
    BY <1>5, <1>6, <2>1, <2>2 DEF Inv
<1>8. CASE Len(stack) # 1
  <2> DEFINE n == Len(stack) - 1
  <2>1. phase' = phase /\ stack' = AdvanceUse(Below)
    BY <1>8 DEF CheckDecls
  <2>2. /\ Len(stack) > 1 /\ n \in Nat /\ n \in 1 .. n /\ n \in 1 .. Len(stack)
        /\ \A i \in 1 .. Len(stack) : stack[i] \in Frames
    <3>1. Len(stack) \in Nat /\ Len(stack) \in 1 .. Len(stack)
      BY <1>1, TopFrame
    <3>2. Len(stack) > 1
      <4>1. \A m \in Nat : m \in 1 .. m /\ m # 1 => m > 1
        OBVIOUS
      <4> HIDE DEF n
      <4> QED
        BY <1>8, <3>1, <4>1
    <3>3. n \in Nat /\ n \in 1 .. n /\ n \in 1 .. Len(stack)
      BY <3>1, <3>2
    <3>4. \A i \in 1 .. Len(stack) : stack[i] \in Frames
      BY <1>1, TopFrame
    <3> QED
      BY <3>2, <3>3, <3>4
  <2>3. PICK u \in Frames : u = stack[n]
    BY <2>2
  <2>4. PICK y \in Frames : y = [pkg |-> u.pkg, file |-> u.file, use |-> u.use + 1]
    <3>1. [pkg |-> u.pkg, file |-> u.file, use |-> u.use + 1] \in Frames
      BY DEF Frames
    <3> QED
      BY <3>1
  <2>5. y.pkg = u.pkg /\ y.file = u.file /\ y.use = u.use + 1
    BY <2>4
  <2>6. /\ stack' \in Seq(Frames) /\ Len(stack') = n /\ stack'[n] = y
        /\ \A i \in 1 .. Len(stack) - 2 : stack'[i] = stack[i]
    <3>1. PICK r \in Seq(Frames) :
            r = Below /\ r # << >> /\ Len(r) = n /\ \A i \in 1 .. n : r[i] = stack[i]
      BY <1>1, <2>2, BelowTop DEF TypeOK, Below
    <3>2. r[n] = u /\ stack' = AdvanceUse(r)
      BY <2>1, <2>2, <2>3, <3>1
    <3>3. n - 1 = Len(stack) - 2
      BY <2>2
    <3> HIDE DEF n
    <3>4. /\ stack' \in Seq(Frames) /\ Len(stack') = n
          /\ stack'[n] = [pkg |-> u.pkg, file |-> u.file, use |-> u.use + 1]
          /\ \A i \in 1 .. n - 1 : stack'[i] = r[i]
      BY <3>1, <3>2, Advanced
    <3> QED
      BY <2>2, <2>4, <3>1, <3>3, <3>4
  <2>7. Checking1(at)'
    BY <1>1, <1>2, <1>3, <1>5, <2>2, <2>3, <2>5, <2>6, CheckReturns
  <2>8. TypeOK'
    BY <1>1, <1>2, <1>4, <2>1, <2>6 DEF TypeOK
  <2> QED
    BY <1>1, <1>5, <1>6, <2>1, <2>7, <2>8 DEF Inv
<1> QED
  BY <1>7, <1>8

\* The compilation ends with an error.
LEMMA StepFail ==
  ASSUME NEW at \in [Pkgs -> Nat], Inv(at), Fail
  PROVE  Inv(at)'
<1>1. phase' = "error" /\ UNCHANGED <<uses, fault, stack, tables, all, parsed, checked>>
  BY DEF Fail
<1>2. TypeOK /\ Static(at)
  BY DEF Inv
<1>3. Static(at)'
  BY <1>1, <1>2, StaticSame
<1>4. TypeOK'
  BY <1>1, <1>2 DEF TypeOK
<1>5. CheckedOnce'
  BY <1>1 DEF Inv, CheckedOnce, NoRepeats
<1> QED
  BY <1>1, <1>3, <1>4, <1>5 DEF Inv

-----------------------------------------------------------------------------
(* The theorems *)

\* Nothing is built yet when the main package is opened.
LEMMA InitInv == Init => IInv
<1> SUFFICES ASSUME Init PROVE IInv
  OBVIOUS
<1>1. PICK at \in [Pkgs -> Nat] : \A p \in Pkgs : at[p] = 0
  <2>1. /\ [p \in Pkgs |-> 0] \in [Pkgs -> Nat]
        /\ \A q \in Pkgs : [p \in Pkgs |-> 0][q] = 0
    OBVIOUS
  <2> QED
    BY <2>1
<1>2. PICK x \in Frames : x = First(Main) /\ x.pkg = Main /\ x.file = 1 /\ x.use = 1
  <2>1. First(Main) \in Frames
    BY MainAssumption DEF First, Frames
  <2>2. First(Main).pkg = Main /\ First(Main).file = 1 /\ First(Main).use = 1
    BY DEF First
  <2> QED
    BY <2>1, <2>2
<1>3. /\ uses \in Programs /\ fault \in Faults /\ phase = "build"
      /\ all = << >> /\ parsed = <<Main>> /\ checked = << >> /\ stack = <<x>>
  BY <1>2 DEF Init
<1>4. /\ tables[Main] = << << >> >>
      /\ \A p \in Pkgs : p # Main => tables[p] = << >>
      /\ tables \in [Pkgs -> Seq(Seq(Imports))]
  <2>1. << << >> >> \in Seq(Seq(Imports)) /\ << >> \in Seq(Seq(Imports))
    OBVIOUS
  <2>2. tables = [p \in Pkgs |-> IF p = Main THEN << << >> >> ELSE << >>]
    BY DEF Init
  <2> HIDE DEF Init
  <2> QED
    BY <2>1, <2>2, MainAssumption
<1>5. /\ Len(stack) = 1 /\ stack[1] = x /\ stack # << >> /\ stack \in Seq(Frames)
      /\ Len(all) = 0 /\ Len(checked) = 0 /\ Len(parsed) = 1 /\ parsed[1] = Main
      /\ all \in Seq(Pkgs) /\ checked \in Seq(Pkgs) /\ parsed \in Seq(Pkgs)
  BY <1>3, MainAssumption
<1>6. TypeOK
  BY <1>3, <1>4, <1>5 DEF TypeOK
<1>7. /\ Members(all) = {} /\ Members(checked) = {} /\ Members(parsed) = {Main}
      /\ OnStack = {Main} /\ Top = x
  BY <1>2, <1>5 DEF Members, OnStack, Top
<1>8. ParsedOnce /\ CheckedOnce /\ UsesFirst
  BY <1>5 DEF ParsedOnce, CheckedOnce, UsesFirst, NoRepeats
<1>9. \A p \in Pkgs : \A f, k \in Nat : ~Has(p, f, k)
  <2>1. ASSUME NEW p \in Pkgs, NEW f \in Nat, NEW k \in Nat, Has(p, f, k)
        PROVE  FALSE
    <3>1. CASE p = Main
      <4>1. Len(tables[p]) = 1 /\ tables[p][1] = << >>
        <5>1. tables[p] = << << >> >>
          BY <1>4, <3>1
        <5>2. Len(<< << >> >>) = 1 /\ << << >> >>[1] = << >>
          OBVIOUS
        <5> QED
          BY <5>1, <5>2
      <4>2. f = 1 /\ k \in 1 .. Len(tables[p][f])
        BY <2>1, <4>1 DEF Has
      <4> QED
        BY <4>1, <4>2
    <3>2. CASE p # Main
      <4>1. Len(tables[p]) = 0
        BY <1>4, <3>2
      <4> QED
        BY <2>1, <4>1 DEF Has
    <3> QED
      BY <3>1, <3>2
  <2> QED
    BY <2>1
<1>10. Order(at)
  BY <1>5, <1>9 DEF Order, Faithful, Single, NewBuilt, Duplicates, Openings, Endings, New
<1>11. Static(at)
  BY <1>1, <1>4, <1>7, <1>8, <1>10, MainAssumption DEF Static
<1>12. Reached(x)
  <2>1. /\ Len(tables[Main]) = 1 /\ tables[Main][1] = << >> /\ Len(tables[Main][1]) = 0
    BY <1>4
  <2>2. uses[Main] # << >> /\ uses[Main] \in Seq(Seq(Pkgs))
    BY <1>3, ProgramAssumption, MainAssumption
  <2>3. Len(uses[Main]) \in Nat /\ 1 <= Len(uses[Main]) /\ Len(uses[Main][1]) \in Nat
    BY <2>2
  <2> QED
    BY <1>2, <2>1, <2>3 DEF Reached
<1>13. Stacked
  BY <1>2, <1>5 DEF Stacked
<1>14. Within(at, Top.pkg, Len(all))
  BY <1>1, <1>2, <1>5, <1>7, MainAssumption DEF Within
<1>15. Building1(at)
  BY <1>3, <1>5, <1>7, <1>12, <1>13, <1>14 DEF Building1
<1>16. Inv(at)
  BY <1>3, <1>6, <1>8, <1>11, <1>15 DEF Inv
<1> QED
  BY <1>16 DEF IInv

\* Nothing changes.
LEMMA StepStutter ==
  ASSUME NEW at \in [Pkgs -> Nat], Inv(at), UNCHANGED vars
  PROVE  Inv(at)'
<1>1. UNCHANGED <<uses, fault, phase, stack, tables, all, parsed, checked>>
  BY DEF vars
<1>2. TypeOK' /\ CheckedOnce'
  BY <1>1 DEF Inv, TypeOK, CheckedOnce, NoRepeats
<1>3. Static(at)'
  BY <1>1, StaticSame DEF Inv
<1>4. OnStack' = OnStack /\ Top' = Top /\ Members(all)' = Members(all)
      /\ Members(checked)' = Members(checked) /\ Members(parsed)' = Members(parsed)
  BY <1>1 DEF OnStack, Top, Members
<1>5. ASSUME phase = "build" PROVE Building1(at)'
  <2>1. Building1(at)
    BY <1>5 DEF Inv
  <2>2. Stacked'
    BY <1>1, <2>1 DEF Building1, Stacked
  <2>3. ASSUME NEW p, NEW j, Within(at, p, j) PROVE Within(at, p, j)'
    BY <1>1, <2>3 DEF Within, New, Has, Path
  <2>4. \A i \in 1 .. Len(stack) : Reached(stack[i])'
    BY <1>1, <2>1 DEF Building1, Reached
  <2>5. \A i \in 1 .. Len(stack) - 1 : Waits(stack[i], stack[i + 1].pkg)'
    BY <1>1, <2>1 DEF Building1, Waits
  <2>6. \A i \in 1 .. Len(stack) - 1 : Within(at, stack[i].pkg, at[stack[i + 1].pkg])'
    BY <1>1, <2>1, <2>3 DEF Building1
  <2>7. Within(at, Top.pkg, Len(all))'
    BY <1>1, <1>4, <2>1, <2>3 DEF Building1
  <2> QED
    BY <1>1, <1>4, <2>1, <2>2, <2>4, <2>5, <2>6, <2>7 DEF Building1
<1>6. ASSUME phase = "check" PROVE Checking1(at)'
  <2>1. Checking1(at)
    BY <1>6 DEF Inv
  <2>2. Stacked' /\ Built(Main)'
    BY <1>1, <2>1 DEF Checking1, Stacked, Built
  <2>3. \A p, f, k, q : New(p, f, k, q)' <=> New(p, f, k, q)
    BY <1>1 DEF New, Has, Path
  <2>4. \A i \in 1 .. Len(stack) - 1 :
          New(stack[i].pkg, stack[i].file, stack[i].use, stack[i + 1].pkg)'
    BY <1>1, <2>1, <2>3 DEF Checking1
  <2>5. \A q \in Members(checked) : Passed(q)'
    BY <1>1, <1>4, <2>1, <2>3 DEF Checking1, Passed
  <2>6. \A x : FrameDone(at, x) => FrameDone(at, x)'
    BY <1>1, <1>4, StillDone DEF Inv
  <2>7. \A i \in 1 .. Len(stack) : FrameDone(at, stack[i])'
    BY <1>1, <2>1, <2>6 DEF Checking1
  <2> QED
    BY <1>1, <1>4, <2>1, <2>2, <2>4, <2>5, <2>7 DEF Checking1
<1> QED
  BY <1>1, <1>2, <1>3, <1>5, <1>6 DEF Inv

LEMMA NextInv == IInv /\ [Next]_vars => IInv'
<1> SUFFICES ASSUME IInv, [Next]_vars PROVE IInv'
  OBVIOUS
<1>1. PICK at \in [Pkgs -> Nat] : Inv(at)
  BY DEF IInv
<1>2. ASSUME Inv(at)' PROVE IInv'
  BY <1>2 DEF IInv
<1>3. CASE RejectUse
  BY <1>1, <1>2, <1>3, StepFail DEF RejectUse
<1>4. CASE Reuse
  BY <1>1, <1>2, <1>4, StepReuse
<1>5. CASE Descend
  BY <1>1, <1>5, StepDescend DEF IInv
<1>6. CASE FileBuilt
  BY <1>1, <1>2, <1>6, StepFileBuilt
<1>7. CASE PackageBuilt
  BY <1>1, <1>2, <1>7, StepPackageBuilt
<1>8. CASE ProgramBuilt
  BY <1>1, <1>2, <1>8, StepProgramBuilt
<1>9. CASE SkipImport
  BY <1>1, <1>2, <1>9, StepSkipImport
<1>10. CASE CheckImport
  BY <1>1, <1>2, <1>10, StepCheckImport
<1>11. CASE FileChecked
  BY <1>1, <1>2, <1>11, StepFileChecked
<1>12. CASE CheckDecls
  BY <1>1, <1>2, <1>12, StepCheckDecls
<1>13. CASE RejectDecls
  BY <1>1, <1>2, <1>13, StepFail DEF RejectDecls
<1>14. CASE UNCHANGED vars
  BY <1>1, <1>2, <1>14, StepStutter
<1> QED
  BY <1>3, <1>4, <1>5, <1>6, <1>7, <1>8, <1>9, <1>10, <1>11, <1>12, <1>13, <1>14 DEF Next

LEMMA Invariance == Spec => []IInv
BY InitInv, NextInv, PTL DEF Spec

\* A package whose imports are all past has the packages it uses checked.
LEMMA UsesDone ==
  ASSUME NEW at \in [Pkgs -> Nat], Inv(at), phase = "check", stack # << >>, ~HasFile,
         NEW q \in Uses(Top.pkg), uses[q] # << >>
  PROVE  q \in Members(checked)
<1>1. /\ TypeOK /\ Static(at) /\ Checking1(at) /\ Order(at)
  BY DEF Inv, Static
<1>2. PICK x \in Frames : x = Top
  BY <1>1, ImportAtTop
<1>3. /\ FrameDone(at, x) /\ x.pkg \in Pkgs /\ x.pkg \in Members(all) \cup {Main}
      /\ ~(x.file <= Len(tables[x.pkg]))
  BY <1>1, <1>2, ImportAtTop DEF HasFile
<1>4. Built(x.pkg)
  BY <1>1, <1>3 DEF Static, Checking1
<1>5. PICK f \in Nat, k \in Nat : Has(x.pkg, f, k) /\ Path(x.pkg, f, k) = q
  BY <1>1, <1>2, <1>3, <1>4, AllEntered DEF Order
<1>6. q \in Members(all)
  BY <1>1, <1>3, <1>5, EntriesBuilt
<1>7. q \in Pkgs /\ Built(q)
  BY <1>1, <1>6 DEF Static, TypeOK, Members
<1>8. tables[q] # << >>
  <2>1. uses[q] \in Seq(Seq(Pkgs)) /\ Len(uses[q]) # 0
    BY <1>1, <1>7, Typed
  <2> QED
    BY <1>7, <2>1 DEF Built
<1>9. \A m \in 1 .. Len(all) : Done(m) /\ all[m] = q => q \in Members(checked)
  BY <1>8 DEF Done, TypeOK
<1>10. Len(all) \in Nat
  BY <1>1 DEF TypeOK
<1>11. CASE tables[x.pkg][f][k].duplicate
  <2>1. PICK j \in 1 .. Len(all) : all[j] = q /\ Before(at, x.pkg, f, k, j)
    BY <1>1, <1>3, <1>5, <1>11 DEF Order, Duplicates
  <2>2. j \in Nat /\ Within(at, x.pkg, j)
    <3>1. j \in Nat
      BY <1>10
    <3>2. Before(at, x.pkg, f, k, j)
      BY <2>1
    <3> QED
      BY <3>1, <3>2 DEF Before, Within
  <2>3. Done(j)
    BY <1>1, <1>3, <2>2, WithinDone
  <2> QED
    BY <1>9, <2>1, <2>3
<1>12. CASE ~tables[x.pkg][f][k].duplicate
  <2>1. New(x.pkg, f, k, q)
    BY <1>5, <1>12 DEF New
  <2>2. PICK m \in 1 .. Len(all) : all[m] = q
    BY <1>6 DEF Members
  <2>3. m \in Nat /\ Within(at, x.pkg, m)
    <3>1. m \in Nat /\ m <= m
      BY <1>10
    <3> QED
      BY <1>7, <2>1, <2>2, <3>1 DEF Within
  <2>4. Done(m)
    BY <1>1, <1>3, <2>3, WithinDone
  <2> QED
    BY <1>9, <2>2, <2>4
<1> QED
  BY <1>11, <1>12

\* A step that checks a package checks it after those it uses.
LEMMA StepChecks ==
  ASSUME NEW at \in [Pkgs -> Nat], Inv(at), [Next]_vars, checked' # checked,
         NEW q \in Uses(checked'[Len(checked')]), uses[q] # << >>
  PROVE  q \in Members(checked)
<1>1. CheckDecls
  BY DEF Next, vars, RejectUse, Fail, Reuse, Descend, Open, FileBuilt, PackageBuilt,
         ProgramBuilt, SkipImport, CheckImport, FileChecked, RejectDecls
<1>2. /\ phase = "check" /\ stack # << >> /\ ~HasFile /\ checked' = Append(checked, Top.pkg)
  BY <1>1 DEF CheckDecls, Checking
<1>3. checked \in Seq(Pkgs)
  BY DEF Inv, TypeOK
<1>4. checked'[Len(checked')] = Top.pkg
  BY <1>2, <1>3
<1> QED
  BY <1>2, <1>4, UsesDone

\* The type invariant: frames, tables and lists keep the shape the loader
\* gives them, whatever the program.
THEOREM TypeCorrect == Spec => []TypeOK
<1>1. IInv => TypeOK
  BY DEF IInv, Inv
<1> QED
  BY <1>1, Invariance, PTL

\* No package is parsed or built twice, however many files use it: the
\* importer shares what it has, and the cycle check keeps a package that waits
\* from being opened again.
THEOREM LoadedOnce == Spec => []ParsedOnce
<1>1. IInv => ParsedOnce
  BY DEF IInv, Inv, Static
<1> QED
  BY <1>1, Invariance, PTL

\* all_packages lists every package after the packages it uses.
THEOREM UsedBefore == Spec => []UsesFirst
<1>1. IInv => UsesFirst
  BY DEF IInv, Inv, Static
<1> QED
  BY <1>1, Invariance, PTL

\* No package is checked twice: of all imports of a package, exactly one is
\* not a duplicate.
THEOREM CheckedAtMostOnce == Spec => []CheckedOnce
<1>1. IInv => CheckedOnce
  BY DEF IInv, Inv
<1> QED
  BY <1>1, Invariance, PTL

\* Sema skips duplicates, and still every package that a package uses is
\* checked when its own declarations are: the order of the checks replays the
\* order in which the packages were built.
THEOREM UsesChecked == Spec => CheckedAfterUses
<1>1. IInv /\ [Next]_vars =>
        [checked' # checked =>
           \A q \in Uses(checked'[Len(checked')]) : uses[q] # << >> => q \in Members(checked)]_vars
  BY StepChecks DEF IInv
<1> QED
  BY <1>1, Invariance, PTL DEF Spec, CheckedAfterUses

-----------------------------------------------------------------------------
(* The program *)

LEMMA UsesType ==
  ASSUME TypeOK, NEW p \in Pkgs
  PROVE  Uses(p) \subseteq Pkgs
<1> SUFFICES ASSUME NEW q \in Uses(p) PROVE q \in Pkgs
  OBVIOUS
<1>1. PICK f \in 1 .. Len(uses[p]) : q \in Members(uses[p][f])
  BY DEF Uses
<1> QED
  BY <1>1, Typed, MembersType

\* What lies beyond p has what p uses, is closed, and is the least such set.
LEMMA BeyondClosed ==
  ASSUME TypeOK, NEW p \in Pkgs
  PROVE  /\ Beyond(p) \subseteq Pkgs /\ Uses(p) \subseteq Beyond(p)
         /\ \A r \in Beyond(p) : Uses(r) \subseteq Beyond(p)
<1>1. Beyond(p) \subseteq Pkgs
  BY DEF Beyond
<1>2. Uses(p) \subseteq Beyond(p)
  BY UsesType DEF Beyond
<1>3. ASSUME NEW r \in Beyond(p), NEW q \in Uses(r)
      PROVE  q \in Beyond(p)
  <2>1. r \in Pkgs /\ q \in Pkgs
    BY <1>1, UsesType
  <2>2. ASSUME NEW S \in SUBSET Pkgs, Uses(p) \subseteq S, \A t \in S : Uses(t) \subseteq S
        PROVE  q \in S
    <3>1. r \in S
      BY <2>2 DEF Beyond
    <3> QED
      BY <2>2, <3>1
  <2> QED
    BY <2>1, <2>2 DEF Beyond
<1> QED
  BY <1>1, <1>2, <1>3

LEMMA BeyondLeast ==
  ASSUME NEW p \in Pkgs, NEW S \in SUBSET Pkgs,
         Uses(p) \subseteq S, \A r \in S : Uses(r) \subseteq S
  PROVE  Beyond(p) \subseteq S
BY DEF Beyond

LEMMA ProgramClosed ==
  ASSUME TypeOK
  PROVE  /\ Main \in Program /\ Program \subseteq Pkgs
         /\ \A r \in Program : Uses(r) \subseteq Program
BY MainAssumption, BeyondClosed DEF Program

\* What a package leads to does not change while it is loaded.
LEMMA SameProgram ==
  ASSUME UNCHANGED <<uses, fault>>
  PROVE  /\ \A p : Uses(p)' = Uses(p)
         /\ \A p : Beyond(p)' = Beyond(p)
         /\ Program' = Program
         /\ Acceptable' <=> Acceptable
<1>1. \A p : Uses(p)' = Uses(p)
  BY DEF Uses, Members
<1>2. \A p : Beyond(p)' = Beyond(p)
  BY <1>1 DEF Beyond
<1>3. Program' = Program
  BY <1>2 DEF Program
<1>4. Acceptable' <=> Acceptable
  <2> DEFINE Good(p) == /\ fault[p] # "unreadable" /\ (fault[p] = "faulty" => uses[p] = << >>)
                        /\ p \notin Beyond(p)
                        /\ \A f \in 1 .. Len(uses[p]) : NoRepeats(uses[p][f])
  <2>1. \A p : Good(p)' <=> Good(p)
    BY <1>2 DEF NoRepeats
  <2> HIDE DEF Good
  <2>2. (\A p \in Program : Good(p))' <=> \A p \in Program : Good(p)
    BY <1>3, <2>1
  <2> QED
    BY <2>2 DEF Acceptable, Good
<1> QED
  BY <1>1, <1>2, <1>3, <1>4

-----------------------------------------------------------------------------
(* The verdict *)

\* No file's table has a package twice.
Unrepeated ==
  \A p \in Pkgs : \A f, k, l \in Nat :
    Has(p, f, k) /\ Has(p, f, l) /\ Path(p, f, k) = Path(p, f, l) => k = l

\* What was parsed belongs to the program, and could be read.
ParsedSound ==
  /\ Main \in Members(parsed)
  /\ \A p \in Members(parsed) : p \in Program /\ fault[p] # "unreadable"

\* What was checked is correct, and so are the packages it uses.
CheckedSound ==
  \A p \in Members(checked) :
    /\ p \in Members(all) \cup {Main} /\ uses[p] # << >> /\ fault[p] # "faulty"
    /\ \A q \in Uses(p) : uses[q] # << >> => q \in Members(checked)

\* While packages are built, those below lead to those above.
StackLeads ==
  phase = "build" =>
    \A i, j \in 1 .. Len(stack) : i < j => stack[j].pkg \in Beyond(stack[i].pkg)

\* Packages without files are not checked.
WithFiles == phase = "check" => \A i \in 1 .. Len(stack) : uses[stack[i].pkg] # << >>

AtEnd == phase = "done" => Main \in Members(checked) /\ Built(Main)

Rejected == phase = "error" => ~Acceptable

VInv ==
  Unrepeated /\ ParsedSound /\ CheckedSound /\ StackLeads /\ WithFiles /\ AtEnd /\ Rejected

LEMMA StillUnrepeated ==
  ASSUME SameEntries, Unrepeated
  PROVE  Unrepeated'
<1> SUFFICES ASSUME NEW p \in Pkgs, NEW f \in Nat, NEW k \in Nat, NEW l \in Nat,
                    Has(p, f, k)', Has(p, f, l)', Path(p, f, k)' = Path(p, f, l)'
             PROVE  k = l
  BY DEF Unrepeated
<1> QED
  BY DEF SameEntries, Unrepeated, Path

\* A new entry repeats none of its table.
LEMMA EntryUnrepeated ==
  ASSUME Unrepeated, NEW p \in Pkgs, NEW f \in Nat, NEW k \in Nat, NEW q, NEW d,
         Entered(p, f, k, q, d),
         \A l \in Nat : Has(p, f, l) => Path(p, f, l) # q
  PROVE  Unrepeated'
<1> SUFFICES ASSUME NEW a \in Pkgs, NEW g \in Nat, NEW l \in Nat, NEW m \in Nat,
                    Has(a, g, l)', Has(a, g, m)', Path(a, g, l)' = Path(a, g, m)'
             PROVE  l = m
  BY DEF Unrepeated
<1>1. /\ Has(a, g, l) \/ (a = p /\ g = f /\ l = k)
      /\ Has(a, g, m) \/ (a = p /\ g = f /\ m = k)
      /\ ~Has(p, f, k)
  BY DEF Entered
<1>2. /\ Has(a, g, l) => Path(a, g, l)' = Path(a, g, l)
      /\ Has(a, g, m) => Path(a, g, m)' = Path(a, g, m)
  BY DEF Entered, Path
<1>3. Path(p, f, k)' = q
  BY DEF Entered, Path
<1> QED
  BY <1>1, <1>2, <1>3 DEF Unrepeated

\* The stack keeps its packages, or loses those on top.
Lower ==
  /\ Len(stack') \in Nat /\ Len(stack') <= Len(stack)
  /\ \A i \in 1 .. Len(stack') : stack'[i].pkg = stack[i].pkg

LEMMA StillLeads ==
  ASSUME TypeOK, Lower, StackLeads, WithFiles, UNCHANGED <<uses, fault, phase>>
  PROVE  StackLeads' /\ WithFiles'
<1>1. Len(stack) \in Nat
  BY DEF TypeOK
<1>2. \A i \in 1 .. Len(stack') : i \in 1 .. Len(stack) /\ stack'[i].pkg = stack[i].pkg
  BY <1>1 DEF Lower
<1>3. StackLeads'
  BY <1>2, SameProgram DEF StackLeads
<1>4. WithFiles'
  BY <1>2 DEF WithFiles
<1> QED
  BY <1>3, <1>4

\* Advancing changes no package.
LEMMA AdvancedPackages ==
  ASSUME NEW r \in Seq(Frames), r # << >>, NEW t \in {AdvanceUse(r), AdvanceFile(r)}
  PROVE  /\ Len(t) \in Nat /\ Len(t) = Len(r)
         /\ \A i \in 1 .. Len(r) : t[i].pkg = r[i].pkg
<1>1. /\ Len(AdvanceUse(r)) = Len(r) /\ Len(AdvanceFile(r)) = Len(r)
      /\ \A i \in 1 .. Len(r) - 1 : AdvanceUse(r)[i] = r[i] /\ AdvanceFile(r)[i] = r[i]
      /\ AdvanceUse(r)[Len(r)] = [pkg |-> r[Len(r)].pkg, file |-> r[Len(r)].file,
                                  use |-> r[Len(r)].use + 1]
      /\ AdvanceFile(r)[Len(r)] = [pkg |-> r[Len(r)].pkg, file |-> r[Len(r)].file + 1,
                                   use |-> 1]
  BY Advanced
<1>2. Len(t) = Len(r) /\ \A i \in 1 .. Len(r) - 1 : t[i] = r[i]
  BY <1>1
<1>3. t[Len(r)].pkg = r[Len(r)].pkg
  BY <1>1
<1>4. Len(r) \in Nat /\ \A i \in 1 .. Len(r) : i = Len(r) \/ i \in 1 .. Len(r) - 1
  OBVIOUS
<1> QED
  BY <1>2, <1>3, <1>4

LEMMA AdvancedLower ==
  ASSUME TypeOK, stack # << >>, stack' \in {AdvanceUse(stack), AdvanceFile(stack)}
  PROVE  Lower
<1>1. stack \in Seq(Frames) /\ Len(stack) \in Nat
  BY DEF TypeOK
<1>2. /\ Len(stack') \in Nat /\ Len(stack') = Len(stack)
      /\ \A i \in 1 .. Len(stack) : stack'[i].pkg = stack[i].pkg
  BY <1>1, AdvancedPackages
<1> QED
  BY <1>1, <1>2 DEF Lower

LEMMA ReturnedLower ==
  ASSUME TypeOK, Len(stack) > 1, stack' = AdvanceUse(Below)
  PROVE  Lower
<1>1. PICK r \in Seq(Frames) :
        r = Below /\ r # << >> /\ Len(r) = Len(stack) - 1
        /\ \A i \in 1 .. Len(stack) - 1 : r[i] = stack[i]
  BY BelowTop DEF TypeOK, Below
<1>2. Len(stack) \in Nat
  BY DEF TypeOK
<1>3. stack' \in {AdvanceUse(r), AdvanceFile(r)}
  BY <1>1
<1>4. /\ Len(stack') \in Nat /\ Len(stack') = Len(r)
      /\ \A i \in 1 .. Len(r) : stack'[i].pkg = r[i].pkg
  BY <1>1, <1>3, AdvancedPackages
<1> QED
  BY <1>1, <1>2, <1>4 DEF Lower

\* What a step that opens no package and ends nothing has to keep by itself.
LEMMA GoesOnSound ==
  ASSUME TypeOK, VInv, Lower, phase \in {"build", "check"}, Unrepeated',
         UNCHANGED <<uses, fault, phase, parsed, checked>>,
         Members(all) \subseteq Members(all')
  PROVE  VInv'
<1>1. StackLeads' /\ WithFiles'
  BY StillLeads DEF VInv
<1>2. ParsedSound'
  BY SameProgram DEF VInv, ParsedSound, Members
<1>3. CheckedSound'
  <2>1. Members(checked)' = Members(checked) /\ Members(all)' = Members(all')
    BY DEF Members
  <2>2. \A p : Uses(p)' = Uses(p)
    BY SameProgram
  <2> QED
    BY <2>1, <2>2 DEF VInv, CheckedSound
<1> QED
  BY <1>1, <1>2, <1>3 DEF VInv, AtEnd, Rejected

LEMMA VerdictReuse ==
  ASSUME NEW at \in [Pkgs -> Nat], Inv(at), VInv, Reuse
  PROVE  VInv'
<1>1. /\ TypeOK /\ Building1(at) /\ Building /\ HasUse /\ ~Repeated
      /\ phase = "build" /\ stack # << >>
  BY DEF Inv, Reuse, Building
<1>2. Top \in Frames /\ Reached(Top) /\ Waits(Top, Used)
  BY <1>1, UseAtTop
<1>3. PICK p \in Pkgs, f \in Nat, k \in Nat, q \in Pkgs :
        /\ p = Top.pkg /\ f = Top.file /\ k = Len(tables[p][f]) + 1 /\ q = Used
        /\ f \in 1 .. Len(tables[p])
  <2>1. /\ Top.pkg \in Pkgs /\ Top.file \in Nat /\ Top.use \in Nat /\ Used \in Pkgs
        /\ Top.file \in 1 .. Len(tables[Top.pkg])
        /\ Len(tables[Top.pkg][Top.file]) + 1 = Top.use
    BY <1>1, <1>2, NextEntry
  <2> QED
    BY <2>1
<1>4. /\ tables' = Import(p, f, q, TRUE) /\ stack' = AdvanceUse(stack)
      /\ UNCHANGED <<uses, fault, phase, all, parsed, checked>>
  BY <1>3 DEF Reuse
<1>5. Entered(p, f, k, q, TRUE)
  BY <1>1, <1>3, <1>4, ImportEnters
<1>6. \A l \in Nat : Has(p, f, l) => Path(p, f, l) # q
  BY <1>1, <1>3 DEF Repeated, Table, Has, Path
<1>7. Unrepeated'
  BY <1>5, <1>6, EntryUnrepeated DEF VInv
<1>8. Lower
  BY <1>1, <1>4, AdvancedLower
<1> QED
  BY <1>1, <1>4, <1>7, <1>8, GoesOnSound

LEMMA VerdictFileBuilt ==
  ASSUME NEW at \in [Pkgs -> Nat], Inv(at), VInv, FileBuilt
  PROVE  VInv'
<1>1. /\ TypeOK /\ Building1(at) /\ phase = "build" /\ stack # << >> /\ InFile /\ ~HasUse
  BY DEF Inv, FileBuilt, Building
<1>2. PICK x \in Frames : x = Top
  BY <1>1, TopFrame
<1>3. Reached(x)
  BY <1>1, <1>2, TopFrame DEF Building1
<1>4. /\ x.file <= Len(uses[x.pkg]) /\ ~(x.use <= Len(uses[x.pkg][x.file]))
  BY <1>1, <1>2 DEF InFile, HasUse
<1>5. /\ tables' = IF x.file = Len(uses[x.pkg]) THEN tables
                   ELSE [tables EXCEPT ![x.pkg] = Append(@, << >>)]
      /\ stack' = AdvanceFile(stack)
      /\ UNCHANGED <<uses, fault, phase, all, parsed, checked>>
  BY <1>2 DEF FileBuilt
<1>6. PICK y \in Frames : y.pkg = x.pkg /\ y.file = x.file + 1 /\ y.use = 1
  <2>1. [pkg |-> x.pkg, file |-> x.file + 1, use |-> 1] \in Frames
    BY DEF Frames
  <2> QED
    BY <2>1
<1>7. SameEntries
  BY <1>1, <1>3, <1>4, <1>5, <1>6, FileReached
<1>8. Unrepeated'
  BY <1>7, StillUnrepeated DEF VInv
<1>9. Lower
  BY <1>1, <1>5, AdvancedLower
<1> QED
  BY <1>1, <1>5, <1>8, <1>9, GoesOnSound

LEMMA VerdictPackageBuilt ==
  ASSUME NEW at \in [Pkgs -> Nat], Inv(at), VInv, PackageBuilt
  PROVE  VInv'
<1>1. /\ TypeOK /\ Building1(at) /\ Order(at) /\ phase = "build" /\ stack # << >> /\ Len(stack) > 1
  BY DEF Inv, PackageBuilt, Building, Static
<1> DEFINE n == Len(stack) - 1
<1>2. /\ n + 1 = Len(stack) /\ Top = stack[n + 1]
      /\ n \in 1 .. Len(stack) /\ n + 1 \in 1 .. Len(stack) /\ n \in 1 .. Len(stack) - 1
      /\ \A i \in 1 .. Len(stack) : stack[i] \in Frames /\ stack[i].pkg \in OnStack
  BY <1>1, TopFrame
<1>3. PICK u \in Frames, q \in Pkgs : u = stack[n] /\ q = Top.pkg
  BY <1>2 DEF Frames
<1>4. Reached(u) /\ Waits(u, q) /\ q \in OnStack
  BY <1>1, <1>2, <1>3 DEF Building1
<1>5. PICK p \in Pkgs, f \in Nat, k \in Nat :
        /\ p = u.pkg /\ f = u.file /\ k = Len(tables[p][f]) + 1
        /\ f \in 1 .. Len(tables[p])
  <2>1. /\ u.pkg \in Pkgs /\ u.file \in Nat /\ u.use \in Nat
        /\ u.file \in 1 .. Len(tables[u.pkg])
        /\ Len(tables[u.pkg][u.file]) + 1 = u.use
    BY <1>1, <1>4, NextEntry
  <2> QED
    BY <2>1
<1>6. q \notin Members(all)
  BY <1>1, <1>4 DEF Building1
<1>7. /\ tables' = Import(p, f, q, FALSE) /\ stack' = AdvanceUse(Below)
      /\ all' = Append(all, q)
      /\ UNCHANGED <<uses, fault, phase, parsed, checked>>
  BY <1>3, <1>5, <1>6 DEF PackageBuilt, Imported
<1>8. Entered(p, f, k, q, FALSE)
  BY <1>1, <1>5, <1>7, ImportEnters
<1>9. \A l \in Nat : Has(p, f, l) => Path(p, f, l) # q
  BY <1>1, <1>6, EntriesBuilt
<1>10. Unrepeated'
  BY <1>8, <1>9, EntryUnrepeated DEF VInv
<1>11. Lower
  BY <1>1, <1>7, ReturnedLower
<1>12. Members(all) \subseteq Members(all')
  BY <1>1, <1>7 DEF TypeOK, Members
<1> QED
  BY <1>1, <1>7, <1>10, <1>11, <1>12, GoesOnSound

\* The steps of the checks change no table.
LEMMA SameTables ==
  ASSUME UNCHANGED tables
  PROVE  Unrepeated' <=> Unrepeated
BY DEF Unrepeated, Has, Path

LEMMA VerdictSkips ==
  ASSUME TypeOK, VInv, SkipImport \/ FileChecked
  PROVE  VInv'
<1>1. /\ phase = "check" /\ stack # << >>
      /\ stack' \in {AdvanceUse(stack), AdvanceFile(stack)}
      /\ UNCHANGED <<uses, fault, phase, tables, all, parsed, checked>>
  BY DEF SkipImport, FileChecked, Checking
<1>2. Lower
  BY <1>1, AdvancedLower
<1>3. Unrepeated'
  BY <1>1, SameTables DEF VInv
<1> QED
  BY <1>1, <1>2, <1>3, GoesOnSound

LEMMA VerdictDescend ==
  ASSUME NEW at \in [Pkgs -> Nat], Inv(at), VInv, Descend
  PROVE  VInv'
<1>1. /\ TypeOK /\ Static(at) /\ Building1(at) /\ Building /\ HasUse
      /\ phase = "build" /\ stack # << >>
  BY DEF Inv, Descend, Building
<1>2. PICK q \in Pkgs : q = Used /\ q \in Uses(Top.pkg)
  <2>1. Top \in Frames /\ Reached(Top) /\ Waits(Top, Used)
    BY <1>1, UseAtTop
  <2>2. /\ Used \in Pkgs /\ Top.pkg \in Pkgs /\ Top.file \in Nat \ {0} /\ Top.use \in Nat \ {0}
        /\ Top.file <= Len(uses[Top.pkg]) /\ Top.use <= Len(uses[Top.pkg][Top.file])
        /\ uses[Top.pkg][Top.file][Top.use] = Used
    BY <2>1, <1>1, NextEntry, TopFrame
  <2>3. Top.file \in 1 .. Len(uses[Top.pkg])
    BY <1>1, <2>2, Typed
  <2>4. Top.use \in 1 .. Len(uses[Top.pkg][Top.file])
    BY <1>1, <2>2, <2>3, Typed
  <2> QED
    BY <2>2, <2>3, <2>4 DEF Uses, Members
<1>3. /\ stack' = Append(stack, First(q))
      /\ tables' = [tables EXCEPT ![q] = IF uses[q] = << >> THEN << >> ELSE << << >> >>]
      /\ parsed' = Append(parsed, q)
      /\ UNCHANGED <<uses, fault, phase, all, checked>>
      /\ fault[q] # "unreadable" /\ q \notin Members(all) /\ q \notin OnStack
  BY <1>2 DEF Descend, Open, Known, Cyclic
<1>4. tables[q] = << >>
  BY <1>1, <1>3 DEF Building1, Static
<1>5. SameEntries
  BY <1>1, <1>3, <1>4, Opened
<1>6. Unrepeated'
  BY <1>5, StillUnrepeated DEF VInv
<1>7. Top.pkg \in Program /\ Top.pkg \in Pkgs
  <2>1. Top.pkg \in Members(parsed) /\ Top.pkg \in Pkgs
    BY <1>1, TopFrame DEF Building1
  <2> QED
    BY <2>1 DEF VInv, ParsedSound
<1>8. ParsedSound'
  <2>1. Members(parsed') = Members(parsed) \cup {q}
    BY <1>1, <1>3, AppendNew DEF TypeOK
  <2>2. q \in Program
    BY <1>1, <1>2, <1>7, ProgramClosed
  <2>3. Program' = Program
    BY <1>3, SameProgram
  <2>4. Members(parsed)' = Members(parsed')
    BY DEF Members
  <2> QED
    BY <1>3, <2>1, <2>2, <2>3, <2>4 DEF VInv, ParsedSound
<1>9. CheckedSound'
  <2>1. Members(checked)' = Members(checked) /\ Members(all)' = Members(all)
    BY <1>3 DEF Members
  <2>2. \A p : Uses(p)' = Uses(p)
    BY <1>3, SameProgram
  <2> QED
    BY <1>3, <2>1, <2>2 DEF VInv, CheckedSound
<1>10. StackLeads'
  <2> DEFINE n == Len(stack)
  <2>1. /\ n \in Nat /\ n \in 1 .. n /\ Len(stack') = n + 1 /\ stack'[n + 1] = First(q)
        /\ \A i \in 1 .. n : stack'[i] = stack[i] /\ stack[i].pkg \in Pkgs
        /\ stack[n] = Top
    <3>1. First(q) \in Frames
      BY DEF First, Frames
    <3> QED
      BY <1>1, <1>3, <3>1, TopFrame DEF TypeOK
  <2>2. First(q).pkg = q
    BY DEF First
  <2>3. ASSUME NEW i \in 1 .. n PROVE q \in Beyond(stack[i].pkg)
    <3>1. CASE i = n
      BY <1>1, <1>2, <1>7, <2>1, <3>1, BeyondClosed
    <3>2. CASE i # n
      <4>1. i < n /\ n \in 1 .. Len(stack)
        BY <2>1, <3>2
      <4>2. Top.pkg \in Beyond(stack[i].pkg)
        <5> HIDE DEF n
        <5> QED
          BY <1>1, <2>1, <4>1 DEF VInv, StackLeads
      <4> QED
        BY <1>1, <1>2, <2>1, <4>2, BeyondClosed
    <3> QED
      BY <3>1, <3>2
  <2> SUFFICES ASSUME NEW i \in 1 .. n + 1, NEW j \in 1 .. n + 1, i < j
               PROVE  stack'[j].pkg \in Beyond(stack'[i].pkg)
    <3>1. \A p : Beyond(p)' = Beyond(p)
      BY <1>3, SameProgram
    <3> QED
      BY <2>1, <3>1 DEF StackLeads
  <2>4. i \in 1 .. n
    BY <2>1
  <2>5. CASE j = n + 1
    BY <2>1, <2>2, <2>3, <2>4, <2>5
  <2>6. CASE j # n + 1
    <3>1. j \in 1 .. n
      BY <2>1, <2>6
    <3>2. stack[j].pkg \in Beyond(stack[i].pkg)
      BY <1>1, <2>4, <3>1 DEF VInv, StackLeads
    <3> HIDE DEF n
    <3> QED
      BY <2>1, <2>4, <3>1, <3>2
  <2> QED
    BY <2>5, <2>6
<1> QED
  BY <1>1, <1>3, <1>6, <1>8, <1>9, <1>10 DEF VInv, WithFiles, AtEnd, Rejected

LEMMA VerdictProgramBuilt ==
  ASSUME NEW at \in [Pkgs -> Nat], Inv(at), VInv, ProgramBuilt
  PROVE  VInv'
<1>1. /\ TypeOK /\ phase' = "check" /\ stack' = <<First(Main)>>
      /\ UNCHANGED <<uses, fault, tables, all, parsed, checked>>
  BY DEF Inv, ProgramBuilt
<1>2. Unrepeated'
  BY <1>1, SameTables DEF VInv
<1>3. ParsedSound'
  BY <1>1, SameProgram DEF VInv, ParsedSound, Members
<1>4. CheckedSound'
  <2>1. Members(checked)' = Members(checked) /\ Members(all)' = Members(all)
    BY <1>1 DEF Members
  <2>2. \A p : Uses(p)' = Uses(p)
    BY <1>1, SameProgram
  <2> QED
    BY <1>1, <2>1, <2>2 DEF VInv, CheckedSound
<1>5. WithFiles'
  <2>1. \A i \in 1 .. Len(stack') : stack'[i] = First(Main)
    BY <1>1
  <2>2. First(Main).pkg = Main /\ uses[Main] # << >>
    BY <1>1, ProgramAssumption DEF First, TypeOK
  <2> QED
    BY <1>1, <2>1, <2>2 DEF WithFiles
<1> QED
  BY <1>1, <1>2, <1>3, <1>4, <1>5 DEF VInv, StackLeads, AtEnd, Rejected

LEMMA VerdictCheckImport ==
  ASSUME NEW at \in [Pkgs -> Nat], Inv(at), VInv, CheckImport
  PROVE  VInv'
<1>1. /\ TypeOK /\ Static(at) /\ Order(at) /\ Checking1(at) /\ phase = "check" /\ HasImport
      /\ tables[Imp.path] # << >> /\ stack' = Append(stack, First(Imp.path))
      /\ UNCHANGED <<uses, fault, phase, tables, all, parsed, checked>>
  BY DEF Inv, CheckImport, Checking, Static
<1>2. /\ Has(Top.pkg, Top.file, Top.use) /\ Imp.path = Path(Top.pkg, Top.file, Top.use)
      /\ Top.pkg \in Pkgs /\ Top.file \in Nat /\ Top.use \in Nat
  BY <1>1, ImportAtTop
<1>3. PICK q \in Pkgs : q = Imp.path /\ q \in Members(all)
  BY <1>1, <1>2, Typed, EntriesBuilt DEF Has
<1>4. uses[q] # << >>
  <2>1. Built(q) /\ tables[q] # << >>
    BY <1>1, <1>3 DEF Static
  <2>2. Len(tables[q]) # 0
    <3>1. tables[q] \in Seq(Seq(Imports))
      BY <1>1, Typed
    <3> QED
      BY <2>1, <3>1
  <2>3. Len(<< >>) = 0
    OBVIOUS
  <2> QED
    BY <2>1, <2>2, <2>3 DEF Built
<1>5. Unrepeated'
  BY <1>1, SameTables DEF VInv
<1>6. ParsedSound'
  BY <1>1, SameProgram DEF VInv, ParsedSound, Members
<1>7. CheckedSound'
  <2>1. Members(checked)' = Members(checked) /\ Members(all)' = Members(all)
    BY <1>1 DEF Members
  <2>2. \A p : Uses(p)' = Uses(p)
    BY <1>1, SameProgram
  <2> QED
    BY <1>1, <2>1, <2>2 DEF VInv, CheckedSound
<1>8. WithFiles'
  <2>1. First(q) \in Frames /\ First(q).pkg = q
    BY DEF First, Frames
  <2>2. \A i \in 1 .. Len(stack') :
          \/ stack'[i] = First(q)
          \/ i \in 1 .. Len(stack) /\ stack'[i] = stack[i]
    <3>1. PICK r \in Seq(Frames), g \in Frames : r = stack /\ g = First(q)
      BY <1>1, <2>1 DEF TypeOK
    <3>2. /\ Len(r) \in Nat /\ Len(Append(r, g)) = Len(r) + 1 /\ Append(r, g)[Len(r) + 1] = g
          /\ \A i \in 1 .. Len(r) : Append(r, g)[i] = r[i]
      OBVIOUS
    <3>3. \A i \in 1 .. Len(r) + 1 : i = Len(r) + 1 \/ i \in 1 .. Len(r)
      BY <3>2
    <3>4. stack' = Append(r, g)
      BY <1>1, <1>3, <3>1
    <3> QED
      BY <3>1, <3>2, <3>3, <3>4
  <2> QED
    BY <1>1, <1>4, <2>1, <2>2 DEF VInv, WithFiles
<1> QED
  BY <1>1, <1>5, <1>6, <1>7, <1>8 DEF VInv, StackLeads, AtEnd, Rejected

LEMMA VerdictCheckDecls ==
  ASSUME NEW at \in [Pkgs -> Nat], Inv(at), VInv, CheckDecls
  PROVE  VInv'
<1>1. /\ TypeOK /\ Checking1(at) /\ phase = "check" /\ ~HasFile /\ stack # << >>
      /\ fault[Top.pkg] # "faulty" /\ checked' = Append(checked, Top.pkg)
      /\ UNCHANGED <<uses, fault, tables, all, parsed>>
  BY DEF Inv, CheckDecls, Checking
<1>2. /\ Top.pkg \in Pkgs /\ Top.pkg \in Members(all) \cup {Main}
      /\ Len(stack) \in Nat /\ Len(stack) \in 1 .. Len(stack) /\ Top = stack[Len(stack)]
  BY <1>1, ImportAtTop, TopFrame
<1>3. uses[Top.pkg] # << >>
  BY <1>1, <1>2 DEF VInv, WithFiles
<1>4. \A q \in Uses(Top.pkg) : uses[q] # << >> => q \in Members(checked)
  BY <1>1, UsesDone
<1>5. Members(checked)' = Members(checked) \cup {Top.pkg}
  <2>1. Members(checked') = Members(checked) \cup {Top.pkg}
    BY <1>1, <1>2, AppendNew DEF TypeOK
  <2> QED
    BY <2>1 DEF Members
<1>6. CheckedSound'
  <2>1. Members(all)' = Members(all) /\ \A p : Uses(p)' = Uses(p)
    BY <1>1, SameProgram DEF Members
  <2> QED
    BY <1>1, <1>2, <1>3, <1>4, <1>5, <2>1 DEF VInv, CheckedSound
<1>7. Unrepeated'
  BY <1>1, SameTables DEF VInv
<1>8. ParsedSound'
  BY <1>1, SameProgram DEF VInv, ParsedSound, Members
<1>9. CASE Len(stack) = 1
  <2>1. phase' = "done" /\ Top.pkg = Main
    BY <1>1, <1>2, <1>9 DEF CheckDecls, Checking1, Stacked
  <2>2. AtEnd'
    BY <1>1, <1>5, <2>1 DEF AtEnd, Checking1, Built
  <2> QED
    BY <1>6, <1>7, <1>8, <2>1, <2>2 DEF VInv, StackLeads, WithFiles, Rejected
<1>10. CASE Len(stack) # 1
  <2>1. phase' = phase /\ stack' = AdvanceUse(Below) /\ Len(stack) > 1
    <3>1. \A m \in Nat : m \in 1 .. m /\ m # 1 => m > 1
      OBVIOUS
    <3> QED
      BY <1>2, <1>10, <3>1 DEF CheckDecls
  <2>2. Lower
    BY <1>1, <2>1, ReturnedLower
  <2>3. StackLeads' /\ WithFiles'
    BY <1>1, <2>1, <2>2, StillLeads DEF VInv
  <2> QED
    BY <1>1, <1>6, <1>7, <1>8, <2>1, <2>3 DEF VInv, AtEnd, Rejected
<1> QED
  BY <1>9, <1>10

\* An error changes nothing but the phase.
LEMMA FailSound ==
  ASSUME VInv, Fail, ~Acceptable
  PROVE  VInv'
<1>1. phase' = "error" /\ UNCHANGED <<uses, fault, stack, tables, all, parsed, checked>>
  BY DEF Fail
<1>2. Unrepeated'
  BY <1>1, SameTables DEF VInv
<1>3. ParsedSound'
  BY <1>1, SameProgram DEF VInv, ParsedSound, Members
<1>4. CheckedSound'
  <2>1. Members(checked)' = Members(checked) /\ Members(all)' = Members(all)
    BY <1>1 DEF Members
  <2>2. \A p : Uses(p)' = Uses(p)
    BY <1>1, SameProgram
  <2> QED
    BY <1>1, <2>1, <2>2 DEF VInv, CheckedSound
<1>5. ~Acceptable'
  BY <1>1, SameProgram
<1> QED
  BY <1>1, <1>2, <1>3, <1>4, <1>5 DEF VInv, StackLeads, WithFiles, AtEnd, Rejected

\* A use declaration that is rejected is one of a program that should be.
LEMMA RejectedUse ==
  ASSUME NEW at \in [Pkgs -> Nat], Inv(at), VInv, RejectUse
  PROVE  ~Acceptable
<1>1. /\ TypeOK /\ Static(at) /\ Order(at) /\ Building1(at) /\ Building /\ HasUse
      /\ phase = "build" /\ stack # << >>
  BY DEF Inv, RejectUse, Building, Static
<1>2. Top \in Frames /\ Reached(Top) /\ Waits(Top, Used)
  BY <1>1, UseAtTop
<1>3. PICK p \in Pkgs, f \in Nat, k \in Nat, q \in Pkgs :
        /\ p = Top.pkg /\ f = Top.file /\ k = Top.use /\ q = Used
        /\ f \in 1 .. Len(tables[p]) /\ Len(tables[p][f]) + 1 = k
        /\ f <= Len(uses[p]) /\ k <= Len(uses[p][f]) /\ uses[p][f][k] = q
  <2>1. /\ Top.pkg \in Pkgs /\ Top.file \in Nat /\ Top.use \in Nat /\ Used \in Pkgs
        /\ Top.file \in 1 .. Len(tables[Top.pkg])
        /\ Len(tables[Top.pkg][Top.file]) + 1 = Top.use
        /\ Top.file <= Len(uses[Top.pkg]) /\ Top.use <= Len(uses[Top.pkg][Top.file])
        /\ uses[Top.pkg][Top.file][Top.use] = Used
    BY <1>1, <1>2, NextEntry
  <2> QED
    BY <2>1
<1>4. f \in 1 .. Len(uses[p]) /\ k \in 1 .. Len(uses[p][f]) /\ Len(tables[p][f]) \in Nat
  <2>1. Len(tables[p]) \in Nat /\ Len(uses[p]) \in Nat
    BY <1>1, Typed
  <2>2. f \in 1 .. Len(uses[p])
    BY <1>3, <2>1
  <2>3. Len(tables[p][f]) \in Nat /\ Len(uses[p][f]) \in Nat
    BY <1>1, <1>3, <2>2, Typed
  <2> QED
    BY <1>3, <2>2, <2>3
<1>5. p \in Program /\ q \in Uses(p) /\ q \in Program
  <2>1. p \in Members(parsed)
    BY <1>1, <1>3, TopFrame DEF Building1
  <2>2. p \in Program
    BY <2>1 DEF VInv, ParsedSound
  <2>3. q \in Uses(p)
    BY <1>3, <1>4 DEF Uses, Members
  <2> QED
    BY <1>1, <2>2, <2>3, ProgramClosed
<1>6. CASE Repeated
  <2>1. PICK l \in 1 .. Len(tables[p][f]) : tables[p][f][l].path = q
    BY <1>3, <1>6 DEF Repeated, Table
  <2>2. Has(p, f, l) /\ Path(p, f, l) = q /\ l \in Nat
    BY <1>3, <1>4, <2>1 DEF Has, Path
  <2>3. uses[p][f][l] = q
    BY <1>1, <1>3, <2>2 DEF Order, Faithful
  <2>4. l \in 1 .. Len(uses[p][f]) /\ l # k
    <3>1. PICK m \in Nat, n \in Nat : m = Len(tables[p][f]) /\ n = Len(uses[p][f])
      BY <1>1, <1>4, Typed
    <3>2. m + 1 = k /\ k <= n /\ l \in 1 .. m
      BY <1>3, <2>1, <3>1
    <3>3. l \in 1 .. n /\ l # k
      BY <3>1, <3>2
    <3> QED
      BY <3>1, <3>3
  <2>5. ~NoRepeats(uses[p][f])
    BY <1>3, <1>4, <2>3, <2>4 DEF NoRepeats
  <2> QED
    BY <1>4, <1>5, <2>5 DEF Acceptable
<1>7. CASE fault[Used] = "unreadable"
  BY <1>3, <1>5, <1>7 DEF Acceptable
<1>8. CASE Cyclic
  <2> DEFINE n == Len(stack)
  <2>1. PICK i \in 1 .. n : stack[i].pkg = q
    BY <1>3, <1>8 DEF Cyclic, OnStack
  <2>2. n \in Nat /\ n \in 1 .. n /\ Top = stack[n]
    BY <1>1, TopFrame
  <2>3. q \in Beyond(q)
    <3>1. CASE i = n
      BY <1>1, <1>3, <1>5, <2>1, <2>2, <3>1, BeyondClosed
    <3>2. CASE i # n
      <4>1. i < n
        BY <2>1, <2>2, <3>2
      <4>2. p \in Beyond(q)
        <5> HIDE DEF n
        <5>1. n = Len(stack)
          BY DEF n
        <5> QED
          BY <1>1, <1>3, <2>1, <2>2, <4>1, <5>1 DEF VInv, StackLeads
      <4> QED
        BY <1>1, <1>5, <4>2, BeyondClosed
    <3> QED
      BY <3>1, <3>2
  <2> QED
    BY <1>5, <2>3 DEF Acceptable
<1> QED
  BY <1>6, <1>7, <1>8 DEF RejectUse

LEMMA RejectedDecls ==
  ASSUME NEW at \in [Pkgs -> Nat], Inv(at), VInv, RejectDecls
  PROVE  ~Acceptable
<1>1. /\ TypeOK /\ Static(at) /\ Checking1(at) /\ phase = "check" /\ stack # << >>
      /\ fault[Top.pkg] = "faulty"
  BY DEF Inv, RejectDecls, Checking
<1>2. /\ Top.pkg \in Members(all) \cup {Main}
      /\ Len(stack) \in 1 .. Len(stack) /\ Top = stack[Len(stack)]
  BY <1>1, ImportAtTop, TopFrame
<1>3. uses[Top.pkg] # << >>
  BY <1>1, <1>2 DEF VInv, WithFiles
<1>4. Top.pkg \in Members(parsed)
  BY <1>1, <1>2 DEF VInv, ParsedSound, Static
<1>5. Top.pkg \in Program
  BY <1>4 DEF VInv, ParsedSound
<1> QED
  BY <1>1, <1>3, <1>5 DEF Acceptable

LEMMA VerdictInit == Init => VInv
<1> SUFFICES ASSUME Init PROVE VInv
  OBVIOUS
<1>1. Members(parsed) = {Main} /\ Members(checked) = {}
  BY DEF Init, Members
<1>2. ParsedSound
  BY <1>1 DEF Init, ParsedSound, Program
<1>3. \A p \in Pkgs : \A f, k \in Nat : ~Has(p, f, k)
  <2> TAKE p \in Pkgs
  <2> TAKE f, k \in Nat
  <2>1. tables[p] = << << >> >> \/ tables[p] = << >>
    BY DEF Init
  <2>2. ASSUME tables[p] = << << >> >>, Has(p, f, k)
        PROVE  FALSE
    <3>1. f = 1
      BY <2>2 DEF Has
    <3>2. k \in 1 .. Len(<< >>)
      BY <2>2, <3>1 DEF Has
    <3> QED
      BY <3>2
  <2>3. ASSUME tables[p] = << >>, Has(p, f, k)
        PROVE  FALSE
    BY <2>3 DEF Has
  <2> QED
    BY <2>1, <2>2, <2>3
<1>4. Unrepeated
  BY <1>3 DEF Unrepeated
<1>5. StackLeads
  <2>1. Len(stack) = 1
    BY DEF Init
  <2>2. \A i, j \in 1 .. Len(stack) : ~(i < j)
    BY <2>1
  <2> QED
    BY <2>2 DEF StackLeads
<1> QED
  BY <1>1, <1>2, <1>4, <1>5 DEF VInv, Init, CheckedSound, WithFiles, AtEnd, Rejected

LEMMA VerdictStutter ==
  ASSUME VInv, UNCHANGED vars
  PROVE  VInv'
<1>1. UNCHANGED <<uses, fault, phase, stack, tables, all, parsed, checked>>
  BY DEF vars
<1>2. Unrepeated'
  BY <1>1, SameTables DEF VInv
<1>3. ParsedSound'
  BY <1>1, SameProgram DEF VInv, ParsedSound, Members
<1>4. CheckedSound'
  <2>1. Members(checked)' = Members(checked) /\ Members(all)' = Members(all)
    BY <1>1 DEF Members
  <2>2. \A p : Uses(p)' = Uses(p)
    BY <1>1, SameProgram
  <2> QED
    BY <1>1, <2>1, <2>2 DEF VInv, CheckedSound
<1>5. StackLeads' /\ WithFiles'
  BY <1>1, SameProgram DEF VInv, StackLeads, WithFiles
<1>6. AtEnd'
  BY <1>1 DEF VInv, AtEnd, Members, Built
<1>7. Rejected'
  BY <1>1, SameProgram DEF VInv, Rejected
<1> QED
  BY <1>2, <1>3, <1>4, <1>5, <1>6, <1>7 DEF VInv

LEMMA VerdictNext == IInv /\ VInv /\ [Next]_vars => VInv'
<1> SUFFICES ASSUME IInv, VInv, [Next]_vars PROVE VInv'
  OBVIOUS
<1>1. PICK at \in [Pkgs -> Nat] : Inv(at)
  BY DEF IInv
<1>2. TypeOK
  BY <1>1 DEF Inv
<1>3. CASE RejectUse
  BY <1>1, <1>3, RejectedUse, FailSound DEF RejectUse
<1>4. CASE Reuse
  BY <1>1, <1>4, VerdictReuse
<1>5. CASE Descend
  BY <1>1, <1>5, VerdictDescend
<1>6. CASE FileBuilt
  BY <1>1, <1>6, VerdictFileBuilt
<1>7. CASE PackageBuilt
  BY <1>1, <1>7, VerdictPackageBuilt
<1>8. CASE ProgramBuilt
  BY <1>1, <1>8, VerdictProgramBuilt
<1>9. CASE SkipImport \/ FileChecked
  BY <1>2, <1>9, VerdictSkips
<1>10. CASE CheckImport
  BY <1>1, <1>10, VerdictCheckImport
<1>11. CASE CheckDecls
  BY <1>1, <1>11, VerdictCheckDecls
<1>12. CASE RejectDecls
  BY <1>1, <1>12, RejectedDecls, FailSound DEF RejectDecls
<1>13. CASE UNCHANGED vars
  BY <1>13, VerdictStutter
<1> QED
  BY <1>3, <1>4, <1>5, <1>6, <1>7, <1>8, <1>9, <1>10, <1>11, <1>12, <1>13 DEF Next

LEMMA VerdictInvariance == Spec => [](IInv /\ VInv)
BY InitInv, NextInv, VerdictInit, VerdictNext, PTL DEF Spec

\* What all_packages lists, and the main package, is all of the program.
LEMMA WholeProgram ==
  ASSUME NEW at \in [Pkgs -> Nat], Inv(at), VInv, phase = "done"
  PROVE  /\ Program = Members(all) \cup {Main}
         /\ Uses(Main) \subseteq Members(all)
         /\ \A r \in Members(all) : Uses(r) \subseteq Members(all)
<1>1. TypeOK /\ Static(at) /\ Order(at) /\ Built(Main) /\ Main \in Members(checked)
  BY DEF Inv, Static, VInv, AtEnd
<1>2. Uses(Main) \subseteq Members(all)
  <2> SUFFICES ASSUME NEW q \in Uses(Main) PROVE q \in Members(all)
    OBVIOUS
  <2>1. PICK f \in Nat, k \in Nat : Has(Main, f, k) /\ Path(Main, f, k) = q
    BY <1>1, MainAssumption, AllEntered DEF Order
  <2> QED
    BY <1>1, <2>1, MainAssumption, EntriesBuilt
<1>3. ASSUME NEW r \in Members(all), NEW q \in Uses(r)
      PROVE  q \in Members(all)
  <2>1. PICK i \in 1 .. Len(all) : r = all[i]
    BY DEF Members
  <2>2. q \in Members(SubSeq(all, 1, i - 1))
    BY <1>1, <2>1 DEF Static, UsesFirst
  <2>3. /\ Len(SubSeq(all, 1, i - 1)) = i - 1
        /\ \A j \in 1 .. i - 1 : j \in 1 .. Len(all) /\ SubSeq(all, 1, i - 1)[j] = all[j]
    BY <1>1 DEF TypeOK
  <2> QED
    BY <2>2, <2>3 DEF Members
<1>4. Members(all) \subseteq Pkgs
  BY <1>1, MembersType DEF TypeOK
<1>5. Program \subseteq Members(all) \cup {Main}
  <2>1. Beyond(Main) \subseteq Members(all)
    BY <1>2, <1>3, <1>4, MainAssumption, BeyondLeast
  <2> QED
    BY <2>1 DEF Program
<1>6. Members(all) \cup {Main} \subseteq Program
  BY <1>1 DEF Static, VInv, ParsedSound, Program
<1> QED
  BY <1>2, <1>3, <1>5, <1>6

\* Every package with files was checked.
LEMMA WholeChecked ==
  ASSUME NEW at \in [Pkgs -> Nat], Inv(at), VInv, phase = "done"
  PROVE  Members(checked) = {p \in Program : uses[p] # << >>}
<1>1. TypeOK /\ Main \in Members(checked)
  BY DEF Inv, VInv, AtEnd
<1>2. /\ Program = Members(all) \cup {Main} /\ Program \subseteq Pkgs
      /\ \A r \in Program : Uses(r) \subseteq Program
  BY <1>1, WholeProgram, ProgramClosed
<1> DEFINE C == {p \in Program : uses[p] # << >> => p \in Members(checked)}
<1>3. ASSUME NEW r \in C
      PROVE  Uses(r) \subseteq C
  <2>1. CASE uses[r] = << >>
    <3>1. 1 .. Len(uses[r]) = {}
      BY <2>1
    <3> QED
      BY <3>1 DEF Uses
  <2>2. CASE uses[r] # << >>
    BY <1>2, <1>3, <2>2 DEF VInv, CheckedSound
  <2> QED
    BY <2>1, <2>2
<1>4. Main \in C
  BY <1>1, <1>2
<1>5. Program \subseteq C
  <2>1. Uses(Main) \subseteq C /\ C \in SUBSET Pkgs
    BY <1>2, <1>3, <1>4
  <2> HIDE DEF C
  <2>2. Beyond(Main) \subseteq C
    BY <1>3, <2>1, MainAssumption, BeyondLeast
  <2> QED
    BY <1>4, <2>2 DEF Program
<1>6. Members(checked) \subseteq {p \in Program : uses[p] # << >>}
  BY <1>2 DEF VInv, CheckedSound
<1> QED
  BY <1>5, <1>6

\* No package of a program that was accepted leads to itself.
LEMMA NoCycle ==
  ASSUME NEW at \in [Pkgs -> Nat], Inv(at), VInv, phase = "done", NEW p \in Program
  PROVE  p \notin Beyond(p)
<1>1. TypeOK /\ Static(at) /\ all \in Seq(Pkgs) /\ Main \notin Members(all)
  BY DEF Inv, Static, TypeOK
<1>2. /\ Program = Members(all) \cup {Main}
      /\ Uses(Main) \subseteq Members(all)
      /\ \A r \in Members(all) : Uses(r) \subseteq Members(all)
  BY WholeProgram
<1>3. CASE p = Main
  <2>1. Members(all) \in SUBSET Pkgs
    BY <1>1, MembersType
  <2>2. Beyond(Main) \subseteq Members(all)
    BY <1>2, <2>1, MainAssumption, BeyondLeast
  <2> QED
    BY <1>1, <1>3, <2>2
<1>4. CASE p \in Members(all)
  <2>1. PICK i \in 1 .. Len(all) : p = all[i]
    BY <1>4 DEF Members
  <2> DEFINE Sub(j) == SubSeq(all, 1, j - 1)
  <2>2. \A j \in 1 .. Len(all) :
          /\ Sub(j) \in Seq(Pkgs) /\ Len(Sub(j)) = j - 1
          /\ \A m \in 1 .. j - 1 : m \in 1 .. Len(all) /\ Sub(j)[m] = all[m]
    BY <1>1
  <2>3. \A j \in 1 .. Len(all) : Uses(all[j]) \subseteq Members(Sub(j))
    BY <1>1 DEF Static, UsesFirst
  <2> HIDE DEF Sub
  <2>4. \A j \in 1 .. Len(all) : Members(Sub(j)) = {all[m] : m \in 1 .. j - 1}
    BY <2>2 DEF Members
  <2> DEFINE S == {all[m] : m \in 1 .. i - 1}
  <2>5. ASSUME NEW r \in S
        PROVE  Uses(r) \subseteq S
    <3>1. PICK m \in 1 .. i - 1 : r = all[m]
      OBVIOUS
    <3>2. m \in 1 .. Len(all) /\ \A l \in 1 .. m - 1 : l \in 1 .. i - 1
      BY <1>1, <2>1, <3>1
    <3> QED
      BY <2>3, <2>4, <3>1, <3>2
  <2>6. Uses(p) \subseteq S /\ p \in Pkgs /\ S \in SUBSET Pkgs
    <3>1. \A m \in 1 .. i - 1 : m \in 1 .. Len(all)
      BY <2>1
    <3> QED
      <4>1. Uses(p) \subseteq S
        BY <2>1, <2>3, <2>4
      <4>2. p \in Pkgs /\ \A m \in 1 .. Len(all) : all[m] \in Pkgs
        BY <1>1, <2>1
      <4> QED
        BY <3>1, <4>1, <4>2
  <2>7. p \notin S
    <3> SUFFICES ASSUME NEW m \in 1 .. i - 1, all[m] = p PROVE FALSE
      OBVIOUS
    <3>1. m \in 1 .. Len(all) /\ m # i
      BY <2>1
    <3> QED
      BY <1>1, <2>1, <3>1 DEF Static, ParsedOnce, NoRepeats
  <2> HIDE DEF S
  <2>8. Beyond(p) \subseteq S
    BY <2>5, <2>6, BeyondLeast
  <2> QED
    BY <2>7, <2>8
<1> QED
  BY <1>2, <1>3, <1>4

LEMMA AcceptedIsAcceptable ==
  ASSUME NEW at \in [Pkgs -> Nat], Inv(at), VInv, phase = "done"
  PROVE  Acceptable
<1>1. /\ TypeOK /\ Static(at) /\ Order(at) /\ Built(Main) /\ Unrepeated
      /\ Program = Members(all) \cup {Main} /\ Program \subseteq Pkgs
  BY WholeProgram, ProgramClosed DEF Inv, Static, VInv, AtEnd
<1> SUFFICES ASSUME NEW p \in Program
             PROVE  /\ fault[p] # "unreadable" /\ (fault[p] = "faulty" => uses[p] = << >>)
                    /\ p \notin Beyond(p)
                    /\ \A f \in 1 .. Len(uses[p]) : NoRepeats(uses[p][f])
  BY DEF Acceptable
<1>2. fault[p] # "unreadable"
  BY <1>1 DEF Static, VInv, ParsedSound
<1>3. fault[p] = "faulty" => uses[p] = << >>
  BY WholeChecked DEF VInv, CheckedSound
<1>4. p \notin Beyond(p)
  BY NoCycle
<1>5. ASSUME NEW f \in 1 .. Len(uses[p]),
             NEW k \in 1 .. Len(uses[p][f]), NEW l \in 1 .. Len(uses[p][f]),
             uses[p][f][k] = uses[p][f][l]
      PROVE  k = l
  <2>1. p \in Pkgs /\ Built(p)
    BY <1>1 DEF Static
  <2>2. f \in Nat /\ k \in Nat /\ l \in Nat
    <3>1. Len(uses[p]) \in Nat /\ Len(uses[p][f]) \in Nat
      BY <1>1, <2>1, Typed
    <3> QED
      BY <3>1
  <2>3. Has(p, f, k) /\ Has(p, f, l)
    BY <2>1 DEF Has, Built
  <2>4. Path(p, f, k) = Path(p, f, l)
    <3>1. Path(p, f, k) = uses[p][f][k] /\ Path(p, f, l) = uses[p][f][l]
      BY <1>1, <2>1, <2>2, <2>3 DEF Order, Faithful
    <3> QED
      BY <1>5, <3>1
  <2> QED
    BY <1>1, <2>1, <2>2, <2>3, <2>4 DEF Unrepeated
<1> QED
  BY <1>2, <1>3, <1>4, <1>5 DEF NoRepeats

\* The compiler accepts the programs it should, and no other: cycles are found
\* in whatever order packages are named, by a search that only ever looks at
\* the packages that wait, and a file that uses a package twice, a package that
\* cannot be read and one that is wrong are found wherever they are.
THEOREM VerdictIsRight == Spec => []Verdict
<1>1. IInv /\ VInv => Verdict
  <2> SUFFICES ASSUME IInv, VInv PROVE Verdict
    OBVIOUS
  <2>1. PICK at \in [Pkgs -> Nat] : Inv(at)
    BY DEF IInv
  <2> QED
    BY <2>1, AcceptedIsAcceptable DEF Verdict, VInv, Rejected
<1> QED
  BY <1>1, VerdictInvariance, PTL

\* What was accepted has been loaded and checked as a whole.
THEOREM ProgramIsComplete == Spec => []Complete
<1>1. IInv /\ VInv => Complete
  <2> SUFFICES ASSUME IInv, VInv, phase = "done"
               PROVE  /\ Members(all) = Program \ {Main}
                      /\ Members(checked) = {p \in Program : uses[p] # << >>}
    BY DEF Complete
  <2>1. PICK at \in [Pkgs -> Nat] : Inv(at)
    BY DEF IInv
  <2>2. Main \notin Members(all)
    BY <2>1 DEF Inv, Static
  <2> QED
    BY <2>1, <2>2, WholeProgram, WholeChecked
<1> QED
  BY <1>1, VerdictInvariance, PTL

-----------------------------------------------------------------------------
(* Why the compiler ends *)

\* How many of the numbers from x to n there are.
UpTo(n, x) == IF x <= n THEN n + 1 - x ELSE 0

\* What lies before the compiler: packages to open, packages to leave, and the
\* files and use declarations, or imports, of the package at hand.
Lists == IF phase = "build" THEN uses[Top.pkg] ELSE tables[Top.pkg]
Unopened == IF phase = "build" THEN Pkgs \ Members(parsed)
            ELSE Pkgs \ (Members(checked) \cup OnStack)
FilesLeft == UpTo(Len(Lists), Top.file)
EntriesLeft == IF FilesLeft = 0 THEN 0 ELSE UpTo(Len(Lists[Top.file]), Top.use)

Over == [phase |-> 0, packages |-> 0, depth |-> 0, files |-> 0, entries |-> 0]
Ahead ==
  IF phase \in {"done", "error"} THEN Over
  ELSE [phase |-> IF phase = "build" THEN 2 ELSE 1,
        packages |-> Cardinality(Unopened), depth |-> Len(stack),
        files |-> FilesLeft, entries |-> EntriesLeft]

Amounts == [phase : Nat, packages : Nat, depth : Nat, files : Nat, entries : Nat]

\* The lexicographic order, which descends only finitely often.
Less(m, n) ==
  \/ m.phase < n.phase
  \/ /\ m.phase = n.phase
     /\ \/ m.packages < n.packages
        \/ /\ m.packages = n.packages
           /\ \/ m.depth < n.depth
              \/ /\ m.depth = n.depth
                 /\ \/ m.files < n.files
                    \/ m.files = n.files /\ m.entries < n.entries

Descends == Ahead \in Amounts /\ Ahead' \in Amounts /\ Less(Ahead', Ahead)

LEMMA AheadTyped ==
  ASSUME IInv, IsFiniteSet(Pkgs)
  PROVE  /\ Ahead \in Amounts
         /\ IsFiniteSet(Unopened)
         /\ phase \in {"build", "check"} =>
              /\ stack # << >>
              /\ Lists \in Seq(Seq(Pkgs)) \cup Seq(Seq(Imports)) /\ Len(Lists) \in Nat
              /\ FilesLeft \in Nat /\ EntriesLeft \in Nat
<1>1. PICK at \in [Pkgs -> Nat] : Inv(at)
  BY DEF IInv
<1>2. phase \in {"build", "check"} => stack # << >>
  BY <1>1 DEF Inv, Building1, Checking1, Stacked
<1>3. TypeOK
  BY <1>1 DEF Inv
<1>4. Unopened \subseteq Pkgs
  BY DEF Unopened
<1>5. IsFiniteSet(Unopened) /\ Cardinality(Unopened) \in Nat
  BY <1>4, FS_Subset, FS_CardinalityType
<1>6. ASSUME phase \in {"build", "check"}
      PROVE  /\ Lists \in Seq(Seq(Pkgs)) \cup Seq(Seq(Imports)) /\ Len(Lists) \in Nat
             /\ FilesLeft \in Nat /\ EntriesLeft \in Nat
  <2>1. Top.pkg \in Pkgs /\ Top.file \in Nat \ {0} /\ Top.use \in Nat \ {0}
    BY <1>2, <1>3, <1>6, TopFrame
  <2>2. /\ Lists \in Seq(Seq(Pkgs)) \cup Seq(Seq(Imports)) /\ Len(Lists) \in Nat
        /\ \A f \in 1 .. Len(Lists) : Len(Lists[f]) \in Nat
    BY <1>3, <2>1, Typed DEF Lists
  <2>3. FilesLeft \in Nat /\ (FilesLeft # 0 => Top.file \in 1 .. Len(Lists))
    BY <2>1, <2>2 DEF FilesLeft, UpTo
  <2>4. EntriesLeft \in Nat
    BY <2>1, <2>2, <2>3 DEF EntriesLeft, UpTo
  <2> QED
    BY <2>2, <2>3, <2>4
<1>7. phase \in {"build", "check", "done", "error"} /\ Len(stack) \in Nat
  BY <1>3 DEF TypeOK
<1>8. Ahead \in Amounts
  BY <1>5, <1>6, <1>7 DEF Ahead, Over, Amounts
<1> QED
  BY <1>2, <1>5, <1>6, <1>8

\* In the same phase, the parts of Ahead decide.
LEMMA LessInPhase ==
  ASSUME phase \in {"build", "check"}, phase' = phase,
         \/ Cardinality(Unopened') < Cardinality(Unopened)
         \/ /\ Unopened' = Unopened
            /\ \/ Len(stack') < Len(stack)
               \/ /\ Len(stack') = Len(stack)
                  /\ \/ FilesLeft' < FilesLeft
                     \/ FilesLeft' = FilesLeft /\ EntriesLeft' < EntriesLeft
  PROVE  Less(Ahead', Ahead)
<1>1. /\ Ahead.packages = Cardinality(Unopened) /\ Ahead.depth = Len(stack)
      /\ Ahead.files = FilesLeft /\ Ahead.entries = EntriesLeft
  BY DEF Ahead
<1>2. /\ Ahead'.packages = Cardinality(Unopened') /\ Ahead'.depth = Len(stack')
      /\ Ahead'.files = FilesLeft' /\ Ahead'.entries = EntriesLeft'
  BY DEF Ahead
<1>3. Ahead'.phase = Ahead.phase
  BY DEF Ahead
<1> QED
  BY <1>1, <1>2, <1>3 DEF Less

\* The stack of the same packages, one entry or one file further.
LEMMA MovesOn ==
  ASSUME TypeOK, stack # << >>, stack' \in {AdvanceUse(stack), AdvanceFile(stack)}
  PROVE  /\ Len(stack') = Len(stack) /\ OnStack' = OnStack
         /\ Top'.pkg = Top.pkg
         /\ stack' = AdvanceUse(stack) => Top'.file = Top.file /\ Top'.use = Top.use + 1
         /\ stack' = AdvanceFile(stack) => Top'.file = Top.file + 1
<1>1. stack \in Seq(Frames) /\ Top = stack[Len(stack)]
  BY DEF TypeOK, Top
<1>2. /\ Len(stack') \in Nat /\ Len(stack') = Len(stack)
      /\ \A i \in 1 .. Len(stack) : stack'[i].pkg = stack[i].pkg
  BY <1>1, AdvancedPackages
<1>3. OnStack' = OnStack
  BY <1>2 DEF OnStack
<1>4. Top' = stack'[Len(stack)]
  BY <1>2 DEF Top
<1>5. stack' = AdvanceUse(stack) =>
        Top' = [pkg |-> Top.pkg, file |-> Top.file, use |-> Top.use + 1]
  BY <1>1, <1>4, Advanced
<1>6. stack' = AdvanceFile(stack) =>
        Top' = [pkg |-> Top.pkg, file |-> Top.file + 1, use |-> 1]
  BY <1>1, <1>4, Advanced
<1> QED
  BY <1>2, <1>3, <1>5, <1>6

LEMMA EntryPassed ==
  ASSUME IInv, IsFiniteSet(Pkgs), phase \in {"build", "check"}, phase' = phase,
         Top.file <= Len(Lists), Top.use <= Len(Lists[Top.file]),
         stack' = AdvanceUse(stack), UNCHANGED <<uses, parsed, checked>>,
         phase = "check" => UNCHANGED tables
  PROVE  Less(Ahead', Ahead)
<1>1. TypeOK /\ stack # << >> /\ Len(Lists) \in Nat
  BY AheadTyped DEF IInv, Inv
<1>2. /\ Len(stack') = Len(stack) /\ OnStack' = OnStack /\ Top'.pkg = Top.pkg
      /\ Top'.file = Top.file /\ Top'.use = Top.use + 1
  BY <1>1, MovesOn
<1>3. Unopened' = Unopened /\ Lists' = Lists
  BY <1>2 DEF Unopened, Lists, Members
<1>4. Top.pkg \in Pkgs /\ Top.file \in Nat \ {0} /\ Top.use \in Nat \ {0}
  BY <1>1, TopFrame
<1>5. FilesLeft' = FilesLeft /\ FilesLeft # 0
  BY <1>1, <1>2, <1>3, <1>4 DEF FilesLeft, UpTo
<1>6. Len(Lists[Top.file]) \in Nat
  BY <1>1, <1>4, Typed DEF Lists
<1>7. EntriesLeft' < EntriesLeft
  BY <1>2, <1>3, <1>4, <1>5, <1>6 DEF EntriesLeft, UpTo
<1> QED
  BY <1>2, <1>3, <1>5, <1>7, LessInPhase

LEMMA FilePassed ==
  ASSUME IInv, IsFiniteSet(Pkgs), phase \in {"build", "check"}, phase' = phase,
         Top.file <= Len(Lists),
         stack' = AdvanceFile(stack), UNCHANGED <<uses, parsed, checked>>,
         phase = "check" => UNCHANGED tables
  PROVE  Less(Ahead', Ahead)
<1>1. TypeOK /\ stack # << >> /\ Len(Lists) \in Nat
  BY AheadTyped DEF IInv, Inv
<1>2. /\ Len(stack') = Len(stack) /\ OnStack' = OnStack /\ Top'.pkg = Top.pkg
      /\ Top'.file = Top.file + 1
  BY <1>1, MovesOn
<1>3. Unopened' = Unopened /\ Lists' = Lists
  BY <1>2 DEF Unopened, Lists, Members
<1>4. Top.pkg \in Pkgs /\ Top.file \in Nat \ {0} /\ Top.use \in Nat \ {0}
  BY <1>1, TopFrame
<1>5. FilesLeft' < FilesLeft
  BY <1>1, <1>2, <1>3, <1>4 DEF FilesLeft, UpTo
<1> QED
  BY <1>2, <1>3, <1>5, LessInPhase

\* A package that is parsed was not, and one that is checked was not on its way.
LEMMA OnePackageLess ==
  ASSUME NEW S, NEW T, IsFiniteSet(S), T \subseteq S, T # S
  PROVE  Cardinality(T) < Cardinality(S)
<1>1. Cardinality(T) <= Cardinality(S) /\ Cardinality(T) # Cardinality(S)
  BY FS_Subset
<1>2. Cardinality(T) \in Nat /\ Cardinality(S) \in Nat
  BY FS_Subset, FS_CardinalityType
<1> QED
  BY <1>1, <1>2

LEMMA PackageParsed ==
  ASSUME IInv, IInv', IsFiniteSet(Pkgs), Descend
  PROVE  Less(Ahead', Ahead)
<1>1. PICK q : q = Used /\ parsed' = Append(parsed, q) /\ phase = "build" /\ phase' = phase /\ HasUse
  BY DEF Descend, Open, Building
<1>2. TypeOK /\ TypeOK' /\ stack # << >> /\ ParsedOnce'
  BY AheadTyped, <1>1 DEF IInv, Inv, Static
<1>3. parsed \in Seq(Pkgs) /\ parsed' \in Seq(Pkgs)
  BY <1>2 DEF TypeOK
<1>4. /\ Len(parsed) \in Nat /\ Len(parsed') = Len(parsed) + 1 /\ parsed'[Len(parsed) + 1] = q
      /\ \A i \in 1 .. Len(parsed) : parsed'[i] = parsed[i]
  BY <1>1, <1>3
<1>5. q \notin Members(parsed)
  <2> SUFFICES ASSUME NEW i \in 1 .. Len(parsed), parsed[i] = q
               PROVE  FALSE
    BY DEF Members
  <2>1. i \in 1 .. Len(parsed') /\ Len(parsed) + 1 \in 1 .. Len(parsed') /\ i # Len(parsed) + 1
    BY <1>4
  <2> QED
    BY <1>2, <1>4, <2>1 DEF ParsedOnce, NoRepeats
<1>6. q \in Pkgs
  <2>1. Len(parsed) + 1 \in 1 .. Len(parsed')
    BY <1>4
  <2> QED
    BY <1>3, <1>4, <2>1
<1>7. Members(parsed)' = Members(parsed) \cup {q}
  <2>1. Members(Append(parsed, q)) = Members(parsed) \cup {q}
    BY <1>3, <1>6, AppendNew
  <2> QED
    BY <1>1, <2>1 DEF Members
<1>8. Unopened' \subseteq Unopened /\ Unopened' # Unopened
  BY <1>1, <1>5, <1>6, <1>7 DEF Unopened
<1> QED
  BY <1>1, <1>8, AheadTyped, OnePackageLess, LessInPhase

LEMMA PackageImported ==
  ASSUME IInv, IInv', IsFiniteSet(Pkgs), CheckImport
  PROVE  Less(Ahead', Ahead)
<1>1. PICK q : stack' = Append(stack, First(q)) /\ phase = "check" /\ phase' = phase
               /\ checked' = checked
  BY DEF CheckImport, Checking
<1>2. PICK at \in [Pkgs -> Nat] : Inv(at)'
  BY DEF IInv
<1>3. TypeOK /\ TypeOK' /\ Checking1(at)' /\ stack \in Seq(Frames) /\ stack' \in Seq(Frames)
  BY <1>1, <1>2 DEF IInv, Inv, TypeOK
<1>4. Stacked' /\ (OnStack \cap Members(checked))' = {}
  BY <1>3 DEF Checking1
<1>5. /\ Len(stack) \in Nat /\ Len(stack') = Len(stack) + 1 /\ stack'[Len(stack) + 1] = First(q)
      /\ \A i \in 1 .. Len(stack) : stack'[i] = stack[i]
      /\ First(q).pkg = q
  BY <1>1, <1>3 DEF First
<1>6. Len(stack) + 1 \in 1 .. Len(stack') /\ \A i \in 1 .. Len(stack) : i \in 1 .. Len(stack') /\ i # Len(stack) + 1
  BY <1>5
<1>7. OnStack' = OnStack \cup {q}
  <2>1. \A i \in 1 .. Len(stack') : i = Len(stack) + 1 \/ i \in 1 .. Len(stack)
    BY <1>5
  <2> QED
    BY <1>5, <1>6, <2>1 DEF OnStack
<1>8. q \notin OnStack
  BY <1>4, <1>5, <1>6 DEF Stacked, OnStack
<1>9. q \notin Members(checked)
  BY <1>1, <1>4, <1>7 DEF Members
<1>10. q \in Pkgs
  <2>1. stack'[Len(stack) + 1] \in Frames
    BY <1>3, <1>6
  <2> QED
    BY <1>5, <2>1 DEF Frames
<1>11. Unopened' \subseteq Unopened /\ Unopened' # Unopened
  BY <1>1, <1>7, <1>8, <1>9, <1>10 DEF Unopened, Members
<1> QED
  BY <1>1, <1>11, AheadTyped, OnePackageLess, LessInPhase

LEMMA StackShrinks ==
  ASSUME TypeOK, Len(stack) > 1, stack' = AdvanceUse(Below)
  PROVE  Len(stack') < Len(stack) /\ OnStack = OnStack' \cup {Top.pkg}
<1>1. PICK r \in Seq(Frames) :
        r = Below /\ r # << >> /\ Len(r) = Len(stack) - 1
        /\ \A i \in 1 .. Len(stack) - 1 : r[i] = stack[i]
  BY BelowTop DEF TypeOK, Below
<1>2. Len(stack) \in Nat
  BY DEF TypeOK
<1>3. /\ Len(stack') \in Nat /\ Len(stack') = Len(r)
      /\ \A i \in 1 .. Len(r) : stack'[i].pkg = r[i].pkg
  BY <1>1, AdvancedPackages
<1>4. \A i \in 1 .. Len(stack) : i = Len(stack) \/ i \in 1 .. Len(stack')
  BY <1>1, <1>2, <1>3
<1>5. Len(stack) \in 1 .. Len(stack) /\ \A i \in 1 .. Len(stack') : i \in 1 .. Len(stack) /\ stack'[i].pkg = stack[i].pkg
  BY <1>1, <1>2, <1>3
<1>6. OnStack' \subseteq OnStack /\ Top.pkg \in OnStack
  BY <1>5 DEF OnStack, Top
<1>7. OnStack \subseteq OnStack' \cup {Top.pkg}
  BY <1>4, <1>5 DEF OnStack, Top
<1>8. Len(stack') < Len(stack)
  BY <1>1, <1>2, <1>3
<1> QED
  BY <1>6, <1>7, <1>8

LEMMA PackageLeft ==
  ASSUME IInv, IInv', IsFiniteSet(Pkgs), PackageBuilt \/ CheckDecls
  PROVE  Less(Ahead', Ahead)
<1>1. TypeOK
  BY DEF IInv, Inv
<1>2. CASE PackageBuilt
  <2>1. phase = "build" /\ phase' = phase /\ Len(stack) > 1 /\ stack' = AdvanceUse(Below) /\ parsed' = parsed
    BY <1>2 DEF PackageBuilt, Building
  <2>2. Unopened' = Unopened
    BY <2>1 DEF Unopened, Members
  <2> QED
    BY <1>1, <2>1, <2>2, StackShrinks, LessInPhase
<1>3. CASE CheckDecls /\ Len(stack) = 1
  <2>1. phase = "check" /\ phase' = "done"
    BY <1>3 DEF CheckDecls, Checking
  <2> QED
    BY <2>1 DEF Ahead, Over, Less
<1>4. CASE CheckDecls /\ Len(stack) # 1
  <2>1. phase = "check" /\ phase' = phase /\ stack' = AdvanceUse(Below) /\ checked' = Append(checked, Top.pkg) /\ stack # << >>
    BY <1>4 DEF CheckDecls, Checking
  <2>2. Len(stack) > 1
    <3>1. Len(stack) \in 1 .. Len(stack) /\ Len(stack) \in Nat
      BY <1>1, <2>1, TopFrame
    <3> QED
      BY <1>4, <3>1
  <2>3. checked \in Seq(Pkgs) /\ Top.pkg \in Pkgs
    BY <1>1, <2>1, TopFrame DEF TypeOK
  <2>4. Members(checked)' = Members(checked) \cup {Top.pkg}
    <3>1. Members(Append(checked, Top.pkg)) = Members(checked) \cup {Top.pkg}
      BY <2>3, AppendNew
    <3> QED
      BY <2>1, <3>1 DEF Members
  <2>5. Len(stack') < Len(stack) /\ OnStack = OnStack' \cup {Top.pkg}
    BY <1>1, <2>1, <2>2, StackShrinks
  <2>6. Unopened' = Unopened
    BY <2>1, <2>4, <2>5 DEF Unopened
  <2> QED
    BY <2>1, <2>5, <2>6, LessInPhase
<1> QED
  BY <1>2, <1>3, <1>4

LEMMA AheadAlways ==
  ASSUME IsFiniteSet(Pkgs)
  PROVE  Spec => [](Ahead \in Amounts)
<1>1. IInv => Ahead \in Amounts
  BY AheadTyped
<1> QED
  BY <1>1, Invariance, PTL

LEMMA StepDescends ==
  ASSUME IInv, IInv', IsFiniteSet(Pkgs), Next
  PROVE  Less(Ahead', Ahead)
<1>1. CASE RejectUse \/ RejectDecls
  <2>1. phase \in {"build", "check"} /\ phase' = "error"
    BY <1>1 DEF RejectUse, RejectDecls, Fail, Building, Checking
  <2> QED
    BY <2>1 DEF Ahead, Over, Less
<1>2. CASE ProgramBuilt
  <2>1. phase = "build" /\ phase' = "check"
    BY <1>2 DEF ProgramBuilt, Building
  <2> QED
    BY <2>1 DEF Ahead, Less
<1>3. CASE Reuse
  <2>1. /\ phase = "build" /\ phase' = phase /\ stack' = AdvanceUse(stack)
        /\ UNCHANGED <<uses, parsed, checked>>
        /\ Top.file <= Len(uses[Top.pkg]) /\ Top.use <= Len(uses[Top.pkg][Top.file])
    BY <1>3 DEF Reuse, Building, HasUse, InFile
  <2> QED
    BY <2>1, EntryPassed DEF Lists
<1>4. CASE SkipImport
  <2>1. /\ phase = "check" /\ phase' = phase /\ stack' = AdvanceUse(stack)
        /\ UNCHANGED <<uses, parsed, checked, tables>>
        /\ Top.file <= Len(tables[Top.pkg]) /\ Top.use <= Len(tables[Top.pkg][Top.file])
    BY <1>4 DEF SkipImport, Checking, HasImport, HasFile, Table
  <2> QED
    BY <2>1, EntryPassed DEF Lists
<1>5. CASE FileBuilt
  <2>1. /\ phase = "build" /\ phase' = phase /\ stack' = AdvanceFile(stack)
        /\ UNCHANGED <<uses, parsed, checked>> /\ Top.file <= Len(uses[Top.pkg])
    BY <1>5 DEF FileBuilt, Building, InFile
  <2> QED
    BY <2>1, FilePassed DEF Lists
<1>6. CASE FileChecked
  <2>1. /\ phase = "check" /\ phase' = phase /\ stack' = AdvanceFile(stack)
        /\ UNCHANGED <<uses, parsed, checked, tables>> /\ Top.file <= Len(tables[Top.pkg])
    BY <1>6 DEF FileChecked, Checking, HasFile
  <2> QED
    BY <2>1, FilePassed DEF Lists
<1>7. CASE Descend
  BY <1>7, PackageParsed
<1>8. CASE CheckImport
  BY <1>8, PackageImported
<1>9. CASE PackageBuilt \/ CheckDecls
  BY <1>9, PackageLeft
<1> QED
  BY <1>1, <1>2, <1>3, <1>4, <1>5, <1>6, <1>7, <1>8, <1>9 DEF Next

\* Every step brings the compiler nearer to its end, in a well-founded order:
\* it cannot load and check for ever, on programs whose packages use each
\* other in a circle either (check_import_cycles, and the duplicate flags of
\* SymbolBuilder).
THEOREM CompilerDescends ==
  ASSUME IsFiniteSet(Pkgs)
  PROVE  Spec => [][Descends]_vars
<1>1. ASSUME IInv, IInv', Ahead \in Amounts, Ahead' \in Amounts, [Next]_vars
      PROVE  [Descends]_vars
  <2>1. CASE Next
    BY <1>1, <2>1, StepDescends DEF Descends
  <2>2. CASE UNCHANGED vars
    BY <2>2
  <2> QED
    BY <1>1, <2>1, <2>2
<1>2. IInv /\ IInv' /\ Ahead \in Amounts /\ (Ahead \in Amounts)' /\ [Next]_vars => [Descends]_vars
  BY <1>1
<1>3. Spec => [](Ahead \in Amounts)
  BY AheadAlways
<1> QED
  BY <1>2, <1>3, Invariance, PTL DEF Spec
=============================================================================
