------------------------------ MODULE Packages ------------------------------
(***************************************************************************)
(* How the compiler loads a program: SymbolBuilder (std/jule/sema/         *)
(* symbol.jule) follows the use declarations of the main package depth     *)
(* first through the importer of julec, and Sema.check (sema.jule) then    *)
(* checks every package after the packages it uses.                        *)
(*                                                                         *)
(* Both are recursions; their call stacks are sequences of frames.  A      *)
(* program says which packages each file of each package uses, in order.   *)
(***************************************************************************)
EXTENDS Integers, Sequences, FiniteSets

CONSTANTS
  Pkgs,       \* package directories
  Main,       \* the one that is compiled
  Programs,   \* the programs considered: files of packages, as lists of uses
  Faults      \* which packages are broken, and how

ASSUME MainAssumption == Main \in Pkgs
ASSUME ProgramAssumption ==
  /\ Programs \subseteq [Pkgs -> Seq(Seq(Pkgs))]
  /\ \A p \in Programs : p[Main] # << >>
ASSUME FaultAssumption == Faults \subseteq [Pkgs -> {"none", "unreadable", "faulty"}]

VARIABLES
  uses,     \* the program
  fault,    \* "unreadable" packages fail to parse, "faulty" ones to check
  phase,    \* "build", "check", "done" or "error"
  stack,    \* the packages being built or checked: which file, which use
  tables,   \* per package and file built so far, its imports
  all,      \* all_packages of the importer
  parsed,   \* history: the packages parsed, in order
  checked   \* history: the packages checked, in order

vars == <<uses, fault, phase, stack, tables, all, parsed, checked>>

Frames == [pkg : Pkgs, file : Nat \ {0}, use : Nat \ {0}]
Imports == [path : Pkgs, duplicate : BOOLEAN]

Members(s) == {s[i] : i \in 1 .. Len(s)}

TypeOK ==
  /\ uses \in Programs
  /\ fault \in Faults
  /\ phase \in {"build", "check", "done", "error"}
  /\ stack \in Seq(Frames)
  /\ tables \in [Pkgs -> Seq(Seq(Imports))]
  /\ all \in Seq(Pkgs)
  /\ parsed \in Seq(Pkgs)
  /\ checked \in Seq(Pkgs)

\* A package whose first file and first use are next.
First(p) == [pkg |-> p, file |-> 1, use |-> 1]

Init ==
  /\ uses \in Programs
  /\ fault \in Faults
  /\ fault[Main] # "unreadable"
  /\ phase = "build"
  /\ stack = <<First(Main)>>
  /\ tables = [p \in Pkgs |-> IF p = Main THEN << << >> >> ELSE << >>]
  /\ all = << >>
  /\ parsed = <<Main>>
  /\ checked = << >>

Top == stack[Len(stack)]
Below == SubSeq(stack, 1, Len(stack) - 1)
OnStack == {stack[i].pkg : i \in 1 .. Len(stack)}

\* The frame f, one use declaration, or one file, further.
NextUse(f) == [f EXCEPT !.use = @ + 1]
NextFile(f) == [f EXCEPT !.file = @ + 1, !.use = 1]

\* The same on the top of stack s.
AdvanceUse(s) == [s EXCEPT ![Len(s)] = NextUse(@)]
AdvanceFile(s) == [s EXCEPT ![Len(s)] = NextFile(@)]

-----------------------------------------------------------------------------
(* SymbolBuilder *)

Building == phase = "build" /\ stack # << >>
InFile == Top.file <= Len(uses[Top.pkg])

HasUse == InFile /\ Top.use <= Len(uses[Top.pkg][Top.file])
Used == uses[Top.pkg][Top.file][Top.use]

\* The imports of the file being built.
Table == tables[Top.pkg][Top.file]
Import(p, f, q, d) ==
  [tables EXCEPT ![p][f] = Append(@, [path |-> q, duplicate |-> d])]

\* Mutant: repeated use declarations pass.
RepeatedNever == FALSE

\* check_duplicate_use_decl: the file imports the package already.
Repeated == \E i \in 1 .. Len(Table) : Table[i].path = Used

\* The importer has the package (get_import).
Known == Used \in Members(all)

\* check_import_cycles: the package is the one being built, or one of the
\* builders that wait for it.
Cyclic == Used \in OnStack

\* Every error ends the compilation.
Fail ==
  /\ phase' = "error"
  /\ UNCHANGED <<uses, fault, stack, tables, all, parsed, checked>>

RejectUse ==
  /\ Building /\ HasUse
  /\ \/ Repeated
     \/ ~Known /\ (Cyclic \/ fault[Used] = "unreadable")
  /\ Fail

\* import_package of a package that is there already: it is shared.
Reuse ==
  /\ Building /\ HasUse /\ ~Repeated /\ Known
  /\ tables' = Import(Top.pkg, Top.file, Used, TRUE)
  /\ stack' = AdvanceUse(stack)
  /\ UNCHANGED <<uses, fault, phase, all, parsed, checked>>

\* The frame of a package that is about to be built; its first file's table.
Open(p) ==
  /\ stack' = Append(stack, First(p))
  /\ tables' = [tables EXCEPT ![p] = IF uses[p] = << >> THEN << >> ELSE << << >> >>]
  /\ parsed' = Append(parsed, p)
  /\ UNCHANGED <<uses, fault, phase, all, checked>>

\* import_package of a new package: it is parsed, and its files are built.
Descend ==
  /\ Building /\ HasUse /\ ~Repeated /\ ~Known
  /\ ~Cyclic /\ fault[Used] # "unreadable"
  /\ Open(Used)

\* A file's symbols are complete.
FileBuilt ==
  /\ Building /\ InFile /\ ~HasUse
  /\ stack' = AdvanceFile(stack)
  /\ tables' = IF Top.file = Len(uses[Top.pkg]) THEN tables
               ELSE [tables EXCEPT ![Top.pkg] = Append(@, << >>)]
  /\ UNCHANGED <<uses, fault, phase, all, parsed, checked>>

\* Mutant: new packages are put in front.
ImportedAtFront(p) == all' = IF p \in Members(all) THEN all ELSE <<p>> \o all

\* imported(): the importer keeps the package, unless it has it.
Imported(p) == all' = IF p \in Members(all) THEN all ELSE Append(all, p)

\* All files of a package are built: its user imports it and goes on.
PackageBuilt ==
  /\ Building /\ ~InFile /\ Len(stack) > 1
  /\ LET user == stack[Len(stack) - 1]
     IN  tables' = Import(user.pkg, user.file, Top.pkg, FALSE)
  /\ stack' = AdvanceUse(Below)
  /\ Imported(Top.pkg)
  /\ UNCHANGED <<uses, fault, phase, parsed, checked>>

\* All files of the main package are built.
ProgramBuilt ==
  /\ Building /\ ~InFile /\ Len(stack) = 1
  /\ phase' = "check"
  /\ stack' = <<First(Main)>>
  /\ UNCHANGED <<uses, fault, tables, all, parsed, checked>>

-----------------------------------------------------------------------------
(* Sema *)

Checking == phase = "check" /\ stack # << >>
HasFile == Top.file <= Len(tables[Top.pkg])
HasImport == HasFile /\ Top.use <= Len(Table)
Imp == Table[Top.use]

\* check_import of a package that has no files or is a duplicate.
SkipImport ==
  /\ Checking /\ HasImport
  /\ tables[Imp.path] = << >> \/ Imp.duplicate
  /\ stack' = AdvanceUse(stack)
  /\ UNCHANGED <<uses, fault, phase, tables, all, parsed, checked>>

\* Mutant: imports of imports are not checked.
CheckImportFlat ==
  /\ Checking /\ HasImport /\ Len(stack) = 1
  /\ tables[Imp.path] # << >> /\ ~Imp.duplicate
  /\ stack' = Append(stack, [First(Imp.path) EXCEPT !.file = Len(tables[Imp.path]) + 1])
  /\ UNCHANGED <<uses, fault, phase, tables, all, parsed, checked>>

\* check_import of any other: a Sema of its own checks it first.
CheckImport ==
  /\ Checking /\ HasImport
  /\ tables[Imp.path] # << >> /\ ~Imp.duplicate
  /\ stack' = Append(stack, First(Imp.path))
  /\ UNCHANGED <<uses, fault, phase, tables, all, parsed, checked>>

\* Mutant: the loop over the files does not go on.
FileCheckedStays ==
  /\ Checking /\ HasFile /\ ~HasImport
  /\ UNCHANGED vars

\* The imports of a file are checked.
FileChecked ==
  /\ Checking /\ HasFile /\ ~HasImport
  /\ stack' = AdvanceFile(stack)
  /\ UNCHANGED <<uses, fault, phase, tables, all, parsed, checked>>

\* All imports of a package are checked; its own declarations follow.
CheckDecls ==
  /\ Checking /\ ~HasFile
  /\ fault[Top.pkg] # "faulty"
  /\ checked' = Append(checked, Top.pkg)
  /\ IF Len(stack) = 1
     THEN phase' = "done" /\ stack' = << >>
     ELSE phase' = phase /\ stack' = AdvanceUse(Below)
  /\ UNCHANGED <<uses, fault, tables, all, parsed>>

RejectDecls ==
  /\ Checking /\ ~HasFile /\ fault[Top.pkg] = "faulty"
  /\ Fail

Next ==
  \/ RejectUse \/ Reuse \/ Descend \/ FileBuilt \/ PackageBuilt \/ ProgramBuilt
  \/ SkipImport \/ CheckImport \/ FileChecked \/ CheckDecls \/ RejectDecls

Spec == Init /\ [][Next]_vars

\* The compiler is one thread and goes on until it is through.
FairSpec == Spec /\ WF_vars(Next)

-----------------------------------------------------------------------------
(* Properties *)

Uses(p) == UNION {Members(uses[p][f]) : f \in 1 .. Len(uses[p])}

\* What p uses, directly or not: what is in every set that has the packages p
\* uses and, with a package, those that it uses.
Beyond(p) ==
  {q \in Pkgs : \A S \in SUBSET Pkgs :
                 Uses(p) \subseteq S /\ (\A r \in S : Uses(r) \subseteq S) => q \in S}

Program == {Main} \cup Beyond(Main)
NoRepeats(s) == \A i, j \in 1 .. Len(s) : s[i] = s[j] => i = j

\* What the compiler should accept: no package of the program is broken or
\* uses itself, and no file uses a package twice.
Acceptable ==
  \A p \in Program :
    /\ fault[p] # "unreadable" /\ (fault[p] = "faulty" => uses[p] = << >>)
    /\ p \notin Beyond(p)
    /\ \A f \in 1 .. Len(uses[p]) : NoRepeats(uses[p][f])

\* The compiler accepts exactly the acceptable programs: cycles are found
\* whatever order the use declarations come in (check_import_cycles looks only
\* at the packages that wait), and nothing else is taken for one.
Verdict ==
  /\ phase = "done" => Acceptable
  /\ phase = "error" => ~Acceptable

\* Every package is parsed and built at most once, and the importer has it at
\* most once, however many files use it.
ParsedOnce == NoRepeats(parsed) /\ NoRepeats(all)

\* all_packages, the order in which definitions are collected (ir.jule), lists
\* every package after the packages it uses.
UsesFirst ==
  \A i \in 1 .. Len(all) : Uses(all[i]) \subseteq Members(SubSeq(all, 1, i - 1))

\* No package is checked twice: the duplicate flags, set in build order, single
\* out one import of each package for the check order.
CheckedOnce == NoRepeats(checked)

\* Sema looks at the declarations of a package only when every package it uses
\* has been checked, although it skips the duplicates.
CheckedAfterUses ==
  [][checked' # checked =>
       \A q \in Uses(checked'[Len(checked')]) : uses[q] # << >> => q \in Members(checked)]_vars

\* An accepted program has been loaded and checked as a whole.
Complete ==
  phase = "done" =>
    /\ Members(all) = Program \ {Main}
    /\ Members(checked) = {p \in Program : uses[p] # << >>}

\* The compiler ends, also on programs with cycles.
Terminates == <>(phase \in {"done", "error"})
=============================================================================
