# A verification project for Jule

TLA+ models of the Jule runtime, of the synchronisation part of its standard
library and of the core of the compiler JuleC; configurations that model-check
them with TLC on small instances; and proofs, checked by TLAPS, for every value
of the constants. Paths below are relative to the repository's root, which the
project calls `src/`: `api/ref.hpp` is `src/api/ref.hpp`, and the compiler's own
directory `src/julec` is `src/src/julec`.

Contents: [the system](#the-system) (inventory), [the modules](#the-modules) and
how they correspond to the code, [the runs](#the-runs), [findings](#findings),
[proofs](#proofs), [what is not modelled](#what-is-not-modelled), [plan](#plan).

`PROJECT.json` holds the same in a form for tools: components, runs, for each
property a mutation of the model that breaks it, for each definition the source
lines it stands for, findings, hazards and theorems.

## The system

JuleC translates Jule to C++. A run of the compiler (`src/julec/compile.jule`)
is a pipeline on one thread:

    command line -> importer (reads files: lexer, parser)
                 -> SymbolBuilder (packages, their tables of symbols)
                 -> Sema (checks the packages)
                 -> dead code elimination (optional)
                 -> IR: collection and order of definitions
                 -> C++ generation -> C++ compiler

The C++ text it writes is compiled against the runtime in `api/`. There the
concurrency is: a Jule program starts threads with `co`, its allocations are
shared between them by counted references, and the standard library
(`std/sync`, `std/thread`) gives it atomics, mutexes, wait groups and threads.

### Runtime (`api/`)

| component | state | operations | what is hard, and what makes it correct |
|---|---|---|---|
| `Ref` (`ref.hpp`) | per handle `alloc` and `ref` (pointer to a counter on the heap) | `make`, copy, `operator=`, `drop`, destructor | the counter is atomic, the handles are not; the last drop deletes object and counter, and the object's destructor drops further references. Correct: the counter is the number of handles, nothing dangles, everything is deleted once, with its last handle |
| `Slice` (`slice.hpp`) | an embedded `Ref`, `_slice`, `_len`, `_cap` | `alloc_new`, `slice`, `push`, `operator=`, `dealloc` | `dealloc` reads the counter, acts on it later, and leaves half-cleared slices. Correct: windows stay in live arrays |
| `append`, `copy`, `make` (`builtin.hpp`, and the form of `append` that the compiler writes out, `expr.jule`) | none | sequences of the operations of `Slice` | slices share arrays and spare room. Correct: `append` gives the elements of the one and then of the other, and what others see changes only where it must |
| `Array`, `Map` (`array.hpp`, `map.hpp`) | elements; a hash table | set, read, slice, `keys`, `values`, `del`, `clear` | reading a missing key makes an entry; the order of the table |
| `derive::Clone` (`derive/clone.hpp`) | none | deep copy | Correct: equal, and nothing is shared |
| `Any`, `Trait` (`any.hpp`, `trait.hpp`) | a `Ref`, or a box on the heap, and a type name | from values and references, casts, assignment, nil, comparison | a cast reads memory by what the name says; `Any` releases its box before it asks for memory. Correct: counters exact, names true, every box has one owner |
| `Str` (`str.hpp`) | bytes | `+=`, slicing, `find`, `trim`, `split`, `replace`, to and from runes | C strings inside, loops over positions. Correct: no byte is lost |
| `utf8.hpp`, `utf16.hpp` | none | decode, encode | tables and boundary values. Correct: what the standard calls a rune |
| `fn`, `defer`, `panic`, `recover`, `co` (`fn.hpp`, `defer.hpp`, `panic.hpp`, `terminate.hpp`, `jule.hpp`, and what the compiler writes for them) | frames with pending blocks, C++ exceptions | call, defer, panic, recover, start a detached thread | a deferred block is a destructor that may panic itself. Correct: each block runs once and in reverse order, a panic meets its own recover |
| signals (`signal.hpp`) | none | handler for every signal | ends the process, at any time |
| env, arguments, output (`env.hpp`, `misc.hpp`, ...) | none | calls of the operating system | none in Jule's code |

### Standard library (`std/`)

| component | state | operations | what is hard, and what makes it correct |
|---|---|---|---|
| `sync::WaitGroup` | `task_n`, `wait_n` | `add`, `done`, `wait` | two atomics and spinning loops. Correct: the count is exact, `wait` returns when and only when the tasks are done |
| `sync::Mutex` | a handle of a `std::mutex`, the field `locked` | `lock`, `unlock`, `try_lock`, `dispose` | `locked` is set by `lock` only and never read |
| `sync::atomic` | a value | load, store, add, swap, compare-and-swap | one hardware operation each |
| `thread` | a `Ref` to a `std::thread` per handle | `spawn`, `wait`, `detach`, `active`, `dispose` | the last handle detaches. Correct: no joinable `std::thread` is destroyed, which would end the process |
| `vec`, `mem` | manual memory | push, insert, remove | indices at both ends |
| `conv`, `encoding`, `unicode`, `fs::path`, `flag`, `time` | none | pure functions | boundaries |
| `math` | none | floating point | out of reach |
| `jule/...` | see the compiler | | |

### Compiler (`std/jule`, `src/julec`)

| component | state | operations | what is hard, and what makes it correct |
|---|---|---|---|
| lexer, parser | position, tokens | scan, split, build the tree | splitting at brackets |
| `SymbolBuilder` (`std/jule/sema/symbol.jule`) and importer (`src/julec/importer`) | stack of builders, `all_packages`, tables | build a file, import a package, find cycles and repetitions | recursion through packages with sharing. Correct: every cycle is found and nothing else is, every package is built once |
| `Sema` (`sema.jule`) | tables, flags | check imports, then declarations | must meet packages in the order of the builder, whose `duplicate` flags it uses |
| `Eval`, `ScopeChecker`, `TypeChecker`, type compatibility, constants | tables, `depends`, references | evaluate, check | cycles of types and globals, control flow |
| dead code elimination (`src/julec/deadcode`) | four globals: `main_current`, `current`, `checking`, `deads` | `eliminate`, `is_dead` | a search over a cyclic graph, stopped by globals. Correct: what is mentioned stays, what is unreachable goes, initialisers with an effect stay |
| IR and `DefineOrderer` (`src/julec/obj`) | lists of definitions | collect, order | Correct: a definition stands after those it depends on |
| C++ generator | text | | out of scope |

The compiler's parts share the syntax tree and the tables by reference; they
call each other and there is one callback, `Importer`. The runtime is shared by
the threads of the compiled program. Nothing is persisted and nothing is sent
over a network, so there are no crashes to recover from and no lost messages:
the hard behaviours are interleavings of threads over counters, and long
protocols over mutable global or shared state in the compiler. The list of
hazards in `PROJECT.json` names each one at its line.

## The modules

| module | extends | models |
|---|---|---|
| `WaitGroup` | | `std::sync::WaitGroup` and its clients |
| `Ref` | | `jule::Ref` with chains of objects, on several threads |
| `Lifetime` | | what reference counting promises; `Ref` implements it |
| `Slice` | | `jule::Slice` on several threads |
| `Packages` | | `SymbolBuilder`, importer, import part of `Sema` |
| `Orderer` | | `DefineOrderer.order_common` |
| `DeadCode` | | `julec::deadcode::eliminate` |
| `MiddleEnd` | `DeadCode`, `Orderer` | elimination, collection of variables, order |
| `Utf8`, `Utf16` | | the two encodings, as functions of numbers |
| `Str` | `Utf8` | the operations of `jule::Str`, as functions |
| `Text` | `Str`, `Utf16` | a program that works on a string |
| `Box` | | references, traits and anys that are made from each other |
| `Elements` | | elements of slices, arrays and maps: `append`, `copy`, `clone` |
| `Process` | | the functions, panics, threads and signals of a running program |
| `MC*` | their module | values for TLC |
| `WaitGroupProofs`, `RefProofs`, `BoxProofs`, `SliceProofs`, `PackagesProofs`, `ProcessProofs` | their module | theorems |
| `MiddleEndProofs` | `MiddleEnd` | theorems about `Orderer`, `DeadCode` and `MiddleEnd` |
| `ValuesProofs` | `Elements`, `Text` | theorems about both |

The three models of memory divide the runtime among them. `Ref` and `Slice` have
threads, atomic steps and no contents. `Box` and `Elements` have contents and
types, and one thread, so that an operation is one step; what their counters do
under interleaving is `Ref`'s and `Slice`'s subject. `Process` has threads and no
memory.

In each module the mutations that the properties must notice stand before the
definition they mutate, marked "Mutant"; no specification uses them.

### WaitGroup

`task_n` and `wait_n` are the two fields; `pc` says at which atomic access each
thread is, `n_waiters` is the local of `add()`. One action is one atomic access
with the tests that follow it (`FetchAdd` of `add()`, `LoadWaiters`,
`ClearWaiters` and `ReloadWaiters` of its clearing loop; `LoadTasks`, `Register`,
`Return` of `wait()`). The clients obey the comment of the type: the main thread
adds before it starts jobs, each job ends with `done()`, and a running job may
announce and start further ones. `owed` is a history variable: the jobs that
were counted when a waiter called `wait()`. Counters have width `U32`.

### Ref and Lifetime

A handle is its two fields `alloc` and `ref`. Handles are local variables
(`Roots`), each owned by one thread, or the one field every object has; so
destroying an object drops a further reference and chains and cycles arise. An
action is one atomic access or one deletion: `Decrement` (null test,
fetch-and-add, its test), `Destroy` (the counter is deleted and the object's
destructor begins), `Release` (its memory goes), `Copy` (the end of `operator=`).
The call stack of `drop()` is the sequence `drops[t]`. The discipline Jule
programs follow is in `CanWrite` and `CanRead`: a thread names its own variables
and the fields of objects they hold, and two threads do not use one field at
once. `InnerSource` says whether a program reads the source of an assignment
from inside the object that the destination holds.

`Lifetime` has no counters: an object is alive as long as it has holders. The
refinement maps `holders` to the handles that are counted and `fate` to whether
the object was allocated and is still held.

### Slice

A variable has the fields of the code: `alloc` and `ref` of the embedded `Ref`,
`_slice` (as the array and the offset into it), `_len`, `_cap`. `Dealloc` is
`dealloc()` up to its load of the counter, `Free` the rest; `Drop` and `Delete`
are `Ref::drop`; `Copy` is the end of the assignment. `Make`, `Cut`, `Push`,
`Rewindow` and `Grow` are `alloc_new`, `slice`, the two halves of `push` and
`operator=` between slices of one array. The elements themselves are left out.
`SharesNil` says whether a program assigns nil to a variable that holds an array.

### Packages

Two recursions over the packages of a program, with their call stacks as
sequences of frames (package, file, use declaration). The actions of the
first are the outcomes of one use declaration (`RejectUse`, `Reuse`, `Descend`)
and the end of files and packages; those of the second are the outcomes of
`check_import` and the check of declarations. `tables` holds the imports with
their `duplicate` flag, `all` is `all_packages` of the importer. `Programs` and
`Faults` say which programs there are, and which packages do not parse or do not
check. `Acceptable` says which of them are right, by the packages that a package
leads to: `Beyond`, the least set closed under use.

### Orderer, DeadCode, MiddleEnd

`Orderer` is `order_common` with its three loop counters; `is_common_ordered`
is the recursive function inside `Met`. A definition's `depends` is what the
checker collects: in order of mention, with repetitions, and with constants
(`Others`). `Collected` and `Dependencies` say which lists there are to order.

`DeadCode` takes one definition per step. `is_dead` is a recursion over the
graph of references; its globals `checking` and `current`, which its callers set
and restore, are parameters of the function `dead`, while `deads` and
`main_current`, which outlive it, are variables. `CatchInit` is `catch_alive_init`
and runs with the `main_current` that the package before has left, as the code does.
The assumptions on programs are what the phases before guarantee: imports have no
cycles, so that only the main package mentions what was eliminated before its own
package, and a constant is made of constants.

`MiddleEnd` composes them as `compile_command` does: elimination if it is
switched on, then `get_all_variables` and `order`. Its variables are those of
`DeadCode` and of `Orderer`, whose `depends` it fills from the mentions and whose
list from what is left (`Collected` and `Dependencies` play no part here).

### Utf8, Utf16, Str, Text

`Utf8` is `utf8_decode_rune_str` and `utf8_rune_to_bytes`: `Size` and `Accept` are
the tables of first and second bytes, shifts and masks are quotients and
remainders. `Utf16` keeps the precedence of the C++ operators, with which
`utf16_encode_rune` loses the prefixes of its surrogates, and its one `|` is an
addition unless both operands have the bit. `Str` has the loops of `split` and
`replace` as functions of the number of turns (a turn that finds nothing changes
nothing); what panics on an index is a guard. In `Text` a program appends bytes and
runes to a string and calls one operation after the other; `asked` is the last one
with its operands, and `ret` what it returned. `Standard` reads a string as the Unicode standard lays it
out, and owes nothing to the tables.

### Box

A handle is everything that embeds a `Ref`: variables that are references,
traits, and the boxes of anys that have a reference in them (`any.hpp` allocates a
`Ref` or a plain value). `Point` is `Ref::operator=`, `TraitTake` the assignment of a
trait with its early return when both point to one object, `AnyTake` the
assignment of an any: it releases its own box, then asks for memory, and panics
with nil in the variable when there is none. `ret` is what a cast or a comparison
gave.

### Elements

`win` has the windows of the slices, `store` the elements of the arrays. `Become`
assigns a window and forgets what no slice shows any longer; such memory holds
`Spare`, as memory of a fresh array does beyond the length, and what `make` counts
as elements without writing it holds `Unset`. `Append2` is `append(s, c...)`,
`AppendEach` the code that `expr.jule` writes for `append(s, x, y)`: assign first, then
push operand after operand; where the first operand reads an empty slice it panics,
after the assignment. `CopyResults` are the results that C++ leaves open when
`std::copy` copies onto what it still has to read.

### Process

`stack[t]` are the frames of a thread: functions and scopes (`body`), the rest of a
scope after `recover` (`try`), the handler of a recover, and deferred blocks, which
keep what their owner was doing. `mode` says whether the thread runs the program's
code, leaves frames or unwinds them for the panic in `flight`. `RunBlock` is
`~DeferBase`, `Leave` and `Unwind` what a return and an exception do to the top
frame; `Home` is where C++ will catch an exception, which fixes what a panic without
a try block may do before `terminate_handler` ends the process. `Spawn`, `Assign`,
`Wait`, `Detach`, `Dispose`, `DisposeDetach` and `DisposeDrop` are `std::thread`, with
`dispose` in the steps that other threads can come between. Programs use handles as
they like, in whatever threads. `hurried` is a history variable: the `std::thread`s of
which a handle was disposed, or assigned to, while another one was in its `dispose`;
nothing depends on it, and when a thread is lost `exit` says how, and whether in haste.
`Spawn` may fail: on a nil routine it panics, and when the system has no thread to give,
what the constructor of `std::thread` throws ends the process. `Signal` may come at any
time.

## The runs

All `pass` runs finish without an error. Deadlock is checked where the system can
always go on: `ref`, `slice` and `text`. The compiler's modules end when the compiler
does, `wait_group` when all have returned, and `process` when the process has
ended; in `box` and `elements`, where programs can go on, it is switched off
because it says nothing.

| run | instance | what it shows |
|---|---|---|
| `wait_group` | 3 jobs, 2 waiters, 1 cycle, 8 counter values | no interleaving of `add`, `done` and `wait` loses a count; no `wait` returns early; when all waiters have registered in time, all are released |
| `wait_group_lost_wakeup` | 2 jobs, 1 waiter | violated: every `wait` returns |
| `wait_group_reuse` | 2 jobs, 1 waiter, 2 cycles | violated: no `wait` returns early |
| `ref` | 2 threads, 3 variables, 2 objects | counters exact, no access dangles, everything is released at zero, every drop ends, `Lifetime` is implemented |
| `slice` | 2 threads, 3 variables, 2 arrays of up to 2 | counters exact, windows in live arrays, arrays freed at most once and never while another slice has them |
| `packages` | all programs of 3 packages of up to 2 files with up to 2 uses in all, at most one broken package | a program is accepted exactly when it is acceptable; packages are built and checked after what they use; loading ends |
| `orderer` | 4 variables and a constant, each mentions at most one of them | permutation, order of chains of up to three |
| `middle_end` | 10 definitions in 3 packages, 8192 programs, with and without elimination | what is kept is closed under mention and needed; initialisers that touch what the entry point reaches, past the definition examined last before, stay; the list that is ordered is what is left; variables are initialised before use; it ends |
| `text` | strings of up to 3 bytes of 9 kinds and runes of 15, 4 search strings | decoding agrees with the standard on every sequence; appended runes are read back; UTF-16 keeps text of the first plane; `split` loses nothing, and `replace` is split and join |
| `box` | 2 references of 2 types, 2 traits, 2 anys, 3 objects, 2 boxes | counters exact through every conversion; a cast reads memory of the type it names; every box has one owner |
| `elements` | 4 programs of up to two slices, an array, a map, of integers or references, length 2 | no spare memory is seen; `append` adds and nothing else; other slices keep their elements; clones share nothing |
| `process` | 4 programs of up to 2 threads, 3 nested scopes, 3 deferred blocks, a spawned thread with 3 handles handed around | every deferred block runs once, in reverse order; a panic meets the recover that was innermost, or ends the process, and does not stay on its way; `dispose` loses a running thread only when two of its handles go at once |

Further configurations check what the table does not repeat. Violated, each with
the counterexample that a finding below describes:

| configuration | module | property |
|---|---|---|
| `RefInner.cfg` | `MCRef` | `NoDanglingAccess`, with `InnerSource` |
| `SliceRace.cfg`, `SliceNil.cfg` | `MCSlice` | `ReleasedAtZero` |
| `OrdererPromise.cfg` | `MCOrderer` | `DependsFirst` |
| `OrdererChains.cfg` | `MCOrderer` | `ChainsOrdered`, with five variables |
| `TextRuneKept.cfg` | `MCText` | `RuneKept` |
| `ElementsMake.cfg`, `ElementsOperands.cfg` | `MCElements` | `MadeInitialised`, `OperandsFirst` |
| `ThreadRace.cfg`, `ProcessError.cfg` | `MCProcess` | `AutoDetach`, `ErrorTold` |

Passing: `PackagesMore.cfg`, `MiddleEndMore.cfg` and `TextMore.cfg`,
with `Complete` for `Packages` and the type invariants of the other two. The type
invariants of all modules are theorems; those of `Process` and
`Elements` (`WindowsFit`) are stated with their proofs.

### Bounds, and why they are enough

- `wait_group`: a clearing loop that meets another needs two jobs that bring
  the count to zero; three jobs allow that with one still to be announced. Two
  waiters show how one registration hides the release from the other. Counters
  stay below 8, so `U32 = 8` loses nothing, and 0 - 1 does wrap around.
- `ref`: two threads can drop the last two references at once; a third variable
  holds on to an object meanwhile; two objects make chains and cycles of length
  one and two. Objects are allocated at most once each (`none` to `live`), so
  that a second deletion shows.
- `slice`: three variables over one array give every combination of a reader of
  the counter, a dropper and a bystander; a capacity of two is what `push` on an
  empty slice allocates, and leaves cuts with an offset, spare capacity and none.
  Threads, variables and arrays are interchangeable, hence the symmetry; the run
  has no liveness property.
- `packages`: three packages make cycles of length one to three, diamonds and
  shared imports; two files, or two uses, make every order of discovery; a
  package without files is one whose files the build directives have excluded.
- `text`: the bytes are one of each row of the decoder's tables, and the ends of the
  ranges of second bytes; the runes are the ends of every form, of the surrogates
  and of Unicode, and two that are no code points. Three bytes before a rune make
  every cut sequence; strings of any length, four-byte sequences and every rune
  between the boundaries are the subject of `ValuesProofs`.
- `box`: two traits and two anys for assignments between them, references of two
  types for casts that fail, three objects so that one can be shared while two
  others change hands, and two boxes so that memory runs out when both anys are
  in use. Objects, boxes, traits and anys are interchangeable.
- `elements`: two slices share, overlap and grow apart; length two gives a middle,
  an end and spare room, since growing takes twice what is needed. Three arrays and
  three cells leave one that is fresh when two are in use. `VIEW` leaves out `call`,
  which the properties read of a step and no step reads.
- `process`: `Budgets` bounds the scopes, blocks and threads of each program: one
  thread that nests three deep with two blocks or two deep with three, two threads
  side by side, and two threads that share a spawned one with a handle here and two
  there: one to dispose of, one to assign from and one to assign to. One signal stands
  for all.
- `orderer`: chains of four, which only `OrdererChains.cfg` asks about in a longer
  list, and forests; `Collected` has one order only, because the programs include
  every renaming.
- `middle_end`: cycles of two functions, cycles through a variable and a method,
  two init functions, and three packages so that one is first, one last and one
  between. The init function of the one between may touch what the entry point mentions
  itself, what it reaches through the definition that was examined last before, and
  what it reaches both ways. Some mentions are fixed and the others chosen, 13 bits in
  all.

### Fairness

- `WaitGroup`: weak fairness of each thread's `Step`, which is everything but
  the announcement of new jobs. The operating system runs threads that can run
  (the code spins and never blocks), and jobs return.
- `Ref`: weak fairness of `Run(t)`: a thread inside an operation goes on; it is
  not forced to begin one.
- `Packages`, `Orderer`, `MiddleEnd`: weak fairness of the next-state relation.
  The compiler is one thread that runs until it is through.
- `Process`: weak fairness of `RunBlock`, `Leave`, `Unwind` and of the two later steps
  of `dispose`: a thread that can run does. Strong fairness of `Return`: `PanicEnds`
  says that a panic ends if the code that deferred blocks run ends, and a block
  that loops for ever is a program's own affair.
- `Slice`, `Text`, `Box` and `Elements` have no properties, and state no fairness.

## Findings

Each names the run or the configuration that TLC refutes, and `PROJECT.json` the
sentence of the repository it contradicts.

1. `wait_group_lost_wakeup` (`waitgroup.jule:60`): `wait` reads `task_n` and then
   registers. If the last `done` reads `wait_n` between the two, the registration is
   never cleared and `wait` spins for ever.
2. `wait_group_reuse` (`waitgroup.jule:46`): the clearing loop of the last `done`
   of one cycle may run until the next cycle's `wait` has registered, and release it
   while a task runs.
   With two waiters there is a third effect, which is the reason for the form of
   `RegisteredWaitersReturn`: a waiter that was released and has not looked yet is
   blocked again by one that registers late. So the property asks that all waiters
   have registered while a task is counted.
3. `RefInner.cfg` (`ref.hpp:182`): `head = head.next` with the only reference in
   `head` drops the object, and with it the field that is then read.
4. `SliceRace.cfg` (`slice.hpp:121`): two threads destroy the last two slices of an
   array, both read 2, and both clear `alloc`; the one that decrements last deletes a
   null pointer and the array leaks. The counter itself stays exact, which `slice` shows.
5. `SliceNil.cfg` (`slice.hpp:122`): assigning nil to a slice whose array is shared
   clears `alloc` and keeps `ref`: the array stays counted, and leaks.
6. `OrdererPromise.cfg` (`order.jule:24`): a definition that mentions another one
   twice, or two against the order of the list, or a constant, is never found
   ordered. Naming at most one other is not enough either: a definition that is moved
   back jumps over some that the pass then does not look at, and five definitions can
   use up all passes (`ChainsOrdered`, refuted by `OrdererChains.cfg`; four cannot).
   `ShortChainsOrdered` says what does hold, and is proved: a list made of nothing but
   chains of up to three. One definition outside them, and it says nothing of the rest;
   the same goes for `InitialisedBefore`, of the variables that elimination leaves.
7. `TextRuneKept.cfg` (`utf8.hpp:140`): U+07FF is written in three bytes, an overlong
   form that no decoder takes; theorem `BoundaryRuneLost` proves it, and
   `RuneReadBack` that it is the only one.
8. `utf16.hpp:91`: `+` binds before `&`, so both surrogates lose their prefixes. What
   is beyond the first plane reaches a Windows console as two unrelated units;
   `UnitsKeepText` speaks of the first plane for that reason.
9. `ElementsMake.cfg` (`slice.hpp:139`): `make([]int, n)` gives what the memory held.
10. `ElementsOperands.cfg` (`expr.jule:785`): in `d = append(s, d[0])` the operand is
    read after `s` was assigned to `d`; when `s` is empty it panics, and `d` is changed.
11. `ProcessError.cfg` (`terminate.hpp:52`): the error that `recover` hands over has no
    message; `PanicError` keeps it under another name than the one that is called.
12. `ThreadRace.cfg` (`thread.jule:74`): two threads that dispose of the last two
    handles both count two and nobody detaches; and assigning to the last handle
    drops it without `dispose`. Either way a joinable `std::thread` is destroyed, which
    ends the process. `LastDetaches` says that these are the only ways, and is proved.
13. `trait.hpp:135`: the comparison of two traits compares one with itself.
14. `proc.jule:21`: `env()` of `std::env` returns the arguments. Seen in the source.

One more thing TLC shows without a sentence that would contradict it:
`catch_alive_init` uses the `main_current` left by the package before, so an init
function that touches only what the definition examined last there uses is
dropped although that one is alive. `InitKept` states what holds in spite of it, in
every package: an init function stays that touches what the entry point reaches along
mentions that do not pass through that definition (`LastBefore`). Without this
exception TLC refutes it.
Likewise an init function that touches nothing alive is removed although a function
that is kept calls it by name, and with it what it alone mentions. Sema does not
forbid such calls; `Closed` and `InitKept` are false of programs that make them,
as TLC finds when it is given one (an entry point that calls `f`, which calls the
init function, which calls `h`).

## Proofs

Every theorem is checked by TLAPS from the modules' named assumptions.

**`WaitGroupProofs`**, for any number of jobs and waiters, and a width that
exceeds both. `TypeCorrect`, `CountCorrect` (`task_n` is the number of
unfinished jobs) and `PanicFree` hold for any number of cycles. They follow from
`CountInv`: the count is not inductive without `WhereOK`, which says that batches of
announced jobs are disjoint, unborn, and held only by threads that are starting
them. `NoEarlyReturnInOneCycle` assumes `Rounds <= 1`, as the second finding
demands. Its invariant `CycleInv` says that while a task is counted `wait_n` is the
number of waiters that spin, and no thread is in the clearing loop.

**`RefProofs`**, for any set of threads, and any finite sets of variables and
objects. `TypeCorrect`, `CountCorrect`, `HandlesSafe`, `AccessSafe`, `NothingLeaks`,
`NoDoubleDelete` and `Refinement` (`Ref` implements `Lifetime`). Each assumes
`InnerSource = FALSE`, as the third finding demands. The inductive invariant is
`IInv`, the conjunction of

- `Shape` and `Chain`: what the stacks of `drop()` look like. Below the
  destination there are fields of dying objects, each on one stack;
- `Links`: `alloc` and `ref` differ only for handles whose object is dying;
- `Cells`: counters and heap cells against the handles. An object without
  holders has exactly one thread that is about to delete it;
- `Claims`: who may name which handle. This is the part that needs the
  discipline of programs: the source of an assignment is held by a variable that
  the assignment leaves alone, so it survives the drop of the destination.

Each action has a lemma (`StepNew`, `StepGive`, `StepAssign`, ...) that preserves
`IInv` and is a step or a stutter of `Lifetime`.

`DropsDescend` is the part of `DropEnds` that is safety: `Ahead(t)`, a natural
number, becomes smaller with every step of an operation of thread `t`, and no step of
another thread makes it larger. It adds up, with weights, the objects that nobody has
begun to delete, the depth of the stack and the place in the code: a drop that goes
down a chain of objects pays for each frame of its stack with the object it deletes
(`UnbrokenShrinks`, `BreaksOne`). Objects not allocated yet count as well, and a
deleted one is not used again, so allocations of other threads change nothing.

**`MiddleEndProofs`**, for any packages, any definitions and mentions, cyclic ones
included, under the assumptions of `DeadCode` that the phases before justify.

Of the order: `OrdererTypeCorrect`, `NothingLost` (the list stays a permutation of
what was given), `PreconditionKept` (`is_common_ordered` is never asked about a
definition without dependencies, where it would read out of range) and
`ChainsComeInOrder` (property `ShortChainsOrdered`). The invariant `OrderInv` adds
`Sorted`: what depends on nothing is exactly what lies in front of `i`, and the inner
loop stays behind it. `ChainInv` counts: a definition is settled when it stands behind
what it depends on; passes only settle, and each one settles another while there is
one that is not (`Progress`).

Of the elimination: `EliminationTypeCorrect`, `MentionedIsKept` (property `Closed`),
`OnlyNeededIsKept` and `TouchingInitIsKept` (`InitKept`). A set of definitions is
unneeded if nothing outside refers to its members and none of them must stay; `Dead`
is the greatest such set. `IsDeadMeaning` is the main lemma: the search answers by
such a set, whatever it takes for dead because it is on its path, because it was asked
for, or because it is marked already; and so each examination is right
(`ExamineIsRight`). The invariant `DInv` says that what is removed is exactly what is
dead of what was examined. It survives `CatchInit`, which lets an init function stay
and so may bring definitions back to life: they stand in packages that were not
examined yet. `Closed` and `InitKept` are proved of programs that do not call init
functions or the entry point (`Uncalled`). Of the others holds `NothingUsedIsRemoved`:
what is kept mentions nothing that is gone, but for an init function, which
`eliminate` takes out when it touches nothing alive, whoever calls it.

Of both: `MiddleEndEliminates` (what is said of `DeadCode` holds of `MiddleEnd`),
`WhatIsLeftIsOrdered` (property `OrderedAreLeft`) and `WhatIsLeftIsInitialised`
(`InitialisedBefore`). The invariant `MInv` joins the two, from the collection on.
`MiddleEndDescends`: with every step the stage, the packages or turns of a loop that
are left, or the definitions or turns of the inner loop descend, in this order of
weight, although `eliminate` and `order_common` change the lists they go over.

Here, in `ProcessProofs` and in `ValuesProofs`, recursive functions are reasoned about. The induction
theorems of the library take an operator, which the provers cannot instantiate; in
their place stand `Least` and `CountingUp`, which speak of sets of numbers and rest
on the well-foundedness of finite subsets, a theorem without an operator.

**`ValuesProofs`**, about `Elements`, for any numbers of slices, arrays and cells, any
values, lengths and bound, as long as there is always memory for one more array
(`HeapAssumption`): `WindowsFit`, `SpareIsNeverSeen`, and the action properties
`AppendsAdd`, `OthersAreKept` and `ClonesAreDeep`. The inductive invariant is
`WindowsFit` itself: each window lies within its array and shows what was written as
an element, and array and map hold elements. All the rest is about single calls:
`Derived` says of the memory and the window that a call leaves what they show and that
nothing outside the window of its slice was written, and `StepIsRight` carries that
through each of them, the folds over operands included.

And about `Text`, for strings of any length, any bytes, runes, operands and counts:
`TextTyped` (`TextTypeOK`), `RunesAreTheStandards` (property `RunesByStandard`),
`UnitsKeepTheText` (`UnitsKeepText`), `SplitLosesNothing` (`SplitParts`),
`ReplacingIsSplitting` (`ReplaceIsSplit`) and `AppendedIsReadBack` (`RuneAppended`). The
invariant `TextInv` adds to the types that the result is what the operation that is
remembered makes of the string as it stands (`TextResults`); what is left are facts
about the operations:

- a single rune. `RuneReadBack`: a code point other than U+07FF, written by
  `utf8_rune_to_bytes` before any text, is the first rune that `utf8_decode_rune_str`
  reads, and it takes exactly the bytes written. `BoundaryRuneLost`: U+07FF is not.
  `DecoderAdvances`: the decoder takes at least one byte of a text that has one and
  never more than there are, so that the loops over it end. They rest on how
  quotients and remainders by 64 make up a number (`SixBits`, `Shifts`, `Carried`);
- the decoder against the standard (`DecodeIsShortest`): a sequence passes the tables
  exactly when it is laid out as the standard says and its value is a code point
  without a shorter form (`ShortestTwo`, `ShortestThree`, `ShortestFour`);
- what is appended (`RunesApart`): no rune reaches over a byte that is no
  continuation, so the runes before such a byte are those of the text before it, and
  what is appended is read on its own (`RuneGained`);
- the loops. After each turn of the loop of `split` the parts made so far, joined, and
  the rest are the text, and no part holds a separator (`SplitTurnGood`). A turn of the
  loop of `replace` cuts where one of `split` does (`LockstepTurn`), since it searches
  only behind what it put in. Each turn that finds something shortens the rest, so
  that as many turns as there are bytes are all;
- UTF-16 (`PlainUnits`, `UnitsAre`): a rune of the first plane is one unit, which is no
  half of a pair, whatever stands beside it.

The recursions are functions over positions or numbers of turns. That each of them
obeys its defining equation is proved from the greatest or the least argument at
which it would not (`CountingDown`, `CountingUp`).

**`BoxProofs`**, for any finite sets of variables, boxes and objects and any types.
`TypeCorrect`, `CountCorrect`, `TagsCorrect` and `BoxesCorrect`. Their conjunction is
inductive. What needs an argument: `DropExact` and `AddExact` move one holder from
one object to another and count sets; `FreshUnheld` finds that an object whose
counter is zero is held by none, so that its type may change; `Released` says what an
any leaves behind, and `BoxTakes` that the next box fits; `TrueTag` that two handles
of one object agree on its name, which is why the early return of
`Trait::operator=` may keep the old one.

**`SliceProofs`**, for any finite sets of threads and variables, any arrays and any
capacity. `TypeCorrect`, `CountCorrect`, `WindowsLive` and `DeletedOnce`. The
inductive invariant is the conjunction of

- `Shape`: a variable without `alloc` has no window, whatever its `ref` says, which is
  what half-cleared slices look like;
- `Cells`: a counter is deleted before its array, or with it;
- `Work`: what each thread is about to do. One that is about to delete holds the
  counter alone; the source of an assignment is held by another variable of the
  thread, so it survives the drop of the destination;
- `CountExact`.

A step is one thread's with one variable (`Apart`). What the others hold stays
theirs (`OthersKept`, `WorkKept`), and the counter changes by what this variable and
this thread hold before and after (`Own`, `CountStep`), so that each action needs no
more than its own lines.

**`PackagesProofs`**, for any packages, any programs over them, cyclic ones
included, and any faults. `TypeCorrect`, `LoadedOnce`, `UsedBefore`,
`CheckedAtMostOnce`, `UsesChecked` (property `CheckedAfterUses`), `VerdictIsRight`
(`Verdict`) and `ProgramIsComplete` (`Complete`). The invariant is

- `Static`, of the entries, which hold in both phases: they say what the use
  declarations do (`Faithful`); of all entries of a package one is not a
  duplicate (`Single`); who is in `all` has all its entries (`Built`);
- `Building1`, of the first stack: it starts with the main package, has no package
  twice and none that is in `all`, and each frame has made the entries of the
  use declarations before its own (`Reached`) and waits for the frame above it;
- `Checking1`, of the second stack: each frame stands at the entry that opened the
  one above it, and a package is checked when the entry that opened it is past.

That duplicates may be skipped needs more: the checker must have seen the package
already. `at[p]` is how many packages were built when `p` was opened; it is not in
the code, so the invariant says that such numbers exist. With them the entries tell
the order of building: what a duplicate names was built before its entry
(`Duplicates`), nothing was built between the entry of a new package and its
opening (`Openings`), nor between the last entry of a package and its own end
(`Endings`). `FrameDone` then says that a frame of the checker has found all that
was built before its entry checked. A step over a duplicate uses `Duplicates`,
opening a package `Openings`, and its end `Endings` (`PastEntry`, `CheckOpens`,
`PastChecked`).

The verdict needs `VInv` besides: what was parsed has no fault and no repetition, a
frame of the stack leads to those above it, and a program is rejected for a reason. A
rejected program is unacceptable, since the stack that meets itself is a cycle. An
accepted one is acceptable because what was built, with the main package, is closed
under use and nothing else is in it; and it has no cycles, because a package that leads
to itself would have to be built before itself.

`CompilerDescends` assumes finitely many packages. In each phase five amounts descend
in lexicographic order: the phase, the packages not yet opened, the depth of the stack,
the files of the package at hand and the entries of its file. Opening a package makes
the stack deeper, but takes one from the packages that are left: when loading, since no
package is parsed twice (`ParsedOnce`); when checking, since a package that is opened
is neither on the stack nor checked (`Checking1`). The duplicate flags are what makes
the second true.

**`ProcessProofs`**, for any threads, programs, depth of scopes and number of blocks,
and any finite set of handles. `TypeCorrect`, `BlocksRunOnce` (property `DeferOnce`),
`BlocksReversed` (`DeferReverse`), `PanicsAreRecovered` (`PanicRecovered`) and
`LastHandleDetaches` (`LastDetaches`). The invariant is

- `Numbered`, of each stack: the numbers of the blocks that are deferred or running grow
  from the bottom of the stack to its top, within a frame too, and each block that
  was deferred is either done or among them. So it is in one frame only, and the last
  one of the top frame has nothing younger left to wait for. Pushing, popping,
  deferring and running a block have a lemma each (`NumberedPush`, `NumberedPop`,
  `NumberedDefer`, `NumberedRun`);
- `AtWork`: a thread has frames exactly when it is at work, and the first is no block,
  so that a block always has an owner to go back to;
- `HandleInv`: a handle about to detach is alone and stays so, since only a handle that
  is not being disposed can be copied; one about to be dropped is not alone, unless its
  thread is not joinable or `hurried`; and of the handles of a thread that is not
  `hurried` at most one is being disposed. Without the last part two disposals could
  each leave the other as the reason not to detach. `HandleStep` is what all operations
  on handles have in common;
- `PanicInv`, for `PanicsAreRecovered`: a panic that unwinds a thread is going to the
  innermost try block below it (`Home`), and one that a deferred block has put off,
  to one below that block (`Saved`). So when the block ends, whatever panics it has
  raised and recovered itself, the panic goes on to the same recover. The n-th of the
  panics that a stack has put off is found by rank (`Kept`), so that pushing, popping
  and putting off are lemmas about cardinalities (`KeptAppend`, `KeptSame`).

### Only model-checked

- Liveness (`RegisteredWaitersReturn`, `DropEnds`, `Terminates`, `Ends`, `PanicEnds`):
  fairness and ENABLED are beyond the prover. Of `DropEnds`, of `Terminates` of
  `Packages` and of `Ends` the descent to the end is proved (`DropsDescend`,
  `CompilerDescends`, `MiddleEndDescends`); that the next step is taken, and possible
  until the end is reached, is what only TLC checks.
- The properties that are violated have a counterexample each. (What the one of
  `RuneKept` shows, `BoundaryRuneLost` proves.)

The modules that hold proofs, and those they extend, write recursion as functions.

## What is not modelled

- Weak memory. The runtime's atomics are relaxed; the models interleave them
  sequentially. What they refute stays refuted, but what holds, holds only as far
  as the hardware orders these accesses. In `ref.hpp:105` the deletion is not
  ordered after other threads' last accesses to the object; that needs another
  kind of model and is listed as a hazard.
- Memory that runs out, in all modules but `Box`. (When the second of two
  allocations fails the first one leaks.)
- In `Process`: the variables that a deferred block or `co` captures by reference;
  two threads that join one `std::thread` at once; what `sleep` waits for. Signals
  that a process ignores by default, SIGCHLD among them, end a Jule program, because
  it registers for all of them: a hazard, and in the model.
- In `Elements`: `make` with a negative length (`slice.hpp` compares unsigned
  numbers, so that its check does not see it); freeing of arrays and nil, which
  `Slice` has; the clone of a trait, which does not compile.
- In `Text`: formatting of numbers, and a `split` or `replace` that never ends because
  it looks for the empty string without a limit.
- The header's own vector of bytes, `StdJuleVecBuffer`, leaks what it holds when it is
  assigned to; it is used for output only.
- `misc.hpp` and `env.hpp`: single expressions and calls of the system. `env()` walks
  the global `envp` itself, so that it answers once.
- In `Packages`: C++ headers, path resolution, aliases and selections of use
  declarations (the selections of a duplicate import are never checked).
- In `DeadCode`: `scope.jule` (statements after `ret`), C++-linked definitions,
  functions and methods of other packages that are called init or main.
- In `MiddleEnd`: command line, structures (they go through the same
  `order_common`), writing of files, the C++ compiler.
- Components listed as `not_modelled` in `PROJECT.json`, with the reason: text
  in and out, floating point, generated tables and calls of the operating
  system are out of scope, the others are in the plan.

## Plan

Done, in this order: `WaitGroup` and its proofs, `Ref` with `Lifetime` and their
proofs, `Slice` and its proofs, `Packages` and its proofs, `Orderer`, `DeadCode`,
`MiddleEnd` and their proofs; then
the rest of the runtime: `Utf8`, `Utf16`, `Str`, `Text` and their proofs, `Box` and its
proofs, `Elements` and its proofs, `Process` and its proofs.

To extend the models:

1. Cycles in declarations: of types (`type.jule:740-825`), of globals
   (`eval.jule:653-697`), of derives (`sema.jule:1794-1835`); each against
   reachability, with the order of checking left open.
2. Control flow: `has_ret` (`sema.jule:188-300`), labels and gotos, and
   `deadcode/scope.jule`, against an execution of small statement lists.
3. `Vec` over a heap; `Mutex` and its `locked` field.
4. What `co` and deferred blocks capture by reference, as a composition of
   `Process` and `Ref`.
5. Pure algorithms over bounded inputs: base64, integer conversion with widths,
   path cleaning, the flag parser, splitting in the parser.
6. Type compatibility and arithmetic of constants.

To prove more: the modules of the list above, and a descent for `PanicEnds`.
