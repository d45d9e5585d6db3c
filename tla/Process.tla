------------------------------ MODULE Process ------------------------------
(***************************************************************************)
(* A running Jule program (src/api/fn.hpp, defer.hpp, panic.hpp,           *)
(* terminate.hpp, signal.hpp, the main function that the compiler writes)  *)
(* and its threads (src/std/thread): functions and scopes that are left    *)
(* normally or by a panic, deferred blocks, recover, and what ends the     *)
(* process.                                                                *)
(*                                                                         *)
(* What the program does is any choice of entering, deferring, panicking   *)
(* and returning; what happens then is what the C++ of the runtime and of  *)
(* the generated code does: a deferred block is a destructor, recover a    *)
(* try block around the rest of its scope.                                 *)
(***************************************************************************)
EXTENDS Integers, Sequences, FiniteSets, SequencesExt, FiniteSetsExt

CONSTANTS
    Threads,   \* the threads of the process
    Main,      \* the one that runs main()
    Handles,   \* variables of type Thread
    HolderOf,  \* the thread whose variable a handle is
    Signals,   \* the signals that arrive
    Messages,  \* what a panic is given
    Empty,     \* the empty string
    Nil,       \* nullptr
    Budgets    \* bound: how many scopes the threads enter, blocks they defer
               \* and threads they spawn with a handle

\* The signals of Linux; SIG_KILL and SIG_STOP among them.
LinuxSignals == 1 .. 31
SIG_KILL == 9
SIG_STOP == 19

\* set_sig_handler asks for all of them, those too that a process ignores by
\* default; the system refuses two.
RegisteredSignals == LinuxSignals \ {SIG_KILL, SIG_STOP}

ASSUME ProcessAssumption ==
    /\ Main \in Threads
    /\ HolderOf \in [Handles -> Threads] /\ IsFiniteSet(Handles)
    /\ Signals \subseteq RegisteredSignals
    /\ Nil \notin Threads
    /\ Budgets \subseteq [Threads -> [frames: Nat, blocks: Nat, spawns: Nat]]

VARIABLES
    stack,   \* the functions, scopes and blocks that each thread is in
    mode,    \* what each thread does: see Modes
    flight,  \* the panic that each thread is unwinding for
    budget,  \* what is left to each thread of one of Budgets
    blocks,  \* how many blocks each thread has deferred: they are numbered
    done,    \* the blocks of each thread that have run to their end
    handle,  \* the std::thread that each handle holds, and its dispose()
    os,      \* what each std::thread object stands for
    hurried, \* the std::threads of which a handle was let go while another one
             \* was being disposed; for the properties, nothing depends on it
    exit     \* what ended the process

vars == <<stack, mode, flight, budget, blocks, done, handle, os, hurried, exit>>
frameVars == <<stack, mode, flight, budget, blocks, done>>
handleVars == <<handle, os, hurried>>

Modes == {"new", "run", "leave", "unwind", "ended"}
Running == [why |-> "running"]
NoFlight == [home |-> -1]

\* A function or scope, the rest of a scope after recover() ("try"), the
\* handler of a recover, or a deferred block, with the numbers of the blocks
\* that were deferred in it.
Frame(kind) == [kind |-> kind, pending |-> <<>>]

NoStack == [t \in Threads |-> <<>>]
NoMode == [t \in Threads |-> "new"]
NoFlights == [t \in Threads |-> NoFlight]
NoBlocks == [t \in Threads |-> 0]
NoneDone == [t \in Threads |-> {}]
NoHandle == [h \in Handles |-> [thread |-> Nil, disposing |-> "no"]]
NoThread == [t \in Threads |-> "none"]

Init ==
    /\ stack = [NoStack EXCEPT ![Main] = <<Frame("body")>>]
    /\ mode = [NoMode EXCEPT ![Main] = "run"]
    /\ flight = NoFlights
    /\ budget \in Budgets
    /\ blocks = NoBlocks
    /\ done = NoneDone
    /\ handle = NoHandle
    /\ os = NoThread
    /\ hurried = {}
    /\ exit = Running

-----------------------------------------------------------------------------
Top(t) == Last(stack[t])

\* The program's own code runs in t.
Runs(t) ==
    /\ exit = Running
    /\ mode[t] = "run"
    /\ \A h \in Handles : HolderOf[h] = t => handle[h].disposing = "no"

\* The process ends, and all that it was doing with it.
Exit(why) ==
    /\ exit' = why
    /\ stack' = NoStack /\ mode' = NoMode /\ flight' = NoFlights
    /\ blocks' = NoBlocks /\ done' = NoneDone
    /\ handle' = NoHandle /\ os' = NoThread /\ hurried' = {}
    /\ budget' = [t \in Threads |-> [frames |-> 0, blocks |-> 0, spawns |-> 0]]

\* Where a C++ exception ends that is thrown in the frames s: at the innermost
\* try block, unless the destructor of a deferred block, which lets none out,
\* lies between; 0 when there is none.
Home(s) == LET open == {i \in DOMAIN s :
                           /\ s[i].kind = "try"
                           /\ \A j \in i .. Len(s) : s[j].kind # "block"}
           IN  Max(open \union {0})

\* terminate_handler: the message is printed, and the process ends.
Terminate(home) == Exit([why |-> "panic", home |-> home])

-----------------------------------------------------------------------------
(* What the program does *)

\* A call, a scope, or recover(): the rest of its scope becomes a try block.
Enter(t, kind) ==
    /\ Runs(t)
    /\ budget[t].frames > 0
    /\ budget' = [budget EXCEPT ![t].frames = @ - 1]
    /\ stack' = [stack EXCEPT ![t] = Append(@, Frame(kind))]
    /\ UNCHANGED <<mode, flight, blocks, done, handleVars, exit>>

\* __JULE_DEFER: a DeferBase in the scope.
Defer(t) ==
    /\ Runs(t)
    /\ budget[t].blocks > 0
    /\ budget' = [budget EXCEPT ![t].blocks = @ - 1]
    /\ blocks' = [blocks EXCEPT ![t] = @ + 1]
    /\ stack' = [stack EXCEPT ![t][Len(stack[t])].pending = Append(@, blocks[t] + 1)]
    /\ UNCHANGED <<mode, flight, done, handleVars, exit>>

\* The end of a scope, or a return statement, which leaves several.
Return(t) ==
    /\ Runs(t)
    /\ mode' = [mode EXCEPT ![t] = "leave"]
    /\ UNCHANGED <<stack, flight, budget, blocks, done, handleVars, exit>>

\* panic(m), and every check of the runtime that fails.  When nothing will catch
\* the exception, an implementation may unwind the stack before it calls the
\* terminate handler, or not.
Raise(t, m) ==
    /\ Runs(t)
    /\ LET home == Home(stack[t])
       IN  \/ /\ mode' = [mode EXCEPT ![t] = "unwind"]
              /\ flight' = [flight EXCEPT ![t] = [home |-> home, message |-> m]]
              /\ UNCHANGED <<stack, budget, blocks, done, handleVars, exit>>
           \/ home = 0 /\ Terminate(home)

\* __JULE_CO: a thread that is detached at once.
Co(t, u) ==
    /\ Runs(t)
    /\ mode[u] = "new"
    /\ mode' = [mode EXCEPT ![u] = "run"]
    /\ stack' = [stack EXCEPT ![u] = <<Frame("body")>>]
    /\ UNCHANGED <<flight, budget, blocks, done, handleVars, exit>>

-----------------------------------------------------------------------------
(* What the frames do when they are left *)

\* Mutant: the oldest block runs first.
MutantRunBlock(t) ==
    /\ exit = Running
    /\ mode[t] \in {"leave", "unwind"}
    /\ Top(t).pending # <<>>
    /\ LET n == Len(stack[t])
           block == [kind |-> "block", pending |-> <<>>, number |-> Head(Top(t).pending),
                     mode |-> mode[t], flight |-> flight[t]]
       IN  stack' = [stack EXCEPT ![t] = Append([stack[t] EXCEPT ![n].pending = Tail(@)], block)]
    /\ mode' = [mode EXCEPT ![t] = "run"]
    /\ flight' = [flight EXCEPT ![t] = NoFlight]
    /\ UNCHANGED <<budget, blocks, done, handleVars, exit>>

\* ~DeferBase of the last block that was deferred in the frame: it runs like
\* any other code, and may defer, recover and panic itself.
RunBlock(t) ==
    /\ exit = Running
    /\ mode[t] \in {"leave", "unwind"}
    /\ Top(t).pending # <<>>
    /\ LET n == Len(stack[t])
           block == [kind |-> "block", pending |-> <<>>, number |-> Last(Top(t).pending),
                     mode |-> mode[t], flight |-> flight[t]]
       IN  stack' = [stack EXCEPT ![t] = Append([stack[t] EXCEPT ![n].pending = Front(@)], block)]
    /\ mode' = [mode EXCEPT ![t] = "run"]
    /\ flight' = [flight EXCEPT ![t] = NoFlight]
    /\ UNCHANGED <<budget, blocks, done, handleVars, exit>>

\* The frame is gone and the one below goes on: the caller with its next
\* statement, the owner of a block with what it was doing.
Leave(t) ==
    /\ exit = Running
    /\ mode[t] = "leave"
    /\ Top(t).pending = <<>>
    /\ \/ /\ Top(t).kind = "block"
          /\ mode' = [mode EXCEPT ![t] = Top(t).mode]
          /\ flight' = [flight EXCEPT ![t] = Top(t).flight]
          /\ done' = [done EXCEPT ![t] = @ \union {Top(t).number}]
          /\ stack' = [stack EXCEPT ![t] = Front(@)]
          /\ UNCHANGED <<budget, blocks, handleVars, exit>>
       \/ /\ Top(t).kind # "block" /\ Len(stack[t]) > 1
          /\ mode' = [mode EXCEPT ![t] = "run"]
          /\ stack' = [stack EXCEPT ![t] = Front(@)]
          /\ UNCHANGED <<flight, budget, blocks, done, handleVars, exit>>
       \/ /\ Len(stack[t]) = 1 /\ t = Main
          /\ Exit([why |-> "main"])
       \/ /\ Len(stack[t]) = 1 /\ t # Main
          /\ mode' = [mode EXCEPT ![t] = "ended"]
          /\ stack' = [stack EXCEPT ![t] = <<>>]
          /\ UNCHANGED <<flight, budget, blocks, done, handleVars, exit>>

\* The error that recover gives to its handler (exception_to_error): PanicError
\* keeps the message, but not under the name that error() is called by.
Told(message) == Empty

\* Mutant: the blocks of the try block are forgotten.
MutantUnwind(t) ==
    /\ exit = Running
    /\ mode[t] = "unwind"
    /\ \/ /\ Top(t).kind = "try"
          /\ stack' = [stack EXCEPT ![t] = Append(Front(@),
                          [kind |-> "handler", pending |-> <<>>,
                           error |-> Told(flight[t].message)])]
          /\ mode' = [mode EXCEPT ![t] = "run"]
          /\ flight' = [flight EXCEPT ![t] = NoFlight]
          /\ UNCHANGED <<budget, blocks, done, handleVars, exit>>
       \/ /\ Top(t).kind = "block" \/ Len(stack[t]) = 1
          /\ Terminate(flight[t].home)
       \/ /\ Top(t).kind \in {"body", "handler"} /\ Len(stack[t]) > 1
          /\ Top(t).pending = <<>>
          /\ stack' = [stack EXCEPT ![t] = Front(@)]
          /\ UNCHANGED <<mode, flight, budget, blocks, done, handleVars, exit>>

\* Mutant: the exception is caught one try block too far out.
MutantCatch(t) ==
    /\ exit = Running
    /\ mode[t] = "unwind"
    /\ Top(t).pending = <<>>
    /\ \/ /\ Top(t).kind = "try" /\ Home(Front(stack[t])) = 0
          /\ stack' = [stack EXCEPT ![t] = Append(Front(@),
                          [kind |-> "handler", pending |-> <<>>,
                           error |-> Told(flight[t].message)])]
          /\ mode' = [mode EXCEPT ![t] = "run"]
          /\ flight' = [flight EXCEPT ![t] = NoFlight]
          /\ UNCHANGED <<budget, blocks, done, handleVars, exit>>
       \/ /\ Top(t).kind = "block" \/ Len(stack[t]) = 1
          /\ Terminate(flight[t].home)
       \/ /\ Top(t).kind # "block" /\ Len(stack[t]) > 1
          /\ Home(Front(stack[t])) # 0
          /\ stack' = [stack EXCEPT ![t] = Front(@)]
          /\ UNCHANGED <<mode, flight, budget, blocks, done, handleVars, exit>>

\* Mutant: no exception leaves a handler.
MutantHandler(t) ==
    /\ exit = Running
    /\ mode[t] = "unwind"
    /\ Top(t).pending = <<>>
    /\ \/ /\ Top(t).kind = "try"
          /\ stack' = [stack EXCEPT ![t] = Append(Front(@),
                          [kind |-> "handler", pending |-> <<>>,
                           error |-> Told(flight[t].message)])]
          /\ mode' = [mode EXCEPT ![t] = "run"]
          /\ flight' = [flight EXCEPT ![t] = NoFlight]
          /\ UNCHANGED <<budget, blocks, done, handleVars, exit>>
       \/ /\ Top(t).kind = "block" \/ Len(stack[t]) = 1
          /\ Terminate(flight[t].home)
       \/ /\ Top(t).kind = "body" /\ Len(stack[t]) > 1
          /\ stack' = [stack EXCEPT ![t] = Front(@)]
          /\ UNCHANGED <<mode, flight, budget, blocks, done, handleVars, exit>>

\* The exception leaves the frame: it is caught, it meets a destructor or the
\* end of the stack, or it goes on to the next frame.
Unwind(t) ==
    /\ exit = Running
    /\ mode[t] = "unwind"
    /\ Top(t).pending = <<>>
    /\ \/ /\ Top(t).kind = "try"
          /\ stack' = [stack EXCEPT ![t] = Append(Front(@),
                          [kind |-> "handler", pending |-> <<>>,
                           error |-> Told(flight[t].message)])]
          /\ mode' = [mode EXCEPT ![t] = "run"]
          /\ flight' = [flight EXCEPT ![t] = NoFlight]
          /\ UNCHANGED <<budget, blocks, done, handleVars, exit>>
       \/ /\ Top(t).kind = "block" \/ Len(stack[t]) = 1
          /\ Terminate(flight[t].home)
       \/ /\ Top(t).kind \in {"body", "handler"} /\ Len(stack[t]) > 1
          /\ stack' = [stack EXCEPT ![t] = Front(@)]
          /\ UNCHANGED <<mode, flight, budget, blocks, done, handleVars, exit>>

\* signal_handler, in whichever thread, between any two steps: the signal is the
\* exit status.
Signal(s) ==
    /\ exit = Running
    /\ Exit([why |-> "signal", code |-> s])

-----------------------------------------------------------------------------
(* Thread handles *)

Held(h) == handle[h].thread
CountOf(u) == Cardinality({h \in Handles : Held(h) = u})

\* Thread::active: the handle holds a std::thread that is joinable.
Active(h) == Held(h) # Nil /\ os[Held(h)] = "joinable"

Set(h, u, disposing) == [handle EXCEPT ![h] = [thread |-> u, disposing |-> disposing]]

\* Another handle of the same std::thread is in its dispose().
Contended(h) == \E g \in Handles \ {h} :
                    Held(g) = Held(h) /\ handle[g].disposing # "no"
HurriedAfter(h) == IF Contended(h) THEN hurried \union {Held(h)} ELSE hurried

\* The Ref of a handle is dropped and takes u: with the last one the std::thread
\* is destroyed, and one that is joinable ends the process (std::terminate).
Drop(h, u, how) ==
    IF Active(h) /\ CountOf(Held(h)) = 1
    THEN Exit([why |-> "joinable", how |-> how, hurried |-> Held(h) \in hurried])
    ELSE /\ handle' = Set(h, u, "no")
         /\ hurried' = IF how = "assigned" THEN HurriedAfter(h) ELSE hurried
         /\ UNCHANGED <<frameVars, os, exit>>

\* Thread::spawn, into a variable that holds nothing: the thread starts, or the
\* system has none to give and the constructor of std::thread throws what recover
\* does not catch, or the routine is nil.
Spawn(t, h, u) ==
    /\ Runs(t) /\ HolderOf[h] = t /\ Held(h) = Nil
    /\ budget[t].spawns > 0
    /\ \/ /\ mode[u] = "new"
          /\ budget' = [budget EXCEPT ![t].spawns = @ - 1]
          /\ mode' = [mode EXCEPT ![u] = "run"]
          /\ stack' = [stack EXCEPT ![u] = <<Frame("body")>>]
          /\ handle' = Set(h, u, "no")
          /\ os' = [os EXCEPT ![u] = "joinable"]
          /\ UNCHANGED <<flight, blocks, done, hurried, exit>>
       \/ Exit([why |-> "no thread"])
       \/ \E m \in Messages : Raise(t, m)

\* g = h, or g is passed h: the reference that g held is dropped without a
\* dispose().
Assign(t, h, g) ==
    /\ Runs(t) /\ HolderOf[h] = t
    /\ handle[g].disposing = "no"
    /\ Held(h) # Held(g)
    /\ Drop(g, Held(h), "assigned")

\* Thread::wait returns when the thread has ended; on itself, join() throws what
\* recover does not catch; a handle that is not active panics.
Wait(t, h) ==
    /\ Runs(t) /\ HolderOf[h] = t
    /\ \/ /\ Active(h) /\ mode[Held(h)] = "ended"
          /\ os' = [os EXCEPT ![Held(h)] = "joined"]
          /\ handle' = Set(h, Nil, "no")
          /\ UNCHANGED <<frameVars, hurried, exit>>
       \/ /\ Active(h) /\ Held(h) = t
          /\ Exit([why |-> "joins itself"])
       \/ /\ ~Active(h)
          /\ \E m \in Messages : Raise(t, m)

\* Thread::detach
Detach(t, h) ==
    /\ Runs(t) /\ HolderOf[h] = t
    /\ \/ /\ Active(h)
          /\ os' = [os EXCEPT ![Held(h)] = "detached"]
          /\ handle' = Set(h, Nil, "no")
          /\ UNCHANGED <<frameVars, hurried, exit>>
       \/ /\ ~Active(h)
          /\ \E m \in Messages : Raise(t, m)

\* Mutant: the handle that is disposed is not counted.
MutantDispose(t, h) ==
    /\ Runs(t) /\ HolderOf[h] = t
    /\ Held(h) # Nil
    /\ hurried' = HurriedAfter(h)
    /\ handle' = Set(h, Held(h), IF Active(h) /\ CountOf(Held(h)) = 0
                                 THEN "detach" ELSE "drop")
    /\ UNCHANGED <<frameVars, os, exit>>

\* Thread::dispose asks whether it must detach ...
Dispose(t, h) ==
    /\ Runs(t) /\ HolderOf[h] = t
    /\ Held(h) # Nil
    /\ hurried' = HurriedAfter(h)
    /\ handle' = Set(h, Held(h), IF Active(h) /\ CountOf(Held(h)) = 1
                                 THEN "detach" ELSE "drop")
    /\ UNCHANGED <<frameVars, os, exit>>

\* ... detaches ...
DisposeDetach(h) ==
    /\ exit = Running
    /\ handle[h].disposing = "detach"
    /\ handle' = Set(h, Held(h), "drop")
    /\ os' = [os EXCEPT ![Held(h)] = "detached"]
    /\ UNCHANGED <<frameVars, hurried, exit>>

\* ... and drops the handle.
DisposeDrop(h) ==
    /\ exit = Running
    /\ handle[h].disposing = "drop"
    /\ Drop(h, Nil, "disposed")

-----------------------------------------------------------------------------
ProgramStep(t) ==
    \/ Enter(t, "body") \/ Enter(t, "try") \/ Defer(t) \/ Return(t)
    \/ \E m \in Messages : Raise(t, m)
    \/ \E u \in Threads : Co(t, u)
    \/ \E h \in Handles, u \in Threads : Spawn(t, h, u)
    \/ \E h, g \in Handles : Assign(t, h, g)
    \/ \E h \in Handles : Wait(t, h) \/ Detach(t, h) \/ Dispose(t, h)

Next ==
    \/ \E t \in Threads : ProgramStep(t) \/ RunBlock(t) \/ Leave(t) \/ Unwind(t)
    \/ \E h \in Handles : DisposeDetach(h) \/ DisposeDrop(h)
    \/ \E s \in Signals : Signal(s)

\* Threads that can run do, and what the program calls comes to an end.
Fairness ==
    /\ \A t \in Threads : /\ WF_vars(RunBlock(t)) /\ WF_vars(Leave(t))
                          /\ WF_vars(Unwind(t)) /\ SF_vars(Return(t))
    /\ \A h \in Handles : WF_vars(DisposeDetach(h)) /\ WF_vars(DisposeDrop(h))

Spec == Init /\ [][Next]_vars /\ Fairness

-----------------------------------------------------------------------------
\* The blocks that are still to run in t, or are running.
Waiting(t, i) == {n \in DOMAIN stack[t] :
                     \/ i \in Range(stack[t][n].pending)
                     \/ stack[t][n].kind = "block" /\ stack[t][n].number = i}

\* A deferred block runs once and is not forgotten, however its scope is left:
\* by a return, by a panic, by a panic that is recovered in the scope itself, or
\* while another block of it is running.
DeferOnce ==
    \A t \in Threads : \A i \in 1 .. blocks[t] :
        IF i \in done[t] THEN Waiting(t, i) = {}
        ELSE Cardinality(Waiting(t, i)) = 1

\* Blocks run in reverse order, through all the scopes of a thread: what was
\* deferred after a block has run to its end when the block begins.
DeferReverse ==
    [][\A t \in Threads :
         Len(stack'[t]) > Len(stack[t]) /\ Last(stack'[t]).kind = "block" =>
             \A i \in Last(stack'[t]).number + 1 .. blocks[t] : i \in done[t]]_vars

\* The panics that the blocks in s put off, from the bottom of the stack up: a
\* block that runs because of one goes on with it when it is left.
Kept(s) ==
    LET at == {n \in DOMAIN s : s[n].kind = "block" /\ s[n].flight # NoFlight}
        nth(i) == CHOOSE n \in at : Cardinality({m \in at : m <= n}) = i
    IN  [i \in 1 .. Cardinality(at) |-> s[nth(i)].flight]

\* The panics that t has raised and that are on their way: a block that runs
\* because of one may raise another.
Flights(t) == Kept(stack[t]) \o (IF flight[t] = NoFlight THEN <<>> ELSE <<flight[t]>>)

\* A panic goes to the recover that was the innermost when it was raised, and to
\* no other, whatever the blocks raise and recover that run on its way; only one
\* that had none, or that would have to leave a deferred block, ends the process.
PanicRecovered ==
    [][/\ \A t \in Threads :
             LET before == Flights(t)
                 after  == Flights(t)'
             IN  before # after /\ exit' = Running =>
                                   \/ Len(after) > Len(before) /\ IsPrefix(before, after)
                                   \/ /\ after = Front(before)
                                      /\ Len(stack'[t]) = Last(before).home
                                      /\ Last(stack'[t]).kind = "handler"
       /\ exit'.why = "panic" => exit'.home = 0]_vars

\* A panic does not stay on its way: it is recovered, or the process ends.
PanicEnds ==
    \A t \in Threads : Flights(t) # <<>> ~> Flights(t) = <<>> \/ exit # Running

\* dispose() takes a running thread and the process with it only in haste: when
\* another handle of the same std::thread was disposed, or assigned to, between
\* its look at the count and its own drop.  One handle at a time, in whatever
\* threads, the last to go always detaches: when it has found itself the last, it
\* stays so, and the std::thread joinable, until it detaches.  Only an assignment,
\* which calls no dispose(), loses a thread without haste.
LastDetaches ==
    /\ exit.why = "joinable" => exit.how = "assigned" \/ exit.hurried
    /\ \A h \in Handles : handle[h].disposing = "detach" =>
                              Active(h) /\ CountOf(Held(h)) = 1

\* A thread "automatically detaches when destroyed" (std/thread/thread.jule:39):
\* no handle that goes away takes a running thread and the process with it.
AutoDetach == exit.why # "joinable"

\* recover hands over the error: "call given function with handled error
\* instance" (std/builtin.jule:122), whose message is what panic was given.
ErrorTold ==
    \A t \in Threads : \A n \in DOMAIN stack[t] :
        stack[t][n].kind = "handler" => stack[t][n].error \in Messages
=============================================================================
