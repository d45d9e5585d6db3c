----------------------------- MODULE WaitGroup -----------------------------
(***************************************************************************)
(* std::sync::WaitGroup (src/std/sync/waitgroup.jule), one action per      *)
(* atomic access of add(), done() and wait().                              *)
(*                                                                         *)
(* The clients follow the usage comment of the type: the thread Main calls *)
(* add(delta) before it starts delta jobs, a job calls done() when it has  *)
(* finished, and Main and the other waiters call wait().  A running job    *)
(* may itself start further jobs, each announced with add(1).  Main goes   *)
(* through at most Rounds such add / start / wait cycles.                  *)
(*                                                                         *)
(* The accesses are relaxed atomics; the model interleaves them            *)
(* sequentially, which every weaker execution also allows.                 *)
(***************************************************************************)
EXTENDS Integers, FiniteSets

CONSTANTS
  Jobs,     \* threads that run a task and call done()
  Waiters,  \* threads that call wait()
  Main,     \* the waiter that also adds and starts the first jobs
  Rounds,   \* how many add / start / wait cycles Main makes
  U32       \* number of values of the counters' type (2^32 in the code)

ASSUME JobsAssumption == IsFiniteSet(Jobs) /\ IsFiniteSet(Waiters)
ASSUME ThreadsAssumption == Jobs \cap Waiters = {} /\ Main \in Waiters
ASSUME RoundsAssumption == Rounds \in Nat
ASSUME WidthAssumption ==
  U32 \in Nat /\ Cardinality(Jobs) < U32 /\ Cardinality(Waiters) < U32

Threads == Jobs \cup Waiters

VARIABLES
  task_n,     \* the field task_n
  wait_n,     \* the field wait_n
  pc,         \* where each thread is
  n_waiters,  \* the local n_waiters of add(), per thread
  batch,      \* jobs a thread has announced with add() and not started yet
  rounds,     \* add / start / wait cycles Main has begun
  owed        \* history: the jobs counted in task_n when a waiter called wait()

vars == <<task_n, wait_n, pc, n_waiters, batch, rounds, owed>>

\* Jobs that add() has counted and whose done() has not yet subtracted them.
Outstanding ==
  {j \in Jobs : pc[j] \in {"run", "start"} \/ \E t \in Threads : j \in batch[t]}

Locations ==
  {"unborn", "run", "start", "load", "clear", "reload", "finished", "panic",
   "idle", "join", "register", "spin", "returned"}

TypeOK ==
  /\ task_n \in 0 .. U32 - 1
  /\ wait_n \in 0 .. U32 - 1
  /\ pc \in [Threads -> Locations]
  /\ n_waiters \in [Threads -> 0 .. U32 - 1]
  /\ batch \in [Threads -> SUBSET Jobs]
  /\ rounds \in 0 .. Rounds
  /\ owed \in [Waiters -> SUBSET Jobs]

Init ==
  /\ task_n = 0
  /\ wait_n = 0
  /\ pc = [t \in Threads |-> IF t \in Jobs THEN "unborn" ELSE "idle"]
  /\ n_waiters = [t \in Threads |-> 0]
  /\ batch = [t \in Threads |-> {}]
  /\ rounds = 0
  /\ owed = [w \in Waiters |-> {}]

-----------------------------------------------------------------------------
(* add(delta) *)

\* Mutant: the test new_nr_tasks != 0 is missing.
FetchAddAlwaysReleases(t, delta, then) ==
  /\ task_n' = (task_n + delta) % U32
  /\ pc' = [pc EXCEPT ![t] = IF delta < 0 THEN "load" ELSE then]

\* The fetch-and-add at the head of add(), and the two tests on its result;
\* `then` is where the thread goes when add() returns at once.
FetchAdd(t, delta, then) ==
  /\ task_n' = (task_n + delta) % U32
  /\ pc' = [pc EXCEPT ![t] = IF task_n + delta < 0 THEN "panic"
                             ELSE IF task_n + delta # 0 THEN then
                             ELSE "load"]

\* Main: wg.add(delta), with delta jobs to start.
Launch ==
  /\ pc[Main] \in {"idle", "returned"}
  /\ rounds < Rounds
  /\ \E S \in SUBSET {j \in Jobs : pc[j] = "unborn" /\ j \notin Outstanding} :
       /\ S # {}
       /\ FetchAdd(Main, Cardinality(S), "start")
       /\ batch' = [batch EXCEPT ![Main] = S]
  /\ rounds' = rounds + 1
  /\ UNCHANGED <<wait_n, n_waiters, owed>>

\* Mutant: the job starts another one without add(1).
SpawnUncounted(t) ==
  /\ pc[t] = "run"
  /\ \E j \in Jobs :
       /\ pc[j] = "unborn" /\ j \notin Outstanding
       /\ batch' = [batch EXCEPT ![t] = {j}]
  /\ pc' = [pc EXCEPT ![t] = "start"]
  /\ UNCHANGED <<task_n, wait_n, n_waiters, rounds, owed>>

\* A running job: wg.add(1) for one further job.
Spawn(t) ==
  /\ pc[t] = "run"
  /\ \E j \in Jobs :
       /\ pc[j] = "unborn" /\ j \notin Outstanding
       /\ FetchAdd(t, 1, "start")
       /\ batch' = [batch EXCEPT ![t] = {j}]
  /\ UNCHANGED <<wait_n, n_waiters, rounds, owed>>

\* `co job()`: one announced job starts to run.
Start(t) ==
  /\ pc[t] = "start"
  /\ \E j \in batch[t] :
       /\ batch' = [batch EXCEPT ![t] = @ \ {j}]
       /\ pc' = [pc EXCEPT ![j] = "run",
                           ![t] = IF batch[t] # {j} THEN "start"
                                  ELSE IF t = Main THEN "join" ELSE "run"]
  /\ UNCHANGED <<task_n, wait_n, n_waiters, rounds, owed>>

\* done() is add(-1).
Done(t) ==
  /\ t \in Jobs
  /\ pc[t] = "run"
  /\ FetchAdd(t, -1, "finished")
  /\ UNCHANGED <<wait_n, n_waiters, batch, rounds, owed>>

\* Mutant: a single waiter is taken for none.
LoadWaitersOffByOne(t) ==
  /\ pc[t] = "load"
  /\ n_waiters' = [n_waiters EXCEPT ![t] = wait_n]
  /\ pc' = [pc EXCEPT ![t] = IF wait_n <= 1 THEN "finished" ELSE "clear"]
  /\ UNCHANGED <<task_n, wait_n, batch, rounds, owed>>

\* add(), task count zero: read wait_n, return if nobody waits.
LoadWaiters(t) ==
  /\ pc[t] = "load"
  /\ n_waiters' = [n_waiters EXCEPT ![t] = wait_n]
  /\ pc' = [pc EXCEPT ![t] = IF wait_n = 0 THEN "finished" ELSE "clear"]
  /\ UNCHANGED <<task_n, wait_n, batch, rounds, owed>>

\* add(): the compare-and-swap of the clearing loop and the test after it.
ClearWaiters(t) ==
  /\ pc[t] = "clear"
  /\ wait_n' = IF wait_n = n_waiters[t] THEN 0 ELSE wait_n
  /\ pc' = [pc EXCEPT ![t] = IF n_waiters[t] = 0 THEN "finished" ELSE "reload"]
  /\ UNCHANGED <<task_n, n_waiters, batch, rounds, owed>>

\* add(): the load that ends one turn of the clearing loop.
ReloadWaiters(t) ==
  /\ pc[t] = "reload"
  /\ n_waiters' = [n_waiters EXCEPT ![t] = wait_n]
  /\ pc' = [pc EXCEPT ![t] = "clear"]
  /\ UNCHANGED <<task_n, wait_n, batch, rounds, owed>>

-----------------------------------------------------------------------------
(* wait() *)

\* wait(): read task_n, return at once if it is zero.
LoadTasks(t) ==
  /\ t \in Waiters
  /\ pc[t] = IF t = Main THEN "join" ELSE "idle"
  /\ pc' = [pc EXCEPT ![t] = IF task_n = 0 THEN "returned" ELSE "register"]
  /\ owed' = [owed EXCEPT ![t] = Outstanding]
  /\ UNCHANGED <<task_n, wait_n, n_waiters, batch, rounds>>

\* wait(): the waiter counts itself in wait_n.
Register(t) ==
  /\ pc[t] = "register"
  /\ wait_n' = (wait_n + 1) % U32
  /\ pc' = [pc EXCEPT ![t] = "spin"]
  /\ UNCHANGED <<task_n, n_waiters, batch, rounds, owed>>

\* wait(): the spinning load reads zero and wait() returns.
Return(t) ==
  /\ pc[t] = "spin"
  /\ wait_n = 0
  /\ pc' = [pc EXCEPT ![t] = "returned"]
  /\ UNCHANGED <<task_n, wait_n, n_waiters, batch, rounds, owed>>

-----------------------------------------------------------------------------
Step(t) ==
  \/ Start(t) \/ Done(t) \/ LoadWaiters(t) \/ ClearWaiters(t) \/ ReloadWaiters(t)
  \/ LoadTasks(t) \/ Register(t) \/ Return(t)

Next == Launch \/ \E t \in Threads : Spawn(t) \/ Step(t)

Spec == Init /\ [][Next]_vars

\* The operating system runs every thread that can run, and a job returns:
\* whatever it spawns, it calls done() in the end.
Fairness == \A t \in Threads : WF_vars(Step(t))

FairSpec == Spec /\ Fairness

-----------------------------------------------------------------------------
(* Properties *)

\* task_n is the number of jobs announced and not finished: no interleaving
\* of add() and done() loses or doubles one (waitgroup.jule, add).
TaskCountExact == task_n = Cardinality(Outstanding)

\* No thread runs into the panic of add(), "negative number of tasks".
NoNegativeTasks == \A t \in Threads : pc[t] # "panic"

\* wait() "blocks until all tasks are done": when it has returned, every job
\* that was counted when it was called has called done().
NoEarlyReturn ==
  \A w \in Waiters : pc[w] = "returned" => owed[w] \cap Outstanding = {}

\* When every waiter has registered and a task is still counted, the last
\* done() finds them in wait_n and clears it until all are gone.  One waiter
\* that has yet to register may block the others again: wait_n is counter and
\* release flag in one.
RegisteredWaitersReturn ==
  (task_n > 0 /\ \A w \in Waiters : pc[w] \in {"spin", "returned"})
    ~> (\A w \in Waiters : pc[w] = "returned")

\* Every call of wait() returns: the tasks all finish, so "blocks until all
\* tasks are done" promises no more than that.
EveryWaitReturns ==
  \A w \in Waiters : (pc[w] = "register") ~> (pc[w] = "returned")
=============================================================================
