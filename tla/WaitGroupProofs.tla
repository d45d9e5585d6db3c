-------------------------- MODULE WaitGroupProofs --------------------------
(***************************************************************************)
(* Proofs about WaitGroup, for every number of jobs and waiters: the task  *)
(* count is exact for every number of cycles, and within one cycle no      *)
(* wait() returns early.                                                   *)
(***************************************************************************)
EXTENDS WaitGroup, FiniteSetTheorems, TLAPS

\* A counter below its width does not wrap around.
LEMMA ModSmall ==
  ASSUME NEW n \in Nat, NEW a \in Nat, a < n
  PROVE  a % n = a
BY SMT

LEMMA ThreadSets == IsFiniteSet(Threads) /\ Main \in Threads /\ Main \notin Jobs
BY JobsAssumption, ThreadsAssumption, FS_Union DEF Threads

-----------------------------------------------------------------------------
\* Who can be where, and what the announced jobs look like.
WhereOK ==
  /\ NoNegativeTasks
  /\ \A t \in Threads : pc[t] \in {"unborn", "run", "load", "clear", "reload", "finished"}
                          => t \in Jobs
  /\ \A t \in Threads : pc[t] \in {"join", "register", "spin", "idle", "returned"}
                          => t \in Waiters
  /\ \A t \in Threads : (batch[t] # {}) <=> (pc[t] = "start")
  /\ \A t \in Threads : \A j \in batch[t] : pc[j] = "unborn"
  /\ \A t, u \in Threads : t # u => batch[t] \cap batch[u] = {}
  /\ \A w \in Waiters : w # Main => batch[w] = {}

CountInv == TypeOK /\ WhereOK /\ TaskCountExact

LEMMA OutstandingFinite ==
  /\ IsFiniteSet(Outstanding)
  /\ Cardinality(Outstanding) \in Nat
  /\ Cardinality(Outstanding) <= Cardinality(Jobs)
  /\ Cardinality(Jobs) \in Nat
<1>1. Outstanding \subseteq Jobs
  BY DEF Outstanding
<1> QED
  BY <1>1, JobsAssumption, FS_Subset, FS_CardinalityType

LEMMA InitCount == Init => CountInv
<1> SUFFICES ASSUME Init PROVE CountInv
  OBVIOUS
<1>1. TypeOK
  BY RoundsAssumption, WidthAssumption, OutstandingFinite
  DEF Init, TypeOK, Threads, Locations
<1>2. WhereOK
  BY ThreadSets DEF Init, WhereOK, NoNegativeTasks, Threads
<1>3. Outstanding = {}
  BY DEF Init, Outstanding, Threads
<1> QED
  BY <1>1, <1>2, <1>3, FS_EmptySet DEF Init, CountInv, TaskCountExact

\* What Launch and Spawn do to the counter: the jobs of S are announced by t.
LEMMA Announce ==
  ASSUME CountInv, NEW t \in Threads, NEW S \in SUBSET Jobs, S # {},
         \A j \in S : pc[j] = "unborn" /\ j \notin Outstanding,
         pc[t] \in {"run", "idle", "returned"}, t = Main \/ t \in Jobs,
         FetchAdd(t, Cardinality(S), "start"),
         batch' = [batch EXCEPT ![t] = S]
  PROVE  /\ Outstanding' = Outstanding \cup S
         /\ task_n' = Cardinality(Outstanding') /\ task_n' \in 0 .. U32 - 1
         /\ pc' = [pc EXCEPT ![t] = "start"]
         /\ WhereOK'
<1>1. IsFiniteSet(S) /\ Cardinality(S) \in Nat /\ Cardinality(S) # 0
  BY JobsAssumption, FS_Subset, FS_CardinalityType, FS_EmptySet
<1>2. Outstanding \cap S = {} /\ Outstanding \subseteq Jobs
  BY DEF Outstanding
<1>3. task_n = Cardinality(Outstanding) /\ IsFiniteSet(Outstanding) /\ task_n \in Nat
  BY OutstandingFinite DEF CountInv, TaskCountExact
<1>4. /\ Cardinality(Outstanding \cup S) = task_n + Cardinality(S)
      /\ Cardinality(Outstanding \cup S) <= Cardinality(Jobs)
  <2>1. Cardinality(Outstanding \cap S) = 0
    BY <1>2, FS_EmptySet
  <2>2. Cardinality(Outstanding \cup S) = task_n + Cardinality(S) - 0
    BY <1>1, <1>3, <2>1, FS_Union
  <2>3. Outstanding \cup S \subseteq Jobs
    BY <1>2
  <2> QED
    BY <1>1, <1>3, <2>2, <2>3, JobsAssumption, FS_Subset
<1>5. task_n + Cardinality(S) < U32
  BY <1>1, <1>3, <1>4, WidthAssumption, OutstandingFinite
<1>6. task_n' = task_n + Cardinality(S) /\ task_n' \in 0 .. U32 - 1
  <2>1. task_n + Cardinality(S) \in Nat
    BY <1>1, <1>3
  <2>2. (task_n + Cardinality(S)) % U32 = task_n + Cardinality(S)
    BY <1>5, <2>1, WidthAssumption, ModSmall
  <2> QED
    BY <1>5, <2>1, <2>2, WidthAssumption DEF FetchAdd
<1>7. pc' = [pc EXCEPT ![t] = "start"]
  <2>1. task_n + Cardinality(S) # 0 /\ ~(task_n + Cardinality(S) < 0)
    BY <1>1, <1>3
  <2> QED
    BY <2>1 DEF FetchAdd
<1>8. batch[t] = {}
  BY DEF CountInv, WhereOK
<1>9. Outstanding' = Outstanding \cup S
  <2>1. ASSUME NEW j \in Jobs PROVE (\E u \in Threads : j \in batch'[u]) <=>
                                   (j \in S \/ \E u \in Threads : j \in batch[u])
    BY <1>8 DEF CountInv, TypeOK
  <2>2. ASSUME NEW j \in Jobs PROVE pc'[j] \in {"run", "start"} <=> pc[j] \in {"run", "start"}
    BY <1>7, ThreadsAssumption DEF CountInv, TypeOK, WhereOK, Threads
  <2> QED
    BY <2>1, <2>2 DEF Outstanding
<1>10. WhereOK'
  <2>1. \A u \in Threads : u # t => pc'[u] = pc[u] /\ batch'[u] = batch[u]
    BY <1>7 DEF CountInv, TypeOK
  <2>2. pc'[t] = "start" /\ batch'[t] = S
    BY <1>7 DEF CountInv, TypeOK
  <2>3. t \notin S
    BY DEF CountInv, WhereOK, Outstanding, TypeOK, Threads
  <2>4. \A u \in Threads : S \cap batch[u] = {}
    BY DEF Outstanding
  <2>5. \A j \in S : pc'[j] = "unborn"
    BY <2>1, <2>3 DEF Threads
  <2>6. \A u \in Threads : t \notin batch[u]
    BY DEF CountInv, WhereOK
  <2>7. \A u \in Threads : u # t => \A j \in batch'[u] : pc'[j] = "unborn"
    BY <2>1, <2>6 DEF CountInv, WhereOK, TypeOK, Threads
  <2>8. \A u, v \in Threads : u # v => batch'[u] \cap batch'[v] = {}
    BY <2>1, <2>2, <2>4 DEF CountInv, WhereOK
  <2>9. \A w \in Waiters : w # Main => batch'[w] = {}
    BY <2>1, ThreadsAssumption DEF CountInv, WhereOK, Threads
  <2> QED
    BY <2>1, <2>2, <2>5, <2>7, <2>8, <2>9 DEF CountInv, WhereOK, NoNegativeTasks
<1> QED
  BY <1>3, <1>4, <1>6, <1>7, <1>9, <1>10

\* A step that only moves threads between places where they neither run nor
\* start a job, and leaves the counter and the announced jobs alone.
LEMMA Elsewhere ==
  ASSUME CountInv, NEW t \in Threads, NEW there \in Locations,
         pc[t] \notin {"run", "start", "unborn"},
         there \notin {"run", "start", "unborn", "panic"},
         there \in {"load", "clear", "reload", "finished"} => t \in Jobs,
         there \in {"join", "register", "spin", "idle", "returned"} => t \in Waiters,
         pc' = [pc EXCEPT ![t] = there],
         UNCHANGED <<task_n, batch>>
  PROVE  /\ Outstanding' = Outstanding
         /\ TaskCountExact'
         /\ WhereOK'
<1>1. \A u \in Threads : u # t => pc'[u] = pc[u]
  BY DEF CountInv, TypeOK
<1>2. pc'[t] = there
  BY DEF CountInv, TypeOK
<1>3. Outstanding' = Outstanding
  BY <1>1, <1>2 DEF Outstanding, Threads
<1>4. TaskCountExact'
  BY <1>3 DEF CountInv, TaskCountExact
<1>5. WhereOK'
  <2>1. \A u \in Threads : \A j \in batch'[u] : pc'[j] = "unborn"
    BY <1>1, <1>2 DEF CountInv, WhereOK, TypeOK, Threads
  <2> QED
    BY <1>1, <1>2, <2>1 DEF CountInv, WhereOK, NoNegativeTasks
<1> QED
  BY <1>3, <1>4, <1>5

\* done(): one outstanding job less.
LEMMA DoneCount ==
  ASSUME CountInv, NEW t \in Threads, Done(t)
  PROVE  /\ Outstanding' = Outstanding \ {t}
         /\ task_n' = Cardinality(Outstanding') /\ task_n' \in 0 .. U32 - 1
         /\ pc' = [pc EXCEPT ![t] = IF task_n' # 0 THEN "finished" ELSE "load"]
         /\ WhereOK'
<1>1. t \in Jobs /\ pc[t] = "run" /\ t \in Outstanding
  BY DEF Done, Outstanding
<1>2. /\ task_n = Cardinality(Outstanding) /\ IsFiniteSet(Outstanding) /\ task_n \in Nat
      /\ task_n < U32
  BY OutstandingFinite, WidthAssumption DEF CountInv, TaskCountExact, TypeOK
<1>3. Cardinality(Outstanding \ {t}) = task_n - 1 /\ task_n - 1 \in Nat
  <2>1. /\ IsFiniteSet(Outstanding \ {t})
        /\ Cardinality(Outstanding \ {t}) = Cardinality(Outstanding) - 1
    BY <1>1, <1>2, FS_RemoveElement
  <2>2. Cardinality(Outstanding \ {t}) \in Nat
    BY <2>1, FS_CardinalityType
  <2> QED
    BY <1>2, <2>1, <2>2
<1>4. (task_n + (-1)) % U32 = task_n - 1
  BY <1>2, <1>3, WidthAssumption, ModSmall
<1>5. task_n' = task_n - 1 /\ task_n' \in 0 .. U32 - 1
  BY <1>2, <1>3, <1>4, WidthAssumption DEF Done, FetchAdd
<1>6. pc' = [pc EXCEPT ![t] = IF task_n' # 0 THEN "finished" ELSE "load"]
  <2>1. ~(task_n + (-1) < 0) /\ (task_n + (-1) # 0 <=> task_n' # 0)
    BY <1>2, <1>3, <1>5
  <2>2. pc' = [pc EXCEPT ![t] = IF task_n + (-1) < 0 THEN "panic"
                                ELSE IF task_n + (-1) # 0 THEN "finished"
                                ELSE "load"]
    BY DEF Done, FetchAdd
  <2> QED
    BY <2>1, <2>2
<1>7. \A u \in Threads : u # t => pc'[u] = pc[u]
  BY <1>6 DEF CountInv, TypeOK
<1>8. pc'[t] \in {"finished", "load"}
  BY <1>6 DEF CountInv, TypeOK
<1>9. batch' = batch /\ \A u \in Threads : t \notin batch[u]
  BY <1>1 DEF Done, CountInv, WhereOK
<1>10. Outstanding' = Outstanding \ {t}
  BY <1>7, <1>8, <1>9 DEF Outstanding, Threads
<1>11. WhereOK'
  <2>1. \A u \in Threads : \A j \in batch'[u] : pc'[j] = "unborn"
    BY <1>7, <1>9 DEF CountInv, WhereOK, TypeOK, Threads
  <2> QED
    BY <1>1, <1>7, <1>8, <1>9, <2>1 DEF CountInv, WhereOK, NoNegativeTasks
<1> QED
  BY <1>3, <1>5, <1>6, <1>10, <1>11

\* `co`: the job moves from the announced ones to the running ones.
LEMMA StartCount ==
  ASSUME CountInv, NEW t \in Threads, Start(t)
  PROVE  /\ Outstanding' = Outstanding
         /\ TypeOK' /\ WhereOK'
         /\ \A w \in Waiters : pc'[w] # pc[w] => pc'[w] = "join"
         /\ \A u \in Threads : pc'[u] \in {"load", "clear", "reload"} <=>
                               pc[u] \in {"load", "clear", "reload"}
<1>1. PICK j \in batch[t] :
        /\ batch' = [batch EXCEPT ![t] = @ \ {j}]
        /\ pc' = [pc EXCEPT ![j] = "run",
                            ![t] = IF batch[t] # {j} THEN "start"
                                   ELSE IF t = Main THEN "join" ELSE "run"]
  BY DEF Start
<1>2. pc[t] = "start" /\ j \in Jobs /\ j \in Threads /\ pc[j] = "unborn" /\ j # t
  BY DEF Start, CountInv, WhereOK, TypeOK, Threads
<1>3. /\ pc'[j] = "run"
      /\ pc'[t] = IF batch[t] # {j} THEN "start"
                  ELSE IF t = Main THEN "join" ELSE "run"
      /\ \A u \in Threads : u # t /\ u # j => pc'[u] = pc[u]
  BY <1>1, <1>2 DEF CountInv, TypeOK
<1>4. batch'[t] = batch[t] \ {j} /\ \A u \in Threads : u # t => batch'[u] = batch[u]
  BY <1>1 DEF CountInv, TypeOK
<1>5. t = Main \/ t \in Jobs
  BY <1>1 DEF CountInv, WhereOK, Threads
<1>6. TypeOK'
  <2>1. pc' \in [Threads -> Locations] /\ batch' \in [Threads -> SUBSET Jobs]
    BY <1>1 DEF CountInv, TypeOK, Locations
  <2> QED
    BY <2>1 DEF CountInv, TypeOK, Start
<1>7. Outstanding' = Outstanding
  BY <1>2, <1>3, <1>4, <1>5, ThreadSets DEF Outstanding, Threads
<1>8. WhereOK'
  <2>1. \A u \in Threads : \A i \in batch'[u] : pc'[i] = "unborn"
    BY <1>2, <1>3, <1>4 DEF CountInv, WhereOK, TypeOK, Threads
  <2>2. \A u, v \in Threads : u # v => batch'[u] \cap batch'[v] = {}
    BY <1>4 DEF CountInv, WhereOK
  <2>3. \A u \in Threads : (batch'[u] # {}) <=> (pc'[u] = "start")
    BY <1>2, <1>3, <1>4 DEF CountInv, WhereOK
  <2>4. \A u \in Threads : pc'[u] \in {"unborn", "run", "load", "clear", "reload", "finished"}
                             => u \in Jobs
    BY <1>2, <1>3, <1>5 DEF CountInv, WhereOK
  <2>5. \A u \in Threads : pc'[u] \in {"join", "register", "spin", "idle", "returned"}
                             => u \in Waiters
    BY <1>2, <1>3, ThreadsAssumption DEF CountInv, WhereOK
  <2>6. \A w \in Waiters : w # Main => batch'[w] = {}
    BY <1>4 DEF CountInv, WhereOK, Threads
  <2>7. NoNegativeTasks'
    BY <1>2, <1>3 DEF CountInv, WhereOK, NoNegativeTasks
  <2> QED
    BY <2>1, <2>2, <2>3, <2>4, <2>5, <2>6, <2>7 DEF WhereOK
<1>9. \A w \in Waiters : pc'[w] # pc[w] => pc'[w] = "join"
  BY <1>2, <1>3, <1>5, ThreadsAssumption DEF Threads
<1> QED
  BY <1>2, <1>3, <1>6, <1>7, <1>8, <1>9

\* A job announced with add(1) by a running job, in the form of Announce.
LEMMA SpawnCount ==
  ASSUME CountInv, NEW t \in Threads, Spawn(t)
  PROVE  \E S \in SUBSET Jobs :
           /\ S # {} /\ (\A j \in S : pc[j] = "unborn" /\ j \notin Outstanding)
           /\ Outstanding' = Outstanding \cup S
           /\ task_n' = Cardinality(Outstanding') /\ task_n' \in 0 .. U32 - 1
           /\ pc' = [pc EXCEPT ![t] = "start"]
           /\ batch' = [batch EXCEPT ![t] = S]
           /\ WhereOK'
<1>1. PICK j \in Jobs : /\ pc[j] = "unborn" /\ j \notin Outstanding
                        /\ FetchAdd(t, 1, "start")
                        /\ batch' = [batch EXCEPT ![t] = {j}]
  BY DEF Spawn
<1>2. Cardinality({j}) = 1
  BY FS_Singleton
<1>3. pc[t] = "run" /\ t \in Jobs
  BY DEF Spawn, CountInv, WhereOK
<1>4. FetchAdd(t, Cardinality({j}), "start")
  BY <1>1, <1>2
<1>5. {j} \in SUBSET Jobs /\ {j} # {} /\ \A i \in {j} : pc[i] = "unborn" /\ i \notin Outstanding
  BY <1>1
<1> QED
  BY <1>1, <1>3, <1>4, <1>5, Announce

\* The same for add(delta) of Main.
LEMMA LaunchCount ==
  ASSUME CountInv, Launch
  PROVE  \E S \in SUBSET Jobs :
           /\ S # {} /\ (\A j \in S : pc[j] = "unborn" /\ j \notin Outstanding)
           /\ Outstanding' = Outstanding \cup S
           /\ task_n' = Cardinality(Outstanding') /\ task_n' \in 0 .. U32 - 1
           /\ pc' = [pc EXCEPT ![Main] = "start"]
           /\ batch' = [batch EXCEPT ![Main] = S]
           /\ WhereOK'
<1>1. PICK S \in SUBSET {j \in Jobs : pc[j] = "unborn" /\ j \notin Outstanding} :
        /\ S # {}
        /\ FetchAdd(Main, Cardinality(S), "start")
        /\ batch' = [batch EXCEPT ![Main] = S]
  BY DEF Launch
<1>2. pc[Main] \in {"run", "idle", "returned"} /\ Main \in Threads
  BY ThreadSets DEF Launch
<1> QED
  BY <1>1, <1>2, Announce

\* Every step keeps the task count exact.
LEMMA StepCount == CountInv /\ [Next]_vars => CountInv'
<1> SUFFICES ASSUME CountInv, [Next]_vars PROVE CountInv'
  OBVIOUS
<1> USE DEF CountInv
<1>1. CASE Launch
  <2>1. rounds' \in 0 .. Rounds /\ UNCHANGED <<wait_n, n_waiters, owed>>
    BY <1>1, RoundsAssumption DEF Launch, TypeOK
  <2>2. pc' \in [Threads -> Locations] /\ batch' \in [Threads -> SUBSET Jobs]
    BY <1>1, LaunchCount DEF TypeOK, Locations
  <2> QED
    BY <1>1, <2>1, <2>2, LaunchCount DEF TypeOK, TaskCountExact
<1>2. ASSUME NEW t \in Threads, Spawn(t) PROVE CountInv'
  <2>1. pc' \in [Threads -> Locations] /\ batch' \in [Threads -> SUBSET Jobs]
    BY <1>2, SpawnCount DEF TypeOK, Locations
  <2> QED
    BY <1>2, <2>1, SpawnCount DEF Spawn, TypeOK, TaskCountExact
<1>3. ASSUME NEW t \in Threads, Start(t) PROVE CountInv'
  BY <1>3, StartCount DEF Start, TaskCountExact
<1>4. ASSUME NEW t \in Threads, Done(t) PROVE CountInv'
  <2>1. pc' \in [Threads -> Locations]
    BY <1>4, DoneCount DEF TypeOK, Locations
  <2> QED
    BY <1>4, <2>1, DoneCount DEF Done, TypeOK, TaskCountExact
<1>5. ASSUME NEW t \in Threads, LoadWaiters(t) PROVE CountInv'
  <2> DEFINE there == IF wait_n = 0 THEN "finished" ELSE "clear"
  <2>1. TypeOK'
    BY <1>5 DEF LoadWaiters, TypeOK, Locations
  <2>2. there \in Locations /\ there \in {"finished", "clear"} /\ t \in Jobs
    BY <1>5 DEF LoadWaiters, Locations, WhereOK
  <2>3. /\ pc[t] = "load" /\ pc' = [pc EXCEPT ![t] = there]
        /\ UNCHANGED <<task_n, batch>>
    BY <1>5 DEF LoadWaiters
  <2> HIDE DEF there
  <2> QED
    BY <2>1, <2>2, <2>3, Elsewhere
<1>6. ASSUME NEW t \in Threads, ClearWaiters(t) PROVE CountInv'
  <2> DEFINE there == IF n_waiters[t] = 0 THEN "finished" ELSE "reload"
  <2>1. TypeOK'
    BY <1>6, WidthAssumption DEF ClearWaiters, TypeOK, Locations
  <2>2. there \in Locations /\ there \in {"finished", "reload"} /\ t \in Jobs
    BY <1>6 DEF ClearWaiters, Locations, WhereOK
  <2>3. /\ pc[t] = "clear" /\ pc' = [pc EXCEPT ![t] = there]
        /\ UNCHANGED <<task_n, batch>>
    BY <1>6 DEF ClearWaiters
  <2> HIDE DEF there
  <2> QED
    BY <2>1, <2>2, <2>3, Elsewhere
<1>7. ASSUME NEW t \in Threads, ReloadWaiters(t) PROVE CountInv'
  <2>1. TypeOK'
    BY <1>7 DEF ReloadWaiters, TypeOK, Locations
  <2>2. /\ pc[t] = "reload" /\ pc' = [pc EXCEPT ![t] = "clear"] /\ t \in Jobs
        /\ UNCHANGED <<task_n, batch>>
    BY <1>7 DEF ReloadWaiters, WhereOK
  <2> QED
    BY <2>1, <2>2, Elsewhere DEF Locations
<1>8. ASSUME NEW t \in Threads, LoadTasks(t) PROVE CountInv'
  <2> DEFINE there == IF task_n = 0 THEN "returned" ELSE "register"
  <2>1. Outstanding \in SUBSET Jobs
    BY DEF Outstanding
  <2>2. TypeOK'
    BY <1>8, <2>1 DEF LoadTasks, TypeOK, Locations
  <2>3. there \in Locations /\ there \in {"returned", "register"} /\ t \in Waiters
    BY <1>8 DEF LoadTasks, Locations
  <2>4. /\ pc[t] \in {"join", "idle"} /\ pc' = [pc EXCEPT ![t] = there]
        /\ UNCHANGED <<task_n, batch>>
    BY <1>8 DEF LoadTasks
  <2> HIDE DEF there
  <2> QED
    BY <2>2, <2>3, <2>4, Elsewhere
<1>9. ASSUME NEW t \in Threads, Register(t) PROVE CountInv'
  <2>1. wait_n' \in 0 .. U32 - 1
    BY <1>9, WidthAssumption DEF Register, TypeOK
  <2>2. TypeOK'
    BY <1>9, <2>1 DEF Register, TypeOK, Locations
  <2>3. /\ pc[t] = "register" /\ pc' = [pc EXCEPT ![t] = "spin"] /\ t \in Waiters
        /\ UNCHANGED <<task_n, batch>>
    BY <1>9 DEF Register, WhereOK
  <2> QED
    BY <2>2, <2>3, Elsewhere DEF Locations
<1>10. ASSUME NEW t \in Threads, Return(t) PROVE CountInv'
  <2>1. TypeOK'
    BY <1>10 DEF Return, TypeOK, Locations
  <2>2. /\ pc[t] = "spin" /\ pc' = [pc EXCEPT ![t] = "returned"] /\ t \in Waiters
        /\ UNCHANGED <<task_n, batch>>
    BY <1>10 DEF Return, WhereOK
  <2> QED
    BY <2>1, <2>2, Elsewhere DEF Locations
<1>11. CASE UNCHANGED vars
  BY <1>11 DEF vars, TypeOK, WhereOK, NoNegativeTasks, TaskCountExact, Outstanding
<1> QED
  BY <1>1, <1>2, <1>3, <1>4, <1>5, <1>6, <1>7, <1>8, <1>9, <1>10, <1>11 DEF Next, Step

\* The state of WaitGroup is well-typed.
THEOREM TypeCorrect == Spec => []TypeOK
<1>1. CountInv => TypeOK
  BY DEF CountInv
<1> QED
  BY InitCount, StepCount, <1>1, PTL DEF Spec

\* task_n is exactly the number of announced and unfinished jobs, whatever the
\* number of jobs, waiters and cycles: add() and done() lose no update.
THEOREM CountCorrect == Spec => []TaskCountExact
<1>1. CountInv => TaskCountExact
  BY DEF CountInv
<1> QED
  BY InitCount, StepCount, <1>1, PTL DEF Spec

\* add() never panics: done() is called once per counted job.
THEOREM PanicFree == Spec => []NoNegativeTasks
<1>1. CountInv => NoNegativeTasks
  BY DEF CountInv, WhereOK
<1> QED
  BY InitCount, StepCount, <1>1, PTL DEF Spec

-----------------------------------------------------------------------------
(* One cycle: no wait() returns early. *)

Fresh == {j \in Jobs : pc[j] = "unborn" /\ j \notin Outstanding}
Spinners == {w \in Waiters : pc[w] = "spin"}
Releasing == {t \in Threads : pc[t] \in {"load", "clear", "reload"}}

\* Before the cycle begins nobody waits; a thread clears waiters only when the
\* tasks are all done; and while a task is counted wait_n counts the waiters
\* that spin, so none of them can read zero.
CycleInv ==
  /\ CountInv
  /\ \A w \in Waiters : owed[w] \cap Fresh = {}
  /\ rounds = 0 => /\ wait_n = 0 /\ Outstanding = {} /\ Releasing = {}
                   /\ \A w \in Waiters : pc[w] \notin {"register", "spin"}
  /\ Releasing # {} => task_n = 0
  /\ task_n > 0 => wait_n = Cardinality(Spinners)
  /\ NoEarlyReturn

LEMMA InitCycle == Init => CycleInv
<1> SUFFICES ASSUME Init PROVE CycleInv
  OBVIOUS
<1>1. CountInv
  BY InitCount
<1>2. Outstanding = {} /\ Releasing = {}
  BY DEF Init, Outstanding, Releasing, Threads
<1>3. \A w \in Waiters : pc[w] = "idle" /\ owed[w] = {}
  BY ThreadsAssumption DEF Init, Threads
<1> QED
  BY <1>1, <1>2, <1>3 DEF Init, CycleInv, NoEarlyReturn

\* The spinning waiters are finitely many, fewer than the counter's values.
LEMMA SpinnersFinite == /\ IsFiniteSet(Spinners) /\ Cardinality(Spinners) \in Nat
                        /\ Cardinality(Spinners) <= Cardinality(Waiters)
                        /\ Cardinality(Waiters) \in Nat
<1>1. Spinners \subseteq Waiters
  BY DEF Spinners
<1> QED
  BY <1>1, JobsAssumption, FS_Subset, FS_CardinalityType

\* Announcing jobs, once the cycle has begun or when it begins.
LEMMA AnnounceCycle ==
  ASSUME CycleInv, CountInv', NEW t \in Threads, NEW S \in SUBSET Jobs, S # {},
         \A j \in S : pc[j] = "unborn" /\ j \notin Outstanding,
         Outstanding' = Outstanding \cup S,
         pc' = [pc EXCEPT ![t] = "start"],
         batch' = [batch EXCEPT ![t] = S],
         pc[t] \in {"run", "idle", "returned"},
         UNCHANGED <<wait_n, owed>>,
         task_n > 0 \/ rounds = 0,
         rounds' # 0
  PROVE  CycleInv'
<1>1. \A u \in Threads : u # t => pc'[u] = pc[u]
  BY DEF CycleInv, CountInv, TypeOK
<1>2. pc'[t] = "start"
  BY DEF CycleInv, CountInv, TypeOK
<1>3. Spinners' = Spinners
  BY <1>1, <1>2 DEF Spinners, Threads
<1>4. Releasing' = Releasing
  BY <1>1, <1>2 DEF Releasing
<1>5. Fresh' \subseteq Fresh /\ S \subseteq Fresh
  BY <1>1, <1>2 DEF Fresh, Threads
<1>6. NoEarlyReturn'
  <2>1. \A w \in Waiters : pc'[w] = "returned" => pc[w] = "returned"
    BY <1>1, <1>2 DEF Threads
  <2> QED
    BY <1>5, <2>1 DEF CycleInv, NoEarlyReturn
<1>7. Releasing' # {} => task_n' = 0
  BY <1>4, OutstandingFinite DEF CycleInv, CountInv, TaskCountExact
<1>8. task_n' > 0 => wait_n' = Cardinality(Spinners')
  <2>1. CASE task_n > 0
    BY <1>3, <2>1 DEF CycleInv
  <2>2. CASE rounds = 0
    <3>1. Spinners = {} /\ wait_n = 0
      BY <2>2 DEF CycleInv, Spinners
    <3> QED
      BY <1>3, <3>1, FS_EmptySet
  <2> QED
    BY <2>1, <2>2
<1> QED
  BY <1>5, <1>6, <1>7, <1>8 DEF CycleInv

\* Every step preserves CycleInv when Main makes a single cycle.
LEMMA StepCycle ==
  ASSUME Rounds <= 1, CycleInv, [Next]_vars
  PROVE  CycleInv'
<1>0. CountInv /\ CountInv'
  BY StepCount DEF CycleInv
<1>1. CASE Launch
  <2>1. rounds = 0 /\ rounds' # 0
    BY <1>1, <1>0, RoundsAssumption DEF Launch, CountInv, TypeOK
  <2> QED
    BY <1>0, <1>1, <2>1, LaunchCount, AnnounceCycle, ThreadSets DEF Launch
<1>2. ASSUME NEW t \in Threads, Spawn(t) PROVE CycleInv'
  <2>1. t \in Outstanding
    BY <1>0, <1>2 DEF Spawn, Outstanding, CountInv, WhereOK
  <2>2. task_n > 0
    BY <1>0, <2>1, OutstandingFinite, FS_EmptySet DEF CountInv, TaskCountExact
  <2>3. rounds' # 0
    BY <1>2, <2>1 DEF Spawn, CycleInv
  <2> QED
    BY <1>0, <1>2, <2>2, <2>3, SpawnCount, AnnounceCycle DEF Spawn
<1>3. ASSUME NEW t \in Threads, Start(t) PROVE CycleInv'
  <2>1. /\ Outstanding' = Outstanding
        /\ \A w \in Waiters : pc'[w] # pc[w] => pc'[w] = "join"
        /\ Releasing' = Releasing
    BY <1>0, <1>3, StartCount DEF Releasing
  <2>2. pc[t] = "start" /\ UNCHANGED <<task_n, wait_n, rounds, owed>>
    BY <1>3 DEF Start
  <2>3. Spinners' = Spinners
    <3>1. \A w \in Waiters : pc[w] = "spin" => pc'[w] = "spin"
      BY <1>0, <1>3, ThreadsAssumption DEF Start, CountInv, TypeOK, WhereOK, Threads
    <3> QED
      BY <2>1, <3>1 DEF Spinners
  <2>4. Fresh' = Fresh
    <3>1. \A j \in Jobs : j \notin Outstanding => pc'[j] = pc[j]
      BY <1>0, <1>3, <2>2 DEF Start, CountInv, TypeOK, Outstanding, Threads
    <3> QED
      BY <2>1, <3>1 DEF Fresh
  <2> QED
    BY <1>0, <2>1, <2>2, <2>3, <2>4 DEF CycleInv, NoEarlyReturn
<1>4. ASSUME NEW t \in Threads, Done(t) PROVE CycleInv'
  <2>1. /\ Outstanding' = Outstanding \ {t}
        /\ pc' = [pc EXCEPT ![t] = IF task_n' # 0 THEN "finished" ELSE "load"]
    BY <1>0, <1>4, DoneCount
  <2>2. t \in Jobs /\ pc[t] = "run" /\ UNCHANGED <<wait_n, rounds, owed>>
    BY <1>4 DEF Done
  <2>3. \A w \in Waiters : pc'[w] = pc[w]
    BY <1>0, <2>1, <2>2, ThreadsAssumption DEF CountInv, TypeOK, Threads
  <2>4. Spinners' = Spinners
    BY <2>3 DEF Spinners
  <2>5. Fresh' = Fresh
    <3>1. pc'[t] # "unborn" /\ \A u \in Threads : u # t => pc'[u] = pc[u]
      BY <1>0, <2>1 DEF CountInv, TypeOK
    <3> QED
      BY <2>1, <2>2, <3>1 DEF Fresh, Threads
  <2>6. t \in Outstanding /\ task_n > 0
    BY <1>0, <2>2, OutstandingFinite, FS_EmptySet
    DEF CountInv, TaskCountExact, Outstanding
  <2>7. Releasing' # {} => task_n' = 0
    BY <1>0, <2>1, <2>6 DEF CycleInv, CountInv, TypeOK, Releasing
  <2> QED
    BY <1>0, <2>1, <2>2, <2>3, <2>4, <2>5, <2>6, <2>7 DEF CycleInv, NoEarlyReturn
<1>5. ASSUME NEW t \in Threads, LoadWaiters(t) \/ ClearWaiters(t) \/ ReloadWaiters(t)
      PROVE  CycleInv'
  <2>1. /\ t \in Releasing /\ t \in Jobs /\ UNCHANGED <<task_n, rounds, owed, batch>>
        /\ \E there \in {"finished", "clear", "reload"} : pc' = [pc EXCEPT ![t] = there]
    BY <1>0, <1>5 DEF LoadWaiters, ClearWaiters, ReloadWaiters, Releasing, CountInv, WhereOK
  <2>2. task_n = 0 /\ rounds # 0
    BY <2>1 DEF CycleInv
  <2>3. pc'[t] # "unborn" /\ \A u \in Threads : u # t => pc'[u] = pc[u]
    BY <1>0, <2>1 DEF CountInv, TypeOK
  <2>4. Outstanding' = Outstanding
    BY <1>0, <2>1, Elsewhere, <2>3 DEF Outstanding, Releasing, Threads, CountInv, TypeOK
  <2>5. Fresh' \subseteq Fresh
    BY <2>3, <2>4 DEF Fresh, Threads
  <2>6. \A w \in Waiters : pc'[w] = pc[w]
    BY <2>1, <2>3, ThreadsAssumption DEF Threads
  <2> QED
    BY <1>0, <2>1, <2>2, <2>4, <2>5, <2>6 DEF CycleInv, NoEarlyReturn
<1>6. ASSUME NEW t \in Threads, LoadTasks(t) \/ Register(t) \/ Return(t) PROVE CycleInv'
  <2>1. /\ t \in Waiters /\ UNCHANGED <<task_n, rounds, batch>>
        /\ pc[t] \in {"join", "idle", "register", "spin"}
        /\ \E there \in {"returned", "register", "spin"} : pc' = [pc EXCEPT ![t] = there]
    BY <1>0, <1>6 DEF LoadTasks, Register, Return, CountInv, WhereOK
  <2>2. /\ pc'[t] \in {"returned", "register", "spin"}
        /\ \A u \in Threads : u # t => pc'[u] = pc[u]
    BY <1>0, <2>1 DEF CountInv, TypeOK
  <2>3. Outstanding' = Outstanding /\ Fresh' = Fresh /\ Releasing' = Releasing
    BY <2>1, <2>2, ThreadsAssumption DEF Outstanding, Fresh, Releasing, Threads
  <2>4. task_n = 0 => Outstanding = {}
    BY <1>0, OutstandingFinite, FS_EmptySet DEF CountInv, TaskCountExact
  <2>5. CASE LoadTasks(t)
    <3>1. Spinners' = Spinners
      BY <2>1, <2>2, <2>5, ThreadsAssumption DEF Spinners, LoadTasks, Threads, CycleInv, CountInv, TypeOK
    <3>2. NoEarlyReturn'
      BY <1>0, <2>1, <2>2, <2>3, <2>4, <2>5
      DEF LoadTasks, CycleInv, NoEarlyReturn, CountInv, TypeOK, Threads
    <3>3. \A w \in Waiters : owed'[w] \cap Fresh' = {}
      BY <1>0, <2>3, <2>5 DEF LoadTasks, CycleInv, CountInv, TypeOK, Fresh
    <3>4. rounds = 0 => \A w \in Waiters : pc'[w] \notin {"register", "spin"}
      <4>1. rounds = 0 => task_n = 0
        BY <1>0, FS_EmptySet DEF CycleInv, CountInv, TaskCountExact
      <4> QED
        BY <1>0, <2>2, <2>5, <4>1 DEF LoadTasks, CycleInv, CountInv, TypeOK, Threads
    <3> QED
      BY <1>0, <2>1, <2>3, <2>5, <3>1, <3>2, <3>3, <3>4 DEF LoadTasks, CycleInv
  <2>6. CASE Register(t)
    <3>1. Spinners' = Spinners \cup {t} /\ t \notin Spinners
      BY <1>0, <2>1, <2>2, <2>6 DEF Spinners, Register, CountInv, TypeOK, Threads
    <3>2. Cardinality(Spinners') = Cardinality(Spinners) + 1
      BY <3>1, SpinnersFinite, FS_AddElement
    <3>3. Cardinality(Spinners') <= Cardinality(Waiters)
      <4>1. Spinners' \subseteq Waiters
        BY DEF Spinners
      <4> QED
        BY <4>1, JobsAssumption, FS_Subset
    <3>4. task_n > 0 => wait_n' = Cardinality(Spinners')
      <4> SUFFICES ASSUME task_n > 0 PROVE wait_n' = Cardinality(Spinners')
        OBVIOUS
      <4>1. wait_n + 1 = Cardinality(Spinners') /\ wait_n + 1 < U32 /\ wait_n + 1 \in Nat
        BY <3>2, <3>3, SpinnersFinite, WidthAssumption DEF CycleInv
      <4>2. (wait_n + 1) % U32 = wait_n + 1
        BY <4>1, WidthAssumption, ModSmall
      <4> QED
        BY <2>6, <4>1, <4>2 DEF Register
    <3>5. NoEarlyReturn'
      BY <1>0, <2>1, <2>2, <2>3, <2>6
      DEF Register, CycleInv, NoEarlyReturn, CountInv, TypeOK, Threads
    <3>6. rounds # 0
      BY <2>1, <2>6 DEF CycleInv, Register
    <3> QED
      BY <1>0, <2>1, <2>3, <2>6, <3>4, <3>5, <3>6 DEF Register, CycleInv
  <2>7. CASE Return(t)
    <3>1. t \in Spinners /\ wait_n = 0
      BY <2>1, <2>7 DEF Return, Spinners
    <3>2. task_n = 0
      BY <1>0, <3>1, SpinnersFinite, FS_EmptySet DEF CycleInv, CountInv, TypeOK
    <3>3. NoEarlyReturn'
      BY <2>3, <2>4, <3>2 DEF NoEarlyReturn
    <3>4. rounds # 0
      BY <2>1, <2>7 DEF CycleInv, Return
    <3> QED
      BY <1>0, <2>1, <2>3, <2>7, <3>2, <3>3, <3>4 DEF Return, CycleInv
  <2> QED
    BY <1>6, <2>5, <2>6, <2>7
<1>7. CASE UNCHANGED vars
  BY <1>0, <1>7 DEF vars, CycleInv, NoEarlyReturn, Fresh, Spinners, Releasing, Outstanding
<1> QED
  BY <1>1, <1>2, <1>3, <1>4, <1>5, <1>6, <1>7 DEF Next, Step

\* Within one add / start / wait cycle wait() returns only when every job that
\* was counted at its call is done, for every number of jobs and waiters.
THEOREM NoEarlyReturnInOneCycle == ASSUME Rounds <= 1 PROVE Spec => []NoEarlyReturn
<1>1. CycleInv /\ [Next]_vars => CycleInv'
  BY StepCycle
<1>2. CycleInv => NoEarlyReturn
  BY DEF CycleInv
<1> QED
  BY InitCycle, <1>1, <1>2, PTL DEF Spec
=============================================================================
