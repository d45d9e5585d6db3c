---------------------------- MODULE ProcessProofs ----------------------------
(* Theorems about Process: for any threads, handles and programs, and any    *)
(* depth of scopes and deferred blocks.                                      *)
EXTENDS Process, FiniteSetTheorems, TLAPS

-----------------------------------------------------------------------------
(* The invariant *)

\* Where a panic may be caught depends on the kinds of the frames alone.
Kinds == {"body", "try", "handler", "block"}
Homes == {Home(s) : s \in Seq([kind : Kinds])}
Flying == {NoFlight} \cup [home : Homes, message : Messages]

Scopes == [kind : {"body", "try"}, pending : Seq(Nat)]
Handlers == [kind : {"handler"}, pending : Seq(Nat), error : {Empty}]
Blocks == [kind : {"block"}, pending : Seq(Nat), number : Nat,
           mode : {"leave", "unwind"}, flight : Flying]
Frames == Scopes \cup Handlers \cup Blocks

Ends == {"running", "main", "panic", "signal", "joinable", "joins itself", "no thread"}

TypeOK ==
  /\ stack \in [Threads -> Seq(Frames)]
  /\ mode \in [Threads -> Modes]
  /\ flight \in [Threads -> Flying]
  /\ budget \in [Threads -> [frames : Nat, blocks : Nat, spawns : Nat]]
  /\ blocks \in [Threads -> Nat]
  /\ done \in [Threads -> SUBSET Nat]
  /\ handle \in [Handles -> [thread : Threads \cup {Nil}, disposing : {"no", "detach", "drop"}]]
  /\ os \in [Threads -> {"none", "joinable", "joined", "detached"}]
  /\ hurried \in SUBSET Threads
  /\ exit.why \in Ends

\* The blocks that frame f has still to run, and the one that it is.
Ids(f) == Range(f.pending) \cup (IF f.kind = "block" THEN {f.number} ELSE {})

\* What was deferred in a frame is younger than the block it is, and in order.
Increasing(f) ==
  \A k \in 1 .. Len(f.pending) :
    /\ \A j \in 1 .. k - 1 : f.pending[j] < f.pending[k]
    /\ f.kind = "block" => f.number < f.pending[k]

\* Stack s has each of the b blocks that are not in d, in order.
Numbered(s, b, d) ==
  /\ d \subseteq 1 .. b
  /\ \A n \in 1 .. Len(s) : Increasing(s[n]) /\ Ids(s[n]) \subseteq (1 .. b) \ d
  /\ \A n, m \in 1 .. Len(s) : n < m => \A x \in Ids(s[n]), y \in Ids(s[m]) : x < y
  /\ \A i \in 1 .. b : i \in d \/ \E n \in 1 .. Len(s) : i \in Ids(s[n])

\* A thread that is at work has a stack, whose first frame is no block.
AtWork(s, m) ==
  /\ m \in {"run", "leave", "unwind"} <=> s # << >>
  /\ s # << >> => s[1].kind # "block"

ThreadInv ==
  \A t \in Threads : Numbered(stack[t], blocks[t], done[t]) /\ AtWork(stack[t], mode[t])

\* No other handle holds the std::thread of h.
Alone(h) == \A g \in Handles \ {h} : Held(g) # Held(h)

\* The process has not lost a joinable std::thread, unless in haste.
Excused(e) == e.why = "joinable" => e.how = "assigned" \/ e.hurried

\* Handles hold threads that were started.  A handle that is about to detach is
\* the only one of its std::thread.  Without haste one handle of a std::thread is
\* disposed at a time, and one that is about to be dropped without a detach is
\* not the last.
HandleInv ==
  /\ \A h \in Handles : Held(h) # Nil => mode[Held(h)] # "new"
  /\ Excused(exit)
  /\ \A h \in Handles : handle[h].disposing # "no" => Held(h) # Nil
  /\ \A h \in Handles : handle[h].disposing = "detach" => Active(h) /\ Alone(h)
  /\ \A h \in Handles : handle[h].disposing = "drop" =>
       Held(h) \in hurried \/ ~Active(h) \/ ~Alone(h)
  /\ \A h, g \in Handles :
       g # h /\ Held(g) = Held(h) /\ handle[h].disposing # "no" =>
         Held(h) \in hurried \/ handle[g].disposing = "no"

IInv == TypeOK /\ ThreadInv /\ HandleInv

-----------------------------------------------------------------------------
(* Frames and stacks *)

LEMMA FrontOf ==
  ASSUME NEW S, NEW s \in Seq(S), s # << >>
  PROVE  /\ Front(s) \in Seq(S) /\ Len(Front(s)) = Len(s) - 1
         /\ \A i \in 1 .. Len(s) - 1 : Front(s)[i] = s[i]
         /\ Last(s) = s[Len(s)] /\ Len(s) \in 1 .. Len(s) /\ Last(s) \in S
<1>1. Len(s) \in Nat /\ Len(s) > 0
  OBVIOUS
<1>2. Len(s) \in 1 .. Len(s) /\ s[Len(s)] \in S
  BY <1>1
<1>3. Front(s) \in Seq(S)
  <2>1. \A i \in 1 .. Len(s) - 1 : s[i] \in S
    OBVIOUS
  <2> QED
    BY <1>1, <2>1 DEF Front
<1>4. Len(Front(s)) = Len(s) - 1
  <2>1. CASE Len(s) = 1
    BY <1>1, <2>1 DEF Front
  <2>2. CASE Len(s) > 1
    BY <1>1, <2>2 DEF Front
  <2>3. Len(s) = 1 \/ Len(s) > 1
    <3>1. \A m \in Nat : m > 0 => m = 1 \/ m > 1
      OBVIOUS
    <3> QED
      BY <1>1, <3>1
  <2> QED
    BY <2>1, <2>2, <2>3
<1>5. \A i \in 1 .. Len(s) - 1 : Front(s)[i] = s[i]
  BY <1>1 DEF Front
<1> QED
  BY <1>2, <1>3, <1>4, <1>5 DEF Last

LEMMA FrameType ==
  ASSUME NEW f \in Frames
  PROVE  /\ f.pending \in Seq(Nat) /\ f.kind \in Kinds
         /\ f.kind = "block" => /\ f.number \in Nat /\ f.mode \in {"leave", "unwind"}
                                /\ f.flight \in Flying
BY DEF Frames, Scopes, Handlers, Blocks, Kinds

\* The frame with another list of blocks.
LEMMA PendingSet ==
  ASSUME NEW f \in Frames, NEW p \in Seq(Nat)
  PROVE  LET g == [f EXCEPT !.pending = p]
         IN  /\ g \in Frames /\ g.pending = p /\ g.kind = f.kind
             /\ f.kind = "block" => /\ g.number = f.number
                                    /\ g.mode = f.mode /\ g.flight = f.flight
<1> DEFINE g == [f EXCEPT !.pending = p]
<1>1. CASE f \in Scopes
  BY <1>1 DEF Frames, Scopes
<1>2. CASE f \in Handlers
  BY <1>2 DEF Frames, Handlers
<1>3. CASE f \in Blocks
  BY <1>3 DEF Frames, Blocks
<1> QED
  BY <1>1, <1>2, <1>3 DEF Frames

\* A frame in which nothing is deferred yet.
LEMMA Fresh ==
  ASSUME NEW f, f.pending = << >>
  PROVE  /\ Increasing(f) /\ (f.kind # "block" => Ids(f) = {})
         /\ f.kind = "block" => Ids(f) = {f.number}
<1>1. Len(f.pending) = 0 /\ Range(f.pending) = {}
  BY DEF Range
<1> QED
  BY <1>1 DEF Increasing, Ids

LEMMA FrameOpens ==
  ASSUME NEW k \in {"body", "try"}
  PROVE  /\ Frame(k) \in Frames /\ Frame(k).kind = k /\ Frame(k).pending = << >>
         /\ Increasing(Frame(k)) /\ Ids(Frame(k)) = {}
<1>1. Frame(k).kind = k /\ Frame(k).pending = << >>
  BY DEF Frame
<1>2. Frame(k) \in Frames
  <2>1. << >> \in Seq(Nat)
    OBVIOUS
  <2> QED
    BY <2>1 DEF Frame, Frames, Scopes
<1> QED
  BY <1>1, <1>2, Fresh

LEMMA IdsOf ==
  ASSUME NEW f \in Frames, NEW x
  PROVE  x \in Ids(f) <=> \/ \E k \in 1 .. Len(f.pending) : x = f.pending[k]
                          \/ f.kind = "block" /\ x = f.number
<1>1. DOMAIN f.pending = 1 .. Len(f.pending)
  BY FrameType
<1> QED
  BY <1>1 DEF Ids, Range

\* A frame without blocks to run is pushed.
LEMMA NumberedPush ==
  ASSUME NEW s \in Seq(Frames), NEW f \in Frames, Ids(f) = {}, Increasing(f),
         NEW b, NEW d, Numbered(s, b, d)
  PROVE  Append(s, f) \in Seq(Frames) /\ Numbered(Append(s, f), b, d)
<1> DEFINE r == Append(s, f)
<1>1. /\ r \in Seq(Frames) /\ Len(r) = Len(s) + 1 /\ Len(s) \in Nat /\ r[Len(s) + 1] = f
      /\ \A n \in 1 .. Len(s) : r[n] = s[n]
  OBVIOUS
<1>2. \A n \in 1 .. Len(r) : n \in 1 .. Len(s) \/ n = Len(s) + 1
  BY <1>1
<1> HIDE DEF r
<1>3. \A n \in 1 .. Len(r) : Increasing(r[n]) /\ Ids(r[n]) \subseteq (1 .. b) \ d
  BY <1>1, <1>2 DEF Numbered
<1>4. ASSUME NEW n \in 1 .. Len(r), NEW m \in 1 .. Len(r), n < m,
             NEW x \in Ids(r[n]), NEW y \in Ids(r[m])
      PROVE  x < y
  BY <1>1, <1>2, <1>4 DEF Numbered
<1>5. \A i \in 1 .. b : i \in d \/ \E n \in 1 .. Len(r) : i \in Ids(r[n])
  <2>1. \A n \in 1 .. Len(s) : n \in 1 .. Len(r)
    BY <1>1
  <2> QED
    BY <1>1, <2>1 DEF Numbered
<1>6. Numbered(r, b, d)
  BY <1>3, <1>4, <1>5 DEF Numbered
<1> QED
  BY <1>1, <1>6 DEF r

\* The top frame is popped, and its blocks are done.
LEMMA NumberedPop ==
  ASSUME NEW s \in Seq(Frames), s # << >>, NEW b \in Nat, NEW d, Numbered(s, b, d)
  PROVE  Front(s) \in Seq(Frames) /\ Numbered(Front(s), b, d \cup Ids(Last(s)))
<1> DEFINE r == Front(s)
           f == Last(s)
<1>1. /\ r \in Seq(Frames) /\ Len(s) \in Nat /\ Len(s) \in 1 .. Len(s) /\ Len(r) = Len(s) - 1
      /\ \A n \in 1 .. Len(r) : r[n] = s[n] /\ n \in 1 .. Len(s) /\ n < Len(s)
      /\ s[Len(s)] = f
  <2>1. Len(s) \in Nat
    OBVIOUS
  <2> QED
    BY <2>1, FrontOf
<1>2. \A n \in 1 .. Len(s) : n \in 1 .. Len(r) \/ n = Len(s)
  BY <1>1
<1> HIDE DEF r, f
<1>3. Ids(f) \subseteq (1 .. b) \ d /\ d \subseteq 1 .. b
  BY <1>1 DEF Numbered
<1>4. ASSUME NEW n \in 1 .. Len(r)
      PROVE  Increasing(r[n]) /\ Ids(r[n]) \subseteq (1 .. b) \ (d \cup Ids(f))
  <2>1. Increasing(r[n]) /\ Ids(r[n]) \subseteq (1 .. b) \ d
    BY <1>1 DEF Numbered
  <2>2. ASSUME NEW x \in Ids(r[n]) PROVE x \notin Ids(f)
    <3>1. \A y \in Ids(f) : x < y
      BY <1>1, <2>2 DEF Numbered
    <3>2. x \in Nat
      BY <2>1
    <3> QED
      BY <3>1, <3>2
  <2> QED
    BY <2>1, <2>2
<1>5. ASSUME NEW n \in 1 .. Len(r), NEW m \in 1 .. Len(r), n < m,
             NEW x \in Ids(r[n]), NEW y \in Ids(r[m])
      PROVE  x < y
  BY <1>1, <1>5 DEF Numbered
<1>6. ASSUME NEW i \in 1 .. b, i \notin d \cup Ids(f)
      PROVE  \E n \in 1 .. Len(r) : i \in Ids(r[n])
  <2>1. PICK n \in 1 .. Len(s) : i \in Ids(s[n])
    BY <1>6 DEF Numbered
  <2>2. n \in 1 .. Len(r)
    BY <1>1, <1>2, <1>6, <2>1
  <2> QED
    BY <1>1, <2>1, <2>2
<1>7. Numbered(r, b, d \cup Ids(f))
  BY <1>3, <1>4, <1>5, <1>6 DEF Numbered
<1> QED
  BY <1>1, <1>7 DEF r, f

\* Stack s when one more block is deferred, and when block g begins.
Deferred(s, b) ==
  [s EXCEPT ![Len(s)] = [s[Len(s)] EXCEPT !.pending = Append(s[Len(s)].pending, b + 1)]]
Begun(s, g) ==
  Append([s EXCEPT ![Len(s)] = [s[Len(s)] EXCEPT !.pending = Front(s[Len(s)].pending)]], g)

\* One more block is deferred in the top frame.
LEMMA NumberedDefer ==
  ASSUME NEW s \in Seq(Frames), s # << >>, NEW b \in Nat, NEW d, Numbered(s, b, d),
         NEW r, r = Deferred(s, b)
  PROVE  /\ r \in Seq(Frames) /\ Numbered(r, b + 1, d)
         /\ Len(r) = Len(s) /\ \A n \in 1 .. Len(s) : r[n].kind = s[n].kind
<1>1. PICK l \in Nat : l = Len(s) /\ l \in 1 .. l
  BY FrontOf
<1>2. PICK f \in Frames : f = s[l]
  BY <1>1
<1>3. PICK p \in Seq(Nat) : p = f.pending
  BY FrameType
<1>4. PICK q \in Seq(Nat) : /\ q = Append(p, b + 1) /\ Len(q) = Len(p) + 1 /\ q[Len(q)] = b + 1
                            /\ \A k \in 1 .. Len(p) : q[k] = p[k]
  <2>1. /\ Append(p, b + 1) \in Seq(Nat) /\ Len(Append(p, b + 1)) = Len(p) + 1
        /\ Append(p, b + 1)[Len(p) + 1] = b + 1
        /\ \A k \in 1 .. Len(p) : Append(p, b + 1)[k] = p[k]
    OBVIOUS
  <2> QED
    BY <2>1
<1>5. PICK g \in Frames : /\ g = [f EXCEPT !.pending = q] /\ g.pending = q /\ g.kind = f.kind
                          /\ f.kind = "block" => g.number = f.number
  BY PendingSet
<1>6. r = [s EXCEPT ![l] = g]
  BY <1>1, <1>2, <1>3, <1>4, <1>5 DEF Deferred
<1>7. /\ r \in Seq(Frames) /\ Len(r) = l /\ r[l] = g
      /\ \A n \in 1 .. l - 1 : r[n] = s[n] /\ n \in 1 .. l
  <2>1. /\ [s EXCEPT ![l] = g] \in Seq(Frames) /\ Len([s EXCEPT ![l] = g]) = Len(s)
        /\ [s EXCEPT ![l] = g][l] = g
    BY <1>1
  <2>2. \A n \in 1 .. l - 1 : n \in 1 .. l /\ n # l
    BY <1>1
  <2>3. \A n \in 1 .. l : n # l => [s EXCEPT ![l] = g][n] = s[n]
    BY <1>1
  <2> QED
    BY <1>1, <1>6, <2>1, <2>2, <2>3
<1>8. \A n \in 1 .. l : n \in 1 .. l - 1 \/ n = l
  OBVIOUS
<1>9. Increasing(f) /\ Ids(f) \subseteq (1 .. b) \ d /\ d \subseteq 1 .. b
  BY <1>1, <1>2 DEF Numbered
<1>10. Len(p) \in Nat /\ \A k \in 1 .. Len(q) : k \in 1 .. Len(p) \/ k = Len(q)
  BY <1>4
<1>11. \A x : x \in Ids(g) <=> x \in Ids(f) \/ x = b + 1
  <2>1. ASSUME NEW x PROVE x \in Ids(g) <=> x \in Ids(f) \/ x = b + 1
    <3>1. x \in Ids(g) <=> \/ \E k \in 1 .. Len(q) : x = q[k]
                           \/ f.kind = "block" /\ x = f.number
      <4>1. x \in Ids(g) <=> \/ \E k \in 1 .. Len(g.pending) : x = g.pending[k]
                             \/ g.kind = "block" /\ x = g.number
        BY IdsOf
      <4> QED
        BY <1>5, <4>1
    <3>2. x \in Ids(f) <=> \/ \E k \in 1 .. Len(p) : x = p[k]
                           \/ f.kind = "block" /\ x = f.number
      BY <1>3, IdsOf
    <3>3. (\E k \in 1 .. Len(q) : x = q[k]) <=> (\E k \in 1 .. Len(p) : x = p[k]) \/ x = b + 1
      <4>1. \A k \in 1 .. Len(p) : k \in 1 .. Len(q)
        BY <1>4, <1>10
      <4>2. Len(q) \in 1 .. Len(q)
        BY <1>4, <1>10
      <4> QED
        BY <1>4, <1>10, <4>1, <4>2
    <3> QED
      BY <3>1, <3>2, <3>3
  <2> QED
    BY <2>1
<1>12. \A x \in Ids(f) : x \in Nat /\ x < b + 1
  BY <1>9
<1>13. Increasing(g)
  <2>1. ASSUME NEW k \in 1 .. Len(q), NEW j \in 1 .. k - 1 PROVE q[j] < q[k]
    <3>1. j \in 1 .. Len(p)
      BY <1>4, <1>10
    <3>2. q[j] = p[j] /\ p[j] \in Ids(f)
      BY <1>3, <1>4, <3>1, IdsOf
    <3>3. CASE k \in 1 .. Len(p)
      BY <1>3, <1>4, <1>9, <3>1, <3>3 DEF Increasing
    <3>4. CASE k = Len(q)
      BY <1>4, <1>12, <3>2, <3>4
    <3> QED
      BY <1>10, <3>3, <3>4
  <2>2. ASSUME f.kind = "block", NEW k \in 1 .. Len(q) PROVE f.number < q[k]
    <3>1. f.number \in Ids(f)
      BY <2>2, IdsOf
    <3>2. CASE k \in 1 .. Len(p)
      BY <1>3, <1>4, <1>9, <2>2, <3>2 DEF Increasing
    <3>3. CASE k = Len(q)
      BY <1>4, <1>12, <3>1, <3>3
    <3> QED
      BY <1>10, <3>2, <3>3
  <2> QED
    BY <1>5, <2>1, <2>2 DEF Increasing
<1>14. ASSUME NEW n \in 1 .. l
       PROVE  Increasing(r[n]) /\ Ids(r[n]) \subseteq (1 .. b + 1) \ d
  <2>1. CASE n = l
    <3>1. Ids(g) \subseteq (1 .. b + 1) \ d
      <4>1. \A x \in Ids(f) : x \in 1 .. b + 1 /\ x \notin d
        BY <1>9, SMTT(30)
      <4>2. b + 1 \in 1 .. b + 1 /\ b + 1 \notin d
        BY <1>9, SMTT(30)
      <4> QED
        BY <1>11, <4>1, <4>2
    <3> QED
      BY <1>7, <1>13, <2>1, <3>1
  <2>2. CASE n \in 1 .. l - 1
    <3>1. Increasing(s[n]) /\ Ids(s[n]) \subseteq (1 .. b) \ d
      BY <1>1, <1>7, <2>2 DEF Numbered
    <3>2. 1 .. b \subseteq 1 .. b + 1
      OBVIOUS
    <3> QED
      BY <1>7, <2>2, <3>1, <3>2
  <2> QED
    BY <1>8, <2>1, <2>2
<1>15. ASSUME NEW n \in 1 .. l, NEW m \in 1 .. l, n < m,
              NEW x \in Ids(r[n]), NEW y \in Ids(r[m])
       PROVE  x < y
  <2>1. n \in 1 .. l - 1 /\ x \in Ids(s[n])
    BY <1>7, <1>15
  <2>2. CASE m \in 1 .. l - 1
    BY <1>1, <1>7, <1>15, <2>1, <2>2 DEF Numbered
  <2>3. CASE m = l
    <3>1. CASE y \in Ids(f)
      BY <1>1, <1>2, <1>15, <2>1, <2>3, <3>1 DEF Numbered
    <3>2. CASE y = b + 1
      <4>1. x \in 1 .. b
        BY <1>1, <2>1 DEF Numbered
      <4> QED
        BY <3>2, <4>1
    <3> QED
      BY <1>7, <1>11, <2>3, <3>1, <3>2
  <2> QED
    BY <1>8, <2>2, <2>3
<1>16. ASSUME NEW i \in 1 .. b + 1, i \notin d
       PROVE  \E n \in 1 .. l : i \in Ids(r[n])
  <2>1. CASE i = b + 1
    BY <1>1, <1>7, <1>11, <2>1
  <2>2. CASE i \in 1 .. b
    <3>1. PICK n \in 1 .. l : i \in Ids(s[n])
      BY <1>1, <1>16, <2>2 DEF Numbered
    <3>2. i \in Ids(r[n])
      BY <1>2, <1>7, <1>8, <1>11, <3>1
    <3> QED
      BY <3>2
  <2>3. i = b + 1 \/ i \in 1 .. b
    OBVIOUS
  <2> QED
    BY <2>1, <2>2, <2>3
<1>17. Numbered(r, b + 1, d)
  <2>1. d \subseteq 1 .. b + 1
    BY <1>9
  <2> QED
    BY <1>7, <1>14, <1>15, <1>16, <2>1 DEF Numbered
<1>18. \A n \in 1 .. l : r[n].kind = s[n].kind
  BY <1>2, <1>5, <1>7, <1>8
<1> QED
  BY <1>1, <1>7, <1>17, <1>18

\* The last block that was deferred in the top frame begins to run.
LEMMA NumberedRun ==
  ASSUME NEW s \in Seq(Frames), s # << >>, NEW b \in Nat, NEW d, Numbered(s, b, d),
         s[Len(s)].pending # << >>,
         NEW g \in Frames, g.kind = "block", g.pending = << >>,
         g.number = Last(s[Len(s)].pending),
         NEW r, r = Begun(s, g)
  PROVE  /\ r \in Seq(Frames) /\ Numbered(r, b, d)
         /\ r # << >> /\ r[1].kind = s[1].kind
         /\ \A i \in g.number + 1 .. b : i \in d
<1>1. PICK l \in Nat : l = Len(s) /\ l \in 1 .. l
  BY FrontOf
<1>2. PICK f \in Frames : f = s[l]
  BY <1>1
<1>3. PICK p \in Seq(Nat) : p = f.pending /\ p # << >>
  BY <1>1, <1>2, FrameType
<1>4. PICK q \in Seq(Nat) : /\ q = Front(p) /\ Len(q) = Len(p) - 1 /\ Len(p) \in 1 .. Len(p)
                            /\ \A k \in 1 .. Len(q) : q[k] = p[k] /\ k \in 1 .. Len(p) /\ k < Len(p)
  <2>1. /\ Front(p) \in Seq(Nat) /\ Len(Front(p)) = Len(p) - 1 /\ Len(p) \in 1 .. Len(p)
        /\ \A k \in 1 .. Len(p) - 1 : Front(p)[k] = p[k]
    BY <1>3, FrontOf
  <2>2. \A k \in 1 .. Len(p) - 1 : k \in 1 .. Len(p) /\ k < Len(p)
    BY <2>1
  <2> QED
    BY <2>1, <2>2
<1>5. PICK x \in Nat : x = p[Len(p)] /\ x = g.number
  BY <1>1, <1>2, <1>3, <1>4, FrontOf
<1>6. PICK h \in Frames : /\ h = [f EXCEPT !.pending = q] /\ h.pending = q /\ h.kind = f.kind
                          /\ f.kind = "block" => h.number = f.number
  BY PendingSet
<1>7. r = Append([s EXCEPT ![l] = h], g)
  BY <1>1, <1>2, <1>3, <1>4, <1>6 DEF Begun
<1>8. /\ r \in Seq(Frames) /\ Len(r) = l + 1 /\ r[l] = h /\ r[l + 1] = g
      /\ \A n \in 1 .. l - 1 : r[n] = s[n] /\ n \in 1 .. l
  <2>1. PICK v \in Seq(Frames) : /\ v = [s EXCEPT ![l] = h] /\ Len(v) = l /\ v[l] = h
                                 /\ \A n \in 1 .. l : n # l => v[n] = s[n]
    <3>1. /\ [s EXCEPT ![l] = h] \in Seq(Frames) /\ Len([s EXCEPT ![l] = h]) = l
          /\ [s EXCEPT ![l] = h][l] = h
          /\ \A n \in 1 .. l : n # l => [s EXCEPT ![l] = h][n] = s[n]
      BY <1>1
    <3> QED
      BY <3>1
  <2>2. r = Append(v, g)
    BY <1>7, <2>1
  <2>3. /\ Append(v, g) \in Seq(Frames) /\ Len(Append(v, g)) = l + 1 /\ Append(v, g)[l + 1] = g
        /\ \A n \in 1 .. l : Append(v, g)[n] = v[n]
    BY <2>1
  <2>4. \A n \in 1 .. l - 1 : n \in 1 .. l /\ n # l
    BY <1>1
  <2> QED
    BY <1>1, <2>1, <2>2, <2>3, <2>4
<1>9. \A n \in 1 .. l + 1 : n \in 1 .. l - 1 \/ n = l \/ n = l + 1
  BY <1>1
<1>10. Increasing(f) /\ Ids(f) \subseteq (1 .. b) \ d /\ d \subseteq 1 .. b
  BY <1>1, <1>2 DEF Numbered
<1>11. x \in Ids(f) /\ Ids(g) = {x} /\ Increasing(g)
  BY <1>3, <1>4, <1>5, IdsOf, Fresh
<1>12. \A y \in Ids(h) : y \in Ids(f) /\ y < x
  <2>1. ASSUME NEW y \in Ids(h) PROVE y \in Ids(f) /\ y < x
    <3>1. \/ \E k \in 1 .. Len(q) : y = q[k]
          \/ f.kind = "block" /\ y = f.number
      <4>1. \/ \E k \in 1 .. Len(h.pending) : y = h.pending[k]
            \/ h.kind = "block" /\ y = h.number
        BY <2>1, IdsOf
      <4> QED
        BY <1>6, <4>1
    <3>2. CASE \E k \in 1 .. Len(q) : y = q[k]
      <4>1. PICK k \in 1 .. Len(q) : y = q[k]
        BY <3>2
      <4>2. y = p[k] /\ k \in 1 .. Len(p) /\ k \in 1 .. Len(p) - 1
        BY <1>4, <4>1
      <4>3. y < x
        BY <1>3, <1>4, <1>5, <1>10, <4>2 DEF Increasing
      <4> QED
        BY <1>3, <4>2, <4>3, IdsOf
    <3>3. CASE f.kind = "block" /\ y = f.number
      <4>1. y < x
        BY <1>3, <1>4, <1>5, <1>10, <3>3 DEF Increasing
      <4> QED
        BY <3>3, <4>1, IdsOf
    <3> QED
      BY <3>1, <3>2, <3>3
  <2> QED
    BY <2>1
<1>13. \A y \in Ids(f) : y \in Ids(h) \/ y = x
  <2>1. ASSUME NEW y \in Ids(f) PROVE y \in Ids(h) \/ y = x
    <3>1. \/ \E k \in 1 .. Len(p) : y = p[k]
          \/ f.kind = "block" /\ y = f.number
      BY <1>3, <2>1, IdsOf
    <3>2. ASSUME NEW k \in 1 .. Len(p), y = p[k] PROVE y \in Ids(h) \/ y = x
      <4>1. k \in 1 .. Len(q) \/ k = Len(p)
        BY <1>4
      <4>2. CASE k \in 1 .. Len(q)
        <5>1. y = q[k]
          BY <1>4, <3>2, <4>2
        <5> QED
          BY <1>6, <4>2, <5>1, IdsOf
      <4> QED
        BY <1>5, <3>2, <4>1, <4>2
    <3>3. CASE f.kind = "block" /\ y = f.number
      BY <1>6, <3>3, IdsOf
    <3> QED
      BY <3>1, <3>2, <3>3
  <2> QED
    BY <2>1
<1>14. Increasing(h)
  <2>1. ASSUME NEW k \in 1 .. Len(q)
        PROVE  /\ \A j \in 1 .. k - 1 : q[j] < q[k]
               /\ f.kind = "block" => f.number < q[k]
    <3>1. k \in 1 .. Len(p) /\ q[k] = p[k]
      BY <1>4
    <3>2. \A j \in 1 .. k - 1 : j \in 1 .. Len(q)
      BY <1>4
    <3>3. \A j \in 1 .. k - 1 : q[j] = p[j]
      BY <1>4, <3>2
    <3> QED
      BY <1>3, <1>10, <3>1, <3>3 DEF Increasing
  <2> QED
    BY <1>6, <2>1 DEF Increasing
<1>15. ASSUME NEW n \in 1 .. l + 1
       PROVE  Increasing(r[n]) /\ Ids(r[n]) \subseteq (1 .. b) \ d
  <2>1. CASE n \in 1 .. l - 1
    BY <1>1, <1>8, <2>1 DEF Numbered
  <2>2. CASE n = l
    BY <1>8, <1>10, <1>12, <1>14, <2>2
  <2>3. CASE n = l + 1
    BY <1>8, <1>10, <1>11, <2>3
  <2> QED
    BY <1>9, <2>1, <2>2, <2>3
<1>16. ASSUME NEW n \in 1 .. l + 1, NEW m \in 1 .. l + 1, n < m,
              NEW y \in Ids(r[n]), NEW z \in Ids(r[m])
       PROVE  y < z
  <2>1. CASE n \in 1 .. l - 1 /\ m \in 1 .. l - 1
    BY <1>1, <1>8, <1>16, <2>1 DEF Numbered
  <2>2. CASE n \in 1 .. l - 1 /\ (m = l \/ m = l + 1)
    <3>1. y \in Ids(s[n]) /\ n \in 1 .. l /\ n < l /\ z \in Ids(f)
      <4>1. z \in Ids(f)
        BY <1>8, <1>11, <1>12, <2>2
      <4>2. n < l
        BY <1>1, <2>2
      <4> QED
        BY <1>8, <2>2, <4>1, <4>2
    <3> QED
      BY <1>1, <1>2, <3>1 DEF Numbered
  <2>3. CASE n = l
    <3>1. m = l + 1
      BY <1>9, <1>16, <2>3
    <3> QED
      BY <1>8, <1>11, <1>12, <2>3, <3>1
  <2>4. CASE n = l + 1
    BY <1>16, <2>4
  <2> QED
    BY <1>9, <1>16, <2>1, <2>2, <2>3, <2>4
<1>17. ASSUME NEW i \in 1 .. b, i \notin d
       PROVE  \E n \in 1 .. l + 1 : i \in Ids(r[n])
  <2>1. PICK n \in 1 .. l : i \in Ids(s[n])
    BY <1>1, <1>17 DEF Numbered
  <2>2. n \in 1 .. l + 1 /\ l \in 1 .. l + 1 /\ l + 1 \in 1 .. l + 1
    BY <1>1
  <2>3. CASE n = l
    BY <1>2, <1>8, <1>11, <1>13, <2>1, <2>2, <2>3
  <2>4. CASE n # l
    <3>1. n \in 1 .. l - 1
      BY <2>4
    <3> QED
      BY <1>8, <2>1, <2>2, <3>1
  <2> QED
    BY <2>3, <2>4
<1>18. Numbered(r, b, d)
  BY <1>8, <1>10, <1>15, <1>16, <1>17 DEF Numbered
<1>19. ASSUME NEW i \in x + 1 .. b PROVE i \in d
  <2>1. i \in 1 .. b /\ i > x
    BY <1>5
  <2>2. ASSUME NEW n \in 1 .. l, i \in Ids(s[n]) PROVE FALSE
    <3>1. CASE n = l
      <4>1. i \in Ids(h) \/ i = x
        BY <1>2, <1>13, <2>2, <3>1
      <4> QED
        BY <1>5, <1>12, <2>1, <4>1
    <3>2. CASE n < l
      <4>1. i < x
        BY <1>1, <1>2, <1>11, <2>2, <3>2 DEF Numbered
      <4> QED
        BY <1>5, <2>1, <4>1
    <3> QED
      BY <3>1, <3>2
  <2> QED
    BY <1>1, <2>1, <2>2 DEF Numbered
<1>20. r # << >> /\ r[1].kind = s[1].kind
  <2>1. r # << >>
    BY <1>8
  <2>2. 1 \in 1 .. l - 1 \/ l = 1
    BY <1>1
  <2> QED
    BY <1>2, <1>6, <1>8, <2>1, <2>2
<1> QED
  BY <1>5, <1>8, <1>18, <1>19, <1>20

-----------------------------------------------------------------------------
(* Steps *)

\* What DeferReverse says of a step.
Began ==
  \A t \in Threads :
    Len(stack'[t]) > Len(stack[t]) /\ Last(stack'[t]).kind = "block" =>
      \A i \in Last(stack'[t]).number + 1 .. blocks[t] : i \in done[t]

LEMMA HomeType ==
  ASSUME NEW s \in Seq(Frames)
  PROVE  Home(s) \in Homes
<1> DEFINE r == [i \in 1 .. Len(s) |-> [kind |-> s[i].kind]]
<1>1. Len(s) \in Nat /\ DOMAIN s = 1 .. Len(s) /\ \A i \in 1 .. Len(s) : s[i].kind \in Kinds
  <2>1. \A i \in 1 .. Len(s) : s[i] \in Frames
    OBVIOUS
  <2> QED
    BY <2>1, FrameType
<1>2. r \in Seq([kind : Kinds]) /\ DOMAIN r = 1 .. Len(s) /\ Len(r) = Len(s)
  BY <1>1
<1>3. \A i \in 1 .. Len(s) : r[i].kind = s[i].kind
  OBVIOUS
<1> HIDE DEF r
<1>4. ASSUME NEW i \in 1 .. Len(s)
      PROVE  (\A j \in i .. Len(s) : s[j].kind # "block") <=> (\A j \in i .. Len(r) : r[j].kind # "block")
  <2>1. \A j \in i .. Len(s) : j \in 1 .. Len(s)
    BY <1>1
  <2> QED
    BY <1>2, <1>3, <2>1
<1>5. {i \in DOMAIN s : s[i].kind = "try" /\ \A j \in i .. Len(s) : s[j].kind # "block"}
        = {i \in DOMAIN r : r[i].kind = "try" /\ \A j \in i .. Len(r) : r[j].kind # "block"}
  BY <1>1, <1>2, <1>3, <1>4
<1>6. Home(s) = Home(r)
  BY <1>5 DEF Home
<1> QED
  BY <1>2, <1>6 DEF Homes

LEMMA StackType ==
  ASSUME TypeOK, NEW t \in Threads
  PROVE  stack[t] \in Seq(Frames) /\ Len(stack[t]) \in Nat
BY DEF TypeOK

LEMMA Work ==
  ASSUME TypeOK, ThreadInv, NEW t \in Threads
  PROVE  /\ Numbered(stack[t], blocks[t], done[t]) /\ AtWork(stack[t], mode[t])
         /\ mode[t] \in {"run", "leave", "unwind"} => stack[t] # << >>
         /\ mode[t] = "new" => stack[t] = << >>
         /\ stack[t] # << >> => stack[t][1].kind # "block"
BY DEF ThreadInv, AtWork

\* Thread t takes a step of its own.
LEMMA ThreadStep ==
  ASSUME ThreadInv, NEW t \in Threads,
         \A u \in Threads \ {t} : /\ stack'[u] = stack[u] /\ mode'[u] = mode[u]
                                  /\ blocks'[u] = blocks[u] /\ done'[u] = done[u],
         Numbered(stack'[t], blocks'[t], done'[t]), AtWork(stack'[t], mode'[t])
  PROVE  ThreadInv'
<1>1. ASSUME NEW u \in Threads
      PROVE  Numbered(stack'[u], blocks'[u], done'[u]) /\ AtWork(stack'[u], mode'[u])
  <2>1. CASE u = t
    BY <2>1
  <2>2. CASE u # t
    BY <2>2 DEF ThreadInv
  <2> QED
    BY <2>1, <2>2
<1> QED
  BY <1>1 DEF ThreadInv

\* Only the frames of thread t change, and no block begins.
LEMMA NoneBegan ==
  ASSUME TypeOK, NEW t \in Threads, \A u \in Threads \ {t} : stack'[u] = stack[u],
         Len(stack'[t]) <= Len(stack[t]) \/ Last(stack'[t]).kind # "block",
         Len(stack'[t]) \in Nat
  PROVE  Began
<1>1. ASSUME NEW u \in Threads, Len(stack'[u]) > Len(stack[u]), Last(stack'[u]).kind = "block"
      PROVE  FALSE
  <2>1. Len(stack[u]) \in Nat
    BY StackType
  <2>2. u = t
    BY <1>1, <2>1
  <2> QED
    BY <1>1, <2>1, <2>2
<1> QED
  BY <1>1 DEF Began

\* No stack changes.
LEMMA NothingBegan ==
  ASSUME TypeOK, UNCHANGED stack
  PROVE  Began
<1>1. ASSUME NEW u \in Threads PROVE ~(Len(stack'[u]) > Len(stack[u]))
  BY StackType
<1> QED
  BY <1>1 DEF Began

LEMMA ThreadsKept ==
  ASSUME ThreadInv, UNCHANGED <<stack, mode, blocks, done>>
  PROVE  ThreadInv'
BY DEF ThreadInv

\* Handles stay as they are, and no thread is new again.
LEMMA HandlesKept ==
  ASSUME TypeOK, HandleInv, UNCHANGED <<handle, os, hurried, exit>>,
         \A u \in Threads : mode'[u] = "new" => mode[u] = "new"
  PROVE  HandleInv'
<1>1. /\ \A h : Held(h)' = Held(h)
      /\ \A h : Active(h)' <=> Active(h)
      /\ \A h : Alone(h)' <=> Alone(h)
      /\ Excused(exit)' <=> Excused(exit)
  BY DEF Held, Active, Alone, Excused
<1>2. ASSUME NEW h \in Handles, Held(h)' # Nil PROVE mode'[Held(h)'] # "new"
  <2>1. Held(h) # Nil /\ Held(h) \in Threads /\ Held(h)' = Held(h)
    BY <1>1, <1>2 DEF TypeOK, Held
  <2> QED
    BY <2>1 DEF HandleInv
<1> QED
  BY <1>1, <1>2 DEF HandleInv

\* The process ends.
LEMMA StepExit ==
  ASSUME IInv, NEW w, w.why \in Ends, Excused(w), Exit(w)
  PROVE  IInv' /\ Began
<1>1. /\ exit' = w
      /\ stack' = [t \in Threads |-> << >>] /\ mode' = [t \in Threads |-> "new"]
      /\ flight' = [t \in Threads |-> NoFlight]
      /\ blocks' = [t \in Threads |-> 0] /\ done' = [t \in Threads |-> {}]
      /\ handle' = [h \in Handles |-> [thread |-> Nil, disposing |-> "no"]]
      /\ os' = [t \in Threads |-> "none"] /\ hurried' = {}
      /\ budget' = [t \in Threads |-> [frames |-> 0, blocks |-> 0, spawns |-> 0]]
  BY DEF Exit, NoStack, NoMode, NoFlights, NoBlocks, NoneDone, NoHandle, NoThread
<1>2. TypeOK'
  <2>1. << >> \in Seq(Frames)
    OBVIOUS
  <2> QED
    BY <1>1, <2>1 DEF TypeOK, Modes, Flying
<1>3. ThreadInv'
  <2>1. Numbered(<< >>, 0, {}) /\ AtWork(<< >>, "new")
    <3>1. Len(<< >>) = 0
      OBVIOUS
    <3> QED
      BY <3>1 DEF Numbered, AtWork
  <2> QED
    BY <1>1, <2>1 DEF ThreadInv
<1>4. HandleInv'
  <2>1. \A h \in Handles : handle'[h].thread = Nil /\ handle'[h].disposing = "no"
    BY <1>1
  <2>2. Excused(exit)'
    BY <1>1 DEF Excused
  <2> QED
    BY <2>1, <2>2 DEF HandleInv, Held
<1>5. Began
  <2>1. ASSUME NEW t \in Threads PROVE ~(Len(stack'[t]) > Len(stack[t]))
    <3>1. stack'[t] = << >> /\ Len(stack[t]) \in Nat
      BY <1>1, StackType DEF IInv
    <3> QED
      BY <3>1
  <2> QED
    BY <2>1 DEF Began
<1> QED
  BY <1>2, <1>3, <1>4, <1>5 DEF IInv

LEMMA StepTerminate ==
  ASSUME IInv, NEW home, Terminate(home)
  PROVE  IInv' /\ Began
<1> DEFINE w == [why |-> "panic", home |-> home]
<1>1. w.why \in Ends /\ Excused(w) /\ Exit(w)
  BY DEF Ends, Excused, Terminate
<1> HIDE DEF w
<1> QED
  BY <1>1, StepExit

LEMMA Spent ==
  ASSUME TypeOK, NEW t \in Threads
  PROVE  LET R == [Threads -> [frames : Nat, blocks : Nat, spawns : Nat]]
         IN  /\ budget[t].frames > 0 => [budget EXCEPT ![t].frames = budget[t].frames - 1] \in R
             /\ budget[t].blocks > 0 => [budget EXCEPT ![t].blocks = budget[t].blocks - 1] \in R
             /\ budget[t].spawns > 0 => [budget EXCEPT ![t].spawns = budget[t].spawns - 1] \in R
<1> DEFINE B == [frames : Nat, blocks : Nat, spawns : Nat]
<1>1. PICK c \in B : c = budget[t]
  BY DEF TypeOK
<1>2. /\ c.frames > 0 => [c EXCEPT !.frames = c.frames - 1] \in B
      /\ c.blocks > 0 => [c EXCEPT !.blocks = c.blocks - 1] \in B
      /\ c.spawns > 0 => [c EXCEPT !.spawns = c.spawns - 1] \in B
  OBVIOUS
<1>3. \A e \in B : [budget EXCEPT ![t] = e] \in [Threads -> B]
  BY DEF TypeOK
<1>4. budget[t].frames > 0 => [budget EXCEPT ![t].frames = budget[t].frames - 1] \in [Threads -> B]
  BY <1>1, <1>2, <1>3
<1>5. budget[t].blocks > 0 => [budget EXCEPT ![t].blocks = budget[t].blocks - 1] \in [Threads -> B]
  BY <1>1, <1>2, <1>3
<1>6. budget[t].spawns > 0 => [budget EXCEPT ![t].spawns = budget[t].spawns - 1] \in [Threads -> B]
  BY <1>1, <1>2, <1>3
<1> QED
  BY <1>4, <1>5, <1>6

LEMMA StepEnter ==
  ASSUME IInv, NEW t \in Threads, NEW k \in {"body", "try"}, Enter(t, k)
  PROVE  IInv' /\ Began
<1>1. TypeOK /\ ThreadInv /\ mode[t] = "run" /\ budget[t].frames > 0
  BY DEF IInv, Enter, Runs
<1>2. /\ stack' = [stack EXCEPT ![t] = Append(stack[t], Frame(k))]
      /\ budget' = [budget EXCEPT ![t].frames = budget[t].frames - 1]
      /\ UNCHANGED <<mode, flight, blocks, done, handle, os, hurried, exit>>
  BY DEF Enter, handleVars
<1>3. stack[t] \in Seq(Frames) /\ stack[t] # << >> /\ Len(stack[t]) \in Nat
  BY <1>1, StackType, Work
<1>4. PICK s \in Seq(Frames) :
        /\ s = Append(stack[t], Frame(k)) /\ Numbered(s, blocks[t], done[t])
        /\ Len(s) = Len(stack[t]) + 1 /\ s[Len(s)] = Frame(k) /\ s[1] = stack[t][1]
  <2>1. /\ Append(stack[t], Frame(k)) \in Seq(Frames)
        /\ Numbered(Append(stack[t], Frame(k)), blocks[t], done[t])
    BY <1>1, <1>3, FrameOpens, NumberedPush, Work
  <2>2. /\ Len(Append(stack[t], Frame(k))) = Len(stack[t]) + 1
        /\ Append(stack[t], Frame(k))[Len(stack[t]) + 1] = Frame(k)
        /\ Append(stack[t], Frame(k))[1] = stack[t][1]
    BY <1>3
  <2> QED
    BY <2>1, <2>2
<1>5. stack'[t] = s /\ \A u \in Threads \ {t} : stack'[u] = stack[u]
  BY <1>1, <1>2, <1>4 DEF TypeOK
<1>6. s # << >> /\ s[1].kind # "block"
  <2>1. Len(s) # 0
    BY <1>3, <1>4
  <2> QED
    BY <1>1, <1>3, <1>4, <2>1, Work
<1>7. AtWork(s, mode[t])
  BY <1>1, <1>6 DEF AtWork
<1>8. ThreadInv'
  BY <1>1, <1>2, <1>4, <1>5, <1>7, ThreadStep
<1>9. TypeOK'
  <2>1. budget' \in [Threads -> [frames : Nat, blocks : Nat, spawns : Nat]]
    BY <1>1, <1>2, Spent
  <2> QED
    BY <1>1, <1>2, <1>4, <2>1 DEF TypeOK
<1>10. Began
  <2>1. Last(stack'[t]).kind # "block"
    BY <1>4, <1>5, FrameOpens DEF Last
  <2>2. Len(stack'[t]) \in Nat
    BY <1>3, <1>4, <1>5
  <2> QED
    BY <1>1, <1>5, <2>1, <2>2, NoneBegan
<1>11. HandleInv'
  BY <1>1, <1>2, HandlesKept DEF IInv
<1> QED
  BY <1>8, <1>9, <1>10, <1>11 DEF IInv

LEMMA StepDefer ==
  ASSUME IInv, NEW t \in Threads, Defer(t)
  PROVE  IInv' /\ Began
<1>1. TypeOK /\ ThreadInv /\ mode[t] = "run" /\ budget[t].blocks > 0
  BY DEF IInv, Defer, Runs
<1>2. stack[t] \in Seq(Frames) /\ stack[t] # << >> /\ Len(stack[t]) \in Nat /\ blocks[t] \in Nat
      /\ Len(stack[t]) \in 1 .. Len(stack[t])
  BY <1>1, StackType, Work, FrontOf DEF TypeOK
<1>3. /\ stack' = [stack EXCEPT ![t] = Deferred(stack[t], blocks[t])]
      /\ budget' = [budget EXCEPT ![t].blocks = budget[t].blocks - 1]
      /\ blocks' = [blocks EXCEPT ![t] = blocks[t] + 1]
      /\ UNCHANGED <<mode, flight, done, handle, os, hurried, exit>>
  BY DEF Defer, handleVars, Deferred
<1>4. PICK s : s = Deferred(stack[t], blocks[t])
  OBVIOUS
<1>5. /\ s \in Seq(Frames) /\ Numbered(s, blocks[t] + 1, done[t])
      /\ Len(s) = Len(stack[t]) /\ \A n \in 1 .. Len(stack[t]) : s[n].kind = stack[t][n].kind
  <2>1. PICK c \in Seq(Frames), b \in Nat : c = stack[t] /\ b = blocks[t]
    BY <1>2
  <2>2. c # << >> /\ Numbered(c, b, done[t])
    BY <1>1, <1>2, <2>1, Work
  <2>3. s = Deferred(c, b)
    BY <1>4, <2>1
  <2>4. /\ s \in Seq(Frames) /\ Numbered(s, b + 1, done[t])
        /\ Len(s) = Len(c) /\ \A n \in 1 .. Len(c) : s[n].kind = c[n].kind
    BY <2>2, <2>3, NumberedDefer
  <2> QED
    BY <2>1, <2>4
<1>6. stack'[t] = s /\ \A u \in Threads \ {t} : stack'[u] = stack[u]
  BY <1>1, <1>3, <1>4 DEF TypeOK
<1>7. blocks'[t] = blocks[t] + 1 /\ \A u \in Threads \ {t} : blocks'[u] = blocks[u]
  BY <1>1, <1>3 DEF TypeOK
<1>8. AtWork(s, mode[t])
  <2>1. s # << >> /\ 1 \in 1 .. Len(stack[t])
    BY <1>2, <1>5
  <2>2. s[1].kind # "block"
    BY <1>1, <1>2, <1>5, <2>1, Work
  <2> QED
    BY <1>1, <2>1, <2>2 DEF AtWork
<1>9. ThreadInv'
  BY <1>1, <1>3, <1>5, <1>6, <1>7, <1>8, ThreadStep
<1>10. TypeOK'
  <2>1. budget' \in [Threads -> [frames : Nat, blocks : Nat, spawns : Nat]]
    BY <1>1, <1>3, Spent
  <2>2. stack' \in [Threads -> Seq(Frames)]
    BY <1>1, <1>3, <1>4, <1>5 DEF TypeOK
  <2>3. blocks' \in [Threads -> Nat]
    BY <1>1, <1>2, <1>3 DEF TypeOK
  <2> QED
    BY <1>1, <1>3, <2>1, <2>2, <2>3 DEF TypeOK
<1>11. Began
  BY <1>1, <1>2, <1>5, <1>6, NoneBegan
<1>12. HandleInv'
  BY <1>1, <1>3, HandlesKept DEF IInv
<1> QED
  BY <1>9, <1>10, <1>11, <1>12 DEF IInv

LEMMA StepReturn ==
  ASSUME IInv, NEW t \in Threads, Return(t)
  PROVE  IInv' /\ Began
<1>1. TypeOK /\ ThreadInv /\ mode[t] = "run"
  BY DEF IInv, Return, Runs
<1>2. /\ mode' = [mode EXCEPT ![t] = "leave"]
      /\ UNCHANGED <<stack, flight, budget, blocks, done, handle, os, hurried, exit>>
  BY DEF Return, handleVars
<1>3. mode'[t] = "leave" /\ \A u \in Threads \ {t} : mode'[u] = mode[u]
  BY <1>1, <1>2 DEF TypeOK
<1>4. AtWork(stack[t], "leave")
  BY <1>1, Work DEF AtWork
<1>5. ThreadInv'
  BY <1>1, <1>2, <1>3, <1>4, Work, ThreadStep
<1>6. TypeOK'
  BY <1>1, <1>2 DEF TypeOK, Modes
<1>7. HandleInv'
  BY <1>1, <1>2, <1>3, HandlesKept DEF IInv
<1> QED
  BY <1>1, <1>2, <1>5, <1>6, <1>7, NothingBegan DEF IInv

LEMMA StepRaise ==
  ASSUME IInv, NEW t \in Threads, NEW m \in Messages, Raise(t, m)
  PROVE  IInv' /\ Began
<1>1. TypeOK /\ ThreadInv /\ mode[t] = "run"
  BY DEF IInv, Raise, Runs
<1>2. CASE Terminate(Home(stack[t]))
  BY <1>2, StepTerminate
<1>3. CASE /\ mode' = [mode EXCEPT ![t] = "unwind"]
           /\ flight' = [flight EXCEPT ![t] = [home |-> Home(stack[t]), message |-> m]]
           /\ UNCHANGED <<stack, budget, blocks, done, handleVars, exit>>
  <2>1. UNCHANGED <<stack, budget, blocks, done, handle, os, hurried, exit>>
    BY <1>3 DEF handleVars
  <2>2. mode'[t] = "unwind" /\ \A u \in Threads \ {t} : mode'[u] = mode[u]
    BY <1>1, <1>3 DEF TypeOK
  <2>3. AtWork(stack[t], "unwind")
    BY <1>1, Work DEF AtWork
  <2>4. ThreadInv'
    BY <1>1, <2>1, <2>2, <2>3, Work, ThreadStep
  <2>5. TypeOK'
    <3>1. [home |-> Home(stack[t]), message |-> m] \in Flying
      BY <1>1, StackType, HomeType DEF Flying
    <3> QED
      BY <1>1, <1>3, <2>1, <3>1 DEF TypeOK, Modes
  <2>6. HandleInv'
    BY <1>1, <2>1, <2>2, HandlesKept DEF IInv
  <2> QED
    BY <1>1, <2>1, <2>4, <2>5, <2>6, NothingBegan DEF IInv
<1> QED
  BY <1>2, <1>3 DEF Raise

\* Thread u starts.
LEMMA Starts ==
  ASSUME TypeOK, ThreadInv, NEW u \in Threads, mode[u] = "new",
         stack' = [stack EXCEPT ![u] = <<Frame("body")>>],
         mode' = [mode EXCEPT ![u] = "run"], UNCHANGED <<blocks, done>>
  PROVE  ThreadInv' /\ stack' \in [Threads -> Seq(Frames)] /\ mode' \in [Threads -> Modes] /\ Began
<1> DEFINE s == <<Frame("body")>>
<1>1. stack[u] = << >> /\ Numbered(<< >>, blocks[u], done[u])
  BY Work
<1>2. Frame("body") \in Frames /\ Ids(Frame("body")) = {} /\ Increasing(Frame("body"))
      /\ Frame("body").kind = "body"
  BY FrameOpens
<1>3. s = Append(<< >>, Frame("body")) /\ << >> \in Seq(Frames)
  OBVIOUS
<1>4. s \in Seq(Frames) /\ Numbered(s, blocks[u], done[u])
  BY <1>1, <1>2, <1>3, NumberedPush
<1>5. s # << >> /\ s[1] = Frame("body") /\ Len(s) = 1 /\ Last(s) = Frame("body")
  BY DEF Last
<1> HIDE DEF s
<1>6. stack'[u] = s /\ \A v \in Threads \ {u} : stack'[v] = stack[v]
  BY DEF TypeOK, s
<1>7. mode'[u] = "run" /\ \A v \in Threads \ {u} : mode'[v] = mode[v]
  BY DEF TypeOK
<1>8. AtWork(s, "run")
  BY <1>2, <1>5 DEF AtWork
<1>9. ThreadInv'
  BY <1>4, <1>6, <1>7, <1>8, ThreadStep
<1>10. stack' \in [Threads -> Seq(Frames)] /\ mode' \in [Threads -> Modes]
  BY <1>4 DEF TypeOK, Modes, s
<1>11. Began
  BY <1>2, <1>5, <1>6, NoneBegan
<1> QED
  BY <1>9, <1>10, <1>11

LEMMA StepCo ==
  ASSUME IInv, NEW t \in Threads, NEW u \in Threads, Co(t, u)
  PROVE  IInv' /\ Began
<1>1. TypeOK /\ ThreadInv /\ mode[u] = "new"
  BY DEF IInv, Co
<1>2. /\ mode' = [mode EXCEPT ![u] = "run"]
      /\ stack' = [stack EXCEPT ![u] = <<Frame("body")>>]
      /\ UNCHANGED <<flight, budget, blocks, done, handle, os, hurried, exit>>
  BY DEF Co, handleVars
<1>3. ThreadInv' /\ stack' \in [Threads -> Seq(Frames)] /\ mode' \in [Threads -> Modes] /\ Began
  BY <1>1, <1>2, Starts
<1>4. TypeOK'
  BY <1>1, <1>2, <1>3 DEF TypeOK
<1>5. HandleInv'
  <2>1. \A v \in Threads : mode'[v] = "new" => mode[v] = "new"
    BY <1>1, <1>2 DEF TypeOK
  <2> QED
    BY <1>1, <1>2, <2>1, HandlesKept DEF IInv
<1> QED
  BY <1>3, <1>4, <1>5 DEF IInv

LEMMA StepRunBlock ==
  ASSUME IInv, NEW t \in Threads, RunBlock(t)
  PROVE  IInv' /\ Began
<1>1. /\ TypeOK /\ ThreadInv /\ mode[t] \in {"leave", "unwind"} /\ stack[t] # << >>
      /\ Top(t).pending # << >>
  BY Work DEF IInv, RunBlock
<1>2. PICK s \in Seq(Frames) : s = stack[t] /\ s # << >> /\ Len(s) \in Nat /\ Len(s) \in 1 .. Len(s)
  BY <1>1, StackType, FrontOf
<1>3. PICK f \in Frames : f = s[Len(s)] /\ f = Top(t) /\ f.pending # << >> /\ f.pending \in Seq(Nat)
  <2>1. s[Len(s)] \in Frames /\ s[Len(s)] = Top(t)
    BY <1>2 DEF Top, Last
  <2> QED
    BY <1>1, <2>1, FrameType
<1>4. PICK g \in Frames :
        /\ g = [kind |-> "block", pending |-> << >>, number |-> Last(f.pending),
                mode |-> mode[t], flight |-> flight[t]]
        /\ g.kind = "block" /\ g.pending = << >> /\ g.number = Last(f.pending)
  <2> DEFINE e == [kind |-> "block", pending |-> << >>, number |-> Last(f.pending),
                   mode |-> mode[t], flight |-> flight[t]]
  <2>1. Last(f.pending) \in Nat
    BY <1>3, FrontOf
  <2>2. << >> \in Seq(Nat) /\ flight[t] \in Flying
    BY <1>1 DEF TypeOK
  <2>3. e \in Blocks
    BY <1>1, <2>1, <2>2 DEF Blocks
  <2>4. e \in Frames
    BY <2>3 DEF Frames
  <2>5. e.kind = "block" /\ e.pending = << >> /\ e.number = Last(f.pending)
    OBVIOUS
  <2> QED
    BY <2>4, <2>5
<1>5. PICK r : r = Begun(s, g)
  OBVIOUS
<1>6. /\ stack' = [stack EXCEPT ![t] = r]
      /\ mode' = [mode EXCEPT ![t] = "run"]
      /\ flight' = [flight EXCEPT ![t] = NoFlight]
      /\ UNCHANGED <<budget, blocks, done, handle, os, hurried, exit>>
  <2> DEFINE block == [kind |-> "block", pending |-> << >>, number |-> Last(Top(t).pending),
                       mode |-> mode[t], flight |-> flight[t]]
  <2>1. r = Begun(stack[t], g)
    BY <1>2, <1>5
  <2>2. g = block
    BY <1>3, <1>4
  <2>3. stack' = [stack EXCEPT ![t] = Begun(stack[t], block)]
    BY DEF RunBlock, Begun
  <2>4. /\ mode' = [mode EXCEPT ![t] = "run"]
        /\ flight' = [flight EXCEPT ![t] = NoFlight]
        /\ UNCHANGED <<budget, blocks, done, handle, os, hurried, exit>>
    BY DEF RunBlock, handleVars
  <2> QED
    BY <2>1, <2>2, <2>3, <2>4
<1>7. Numbered(s, blocks[t], done[t]) /\ blocks[t] \in Nat /\ s[1].kind # "block"
  BY <1>1, <1>2, Work DEF TypeOK
<1>8. PICK b \in Nat : b = blocks[t]
  BY <1>7
<1>9. /\ r \in Seq(Frames) /\ Numbered(r, b, done[t])
      /\ r # << >> /\ r[1].kind = s[1].kind
      /\ \A i \in g.number + 1 .. b : i \in done[t]
  <2>1. PICK d : d = done[t]
    OBVIOUS
  <2>2. s # << >> /\ Numbered(s, b, d) /\ s[Len(s)].pending # << >>
    BY <1>2, <1>3, <1>7, <1>8, <2>1
  <2>3. g.kind = "block" /\ g.pending = << >> /\ g.number = Last(s[Len(s)].pending)
    BY <1>3, <1>4
  <2>4. /\ r \in Seq(Frames) /\ Numbered(r, b, d)
        /\ r # << >> /\ r[1].kind = s[1].kind
        /\ \A i \in g.number + 1 .. b : i \in d
    <3>1. /\ s \in Seq(Frames) /\ s # << >> /\ b \in Nat /\ Numbered(s, b, d)
          /\ s[Len(s)].pending # << >> /\ g \in Frames
          /\ g.kind = "block" /\ g.pending = << >> /\ g.number = Last(s[Len(s)].pending)
          /\ r = Begun(s, g)
      BY <1>5, <2>2, <2>3
    <3> QED
      BY ONLY <3>1, NumberedRun
  <2> QED
    BY <2>1, <2>4
<1>10. stack'[t] = r /\ \A u \in Threads \ {t} : stack'[u] = stack[u]
  BY <1>1, <1>6 DEF TypeOK
<1>11. mode'[t] = "run" /\ \A u \in Threads \ {t} : mode'[u] = mode[u]
  BY <1>1, <1>6 DEF TypeOK
<1>12. AtWork(r, "run")
  BY <1>7, <1>9 DEF AtWork
<1>13. ThreadInv'
  BY <1>1, <1>6, <1>8, <1>9, <1>10, <1>11, <1>12, ThreadStep
<1>14. TypeOK'
  <2>1. stack' \in [Threads -> Seq(Frames)] /\ mode' \in [Threads -> Modes]
    BY <1>1, <1>6, <1>9 DEF TypeOK, Modes
  <2>2. flight' \in [Threads -> Flying]
    BY <1>1, <1>6 DEF TypeOK, Flying
  <2> QED
    BY <1>1, <1>6, <2>1, <2>2 DEF TypeOK
<1>15. Last(r) = g
  <2>1. [s EXCEPT ![Len(s)] = [s[Len(s)] EXCEPT !.pending = Front(s[Len(s)].pending)]] \in Seq(Frames)
    <3>1. Front(f.pending) \in Seq(Nat)
      BY <1>3, FrontOf
    <3>2. [f EXCEPT !.pending = Front(f.pending)] \in Frames
      BY <3>1, PendingSet
    <3> QED
      BY <1>2, <1>3, <3>2
  <2> QED
    BY <1>5, <2>1 DEF Last, Begun
<1>16. Began
  <2>1. ASSUME NEW u \in Threads, Len(stack'[u]) > Len(stack[u])
        PROVE  u = t
    <3>1. Len(stack[u]) \in Nat
      BY <1>1, StackType
    <3> QED
      BY <1>10, <2>1, <3>1
  <2>2. \A i \in Last(stack'[t]).number + 1 .. blocks[t] : i \in done[t]
    BY <1>8, <1>9, <1>10, <1>15
  <2> QED
    BY <2>1, <2>2 DEF Began
<1>17. HandleInv'
  BY <1>1, <1>6, <1>11, HandlesKept DEF IInv
<1> QED
  BY <1>13, <1>14, <1>16, <1>17 DEF IInv

\* The frame on top has no block left to run, and goes.
LEMMA Popped ==
  ASSUME TypeOK, ThreadInv, NEW t \in Threads, stack[t] # << >>, Top(t).pending = << >>
  PROVE  /\ Front(stack[t]) \in Seq(Frames) /\ Top(t) \in Frames
         /\ Len(Front(stack[t])) \in Nat /\ Len(Front(stack[t])) = Len(stack[t]) - 1
         /\ Top(t).kind # "block" => Numbered(Front(stack[t]), blocks[t], done[t])
         /\ Top(t).kind = "block" =>
              /\ Numbered(Front(stack[t]), blocks[t], done[t] \cup {Top(t).number})
              /\ Front(stack[t]) # << >>
         /\ Len(stack[t]) > 1 => Front(stack[t]) # << >>
         /\ Len(stack[t]) = 1 => Front(stack[t]) = << >>
         /\ Front(stack[t]) # << >> => Front(stack[t])[1].kind # "block"
<1>1. PICK s \in Seq(Frames) : s = stack[t] /\ s # << >>
  BY StackType
<1>2. PICK r \in Seq(Frames) :
        /\ r = Front(s) /\ Len(r) = Len(s) - 1 /\ \A i \in 1 .. Len(s) - 1 : r[i] = s[i]
        /\ Last(s) = s[Len(s)] /\ Len(s) \in 1 .. Len(s) /\ Last(s) \in Frames
  BY <1>1, FrontOf
<1>3. PICK f \in Frames : f = Last(s) /\ f = Top(t) /\ f.pending = << >>
  BY <1>1, <1>2 DEF Top
<1>4. PICK b \in Nat : b = blocks[t]
  BY DEF TypeOK
<1>5. Numbered(r, b, done[t] \cup Ids(f))
  BY <1>1, <1>2, <1>3, <1>4, Work, NumberedPop
<1>6. /\ f.kind # "block" => Ids(f) = {}
      /\ f.kind = "block" => Ids(f) = {f.number}
  BY <1>3, Fresh
<1>7. f.kind # "block" => Numbered(r, b, done[t])
  <2>1. done[t] \cup {} = done[t]
    OBVIOUS
  <2> QED
    BY <1>5, <1>6, <2>1
<1>8. f.kind = "block" => Numbered(r, b, done[t] \cup {f.number})
  BY <1>5, <1>6
<1>9. Len(s) \in Nat /\ Len(r) \in Nat /\ s[1].kind # "block"
  BY <1>1, Work
<1>10. Len(s) > 1 => r # << >>
  <2>1. Len(s) > 1 => Len(r) > 0
    BY <1>2, <1>9
  <2> QED
    BY <2>1
<1>11. f.kind = "block" => Len(s) > 1
  <2>1. f.kind = "block" => Len(s) # 1
    BY <1>2, <1>3, <1>9
  <2>2. \A m \in Nat : m \in 1 .. m /\ m # 1 => m > 1
    OBVIOUS
  <2> QED
    BY <1>2, <1>9, <2>1, <2>2
<1>12. Len(s) = 1 => r = << >>
  <2>1. Len(s) = 1 => Len(r) = 0
    BY <1>2
  <2> QED
    BY <2>1
<1>13. r # << >> => r[1].kind # "block"
  <2>1. r # << >> => Len(r) > 0
    OBVIOUS
  <2>2. r # << >> => 1 \in 1 .. Len(s) - 1
    BY <1>2, <1>9, <2>1
  <2> QED
    BY <1>2, <1>9, <2>2
<1> QED
  BY <1>1, <1>2, <1>3, <1>4, <1>7, <1>8, <1>9, <1>10, <1>11, <1>12, <1>13

LEMMA StepLeave ==
  ASSUME IInv, NEW t \in Threads, Leave(t)
  PROVE  IInv' /\ Began
<1>1. /\ TypeOK /\ ThreadInv /\ mode[t] = "leave" /\ stack[t] # << >> /\ Top(t).pending = << >>
  BY Work DEF IInv, Leave
<1>2. PICK s \in Seq(Frames), f \in Frames : s = Front(stack[t]) /\ f = Top(t)
  BY <1>1, Popped
<1>3. /\ Len(s) \in Nat /\ Len(s) = Len(stack[t]) - 1 /\ Len(stack[t]) \in Nat
      /\ f.kind # "block" => Numbered(s, blocks[t], done[t])
      /\ f.kind = "block" => /\ Numbered(s, blocks[t], done[t] \cup {f.number})
                             /\ s # << >> /\ f.number \in Nat
                             /\ f.mode \in {"leave", "unwind"} /\ f.flight \in Flying
      /\ Len(stack[t]) > 1 => s # << >>
      /\ Len(stack[t]) = 1 => s = << >>
      /\ s # << >> => s[1].kind # "block"
  BY <1>1, <1>2, Popped, StackType, FrameType
<1>4. CASE /\ f.kind = "block"
           /\ mode' = [mode EXCEPT ![t] = f.mode]
           /\ flight' = [flight EXCEPT ![t] = f.flight]
           /\ done' = [done EXCEPT ![t] = done[t] \cup {f.number}]
           /\ stack' = [stack EXCEPT ![t] = s]
           /\ UNCHANGED <<budget, blocks, handleVars, exit>>
  <2>1. UNCHANGED <<budget, blocks, handle, os, hurried, exit>>
    BY <1>4 DEF handleVars
  <2>2. stack'[t] = s /\ mode'[t] = f.mode /\ done'[t] = done[t] \cup {f.number}
    BY <1>1, <1>4 DEF TypeOK
  <2>3. \A u \in Threads \ {t} : stack'[u] = stack[u] /\ mode'[u] = mode[u] /\ done'[u] = done[u]
    BY <1>1, <1>4 DEF TypeOK
  <2>4. AtWork(s, f.mode)
    BY <1>3, <1>4 DEF AtWork
  <2>5. ThreadInv'
    BY <1>1, <1>3, <1>4, <2>1, <2>2, <2>3, <2>4, ThreadStep
  <2>6. TypeOK'
    <3>1. mode' \in [Threads -> Modes] /\ flight' \in [Threads -> Flying]
      BY <1>1, <1>3, <1>4 DEF TypeOK, Modes
    <3>2. done' \in [Threads -> SUBSET Nat] /\ stack' \in [Threads -> Seq(Frames)]
      BY <1>1, <1>3, <1>4 DEF TypeOK
    <3> QED
      BY <1>1, <2>1, <3>1, <3>2 DEF TypeOK
  <2>7. Began
    BY <1>1, <1>3, <2>2, <2>3, NoneBegan
  <2>8. HandleInv'
    <3>1. \A u \in Threads : mode'[u] = "new" => mode[u] = "new"
      BY <1>3, <1>4, <2>2, <2>3
    <3> QED
      BY <1>1, <2>1, <3>1, HandlesKept DEF IInv
  <2> QED
    BY <2>5, <2>6, <2>7, <2>8 DEF IInv
<1>5. ASSUME f.kind # "block", NEW m \in {"run", "ended"}, m = "run" <=> s # << >>,
             mode' = [mode EXCEPT ![t] = m], stack' = [stack EXCEPT ![t] = s],
             UNCHANGED <<flight, budget, blocks, done, handleVars, exit>>
      PROVE  IInv' /\ Began
  <2>1. UNCHANGED <<flight, budget, blocks, done, handle, os, hurried, exit>>
    BY <1>5 DEF handleVars
  <2>2. stack'[t] = s /\ mode'[t] = m
    BY <1>1, <1>5 DEF TypeOK
  <2>3. \A u \in Threads \ {t} : stack'[u] = stack[u] /\ mode'[u] = mode[u]
    BY <1>1, <1>5 DEF TypeOK
  <2>4. AtWork(s, m)
    BY <1>3, <1>5 DEF AtWork
  <2>5. ThreadInv'
    BY <1>1, <1>3, <1>5, <2>1, <2>2, <2>3, <2>4, ThreadStep
  <2>6. TypeOK'
    <3>1. mode' \in [Threads -> Modes] /\ stack' \in [Threads -> Seq(Frames)]
      BY <1>1, <1>5 DEF TypeOK, Modes
    <3> QED
      BY <1>1, <2>1, <3>1 DEF TypeOK
  <2>7. Began
    BY <1>1, <1>3, <2>2, <2>3, NoneBegan
  <2>8. HandleInv'
    <3>1. \A u \in Threads : mode'[u] = "new" => mode[u] = "new"
      BY <1>5, <2>2, <2>3
    <3> QED
      BY <1>1, <2>1, <3>1, HandlesKept DEF IInv
  <2> QED
    BY <2>5, <2>6, <2>7, <2>8 DEF IInv
<1>6. CASE /\ f.kind # "block" /\ Len(stack[t]) > 1
           /\ mode' = [mode EXCEPT ![t] = "run"] /\ stack' = [stack EXCEPT ![t] = s]
           /\ UNCHANGED <<flight, budget, blocks, done, handleVars, exit>>
  BY <1>3, <1>5, <1>6
<1>7. CASE Exit([why |-> "main"])
  <2> DEFINE w == [why |-> "main"]
  <2>1. w.why \in Ends /\ Excused(w) /\ Exit(w)
    BY <1>7 DEF Ends, Excused
  <2> HIDE DEF w
  <2> QED
    BY <2>1, StepExit
<1>8. CASE /\ Len(stack[t]) = 1
           /\ mode' = [mode EXCEPT ![t] = "ended"] /\ stack' = [stack EXCEPT ![t] = << >>]
           /\ UNCHANGED <<flight, budget, blocks, done, handleVars, exit>>
  BY <1>3, <1>5, <1>8
<1>9. \/ /\ f.kind = "block"
         /\ mode' = [mode EXCEPT ![t] = f.mode]
         /\ flight' = [flight EXCEPT ![t] = f.flight]
         /\ done' = [done EXCEPT ![t] = done[t] \cup {f.number}]
         /\ stack' = [stack EXCEPT ![t] = s]
         /\ UNCHANGED <<budget, blocks, handleVars, exit>>
      \/ /\ f.kind # "block" /\ Len(stack[t]) > 1
         /\ mode' = [mode EXCEPT ![t] = "run"] /\ stack' = [stack EXCEPT ![t] = s]
         /\ UNCHANGED <<flight, budget, blocks, done, handleVars, exit>>
      \/ Exit([why |-> "main"])
      \/ /\ Len(stack[t]) = 1
         /\ mode' = [mode EXCEPT ![t] = "ended"] /\ stack' = [stack EXCEPT ![t] = << >>]
         /\ UNCHANGED <<flight, budget, blocks, done, handleVars, exit>>
  BY <1>2 DEF Leave
<1> QED
  BY <1>4, <1>6, <1>7, <1>8, <1>9

LEMMA StepUnwind ==
  ASSUME IInv, NEW t \in Threads, Unwind(t)
  PROVE  IInv' /\ Began
<1>1. /\ TypeOK /\ ThreadInv /\ mode[t] = "unwind" /\ stack[t] # << >> /\ Top(t).pending = << >>
  BY Work DEF IInv, Unwind
<1>2. PICK s \in Seq(Frames), f \in Frames : s = Front(stack[t]) /\ f = Top(t)
  BY <1>1, Popped
<1>3. /\ Len(s) \in Nat /\ Len(s) = Len(stack[t]) - 1 /\ Len(stack[t]) \in Nat
      /\ f.kind # "block" => Numbered(s, blocks[t], done[t])
      /\ Len(stack[t]) > 1 => s # << >>
      /\ s # << >> => s[1].kind # "block"
  BY <1>1, <1>2, Popped, StackType
<1>4. PICK g \in Frames : /\ g = [kind |-> "handler", pending |-> << >>,
                                  error |-> Told(flight[t].message)]
                          /\ g.kind = "handler" /\ g.pending = << >>
  <2> DEFINE e == [kind |-> "handler", pending |-> << >>, error |-> Told(flight[t].message)]
  <2>1. << >> \in Seq(Nat)
    OBVIOUS
  <2>2. e \in Handlers
    BY <2>1 DEF Handlers, Told
  <2>3. e \in Frames /\ e.kind = "handler" /\ e.pending = << >>
    BY <2>2 DEF Frames
  <2> QED
    BY <2>3
<1>5. CASE /\ f.kind = "try"
           /\ stack' = [stack EXCEPT ![t] = Append(s, g)]
           /\ mode' = [mode EXCEPT ![t] = "run"]
           /\ flight' = [flight EXCEPT ![t] = NoFlight]
           /\ UNCHANGED <<budget, blocks, done, handleVars, exit>>
  <2>1. UNCHANGED <<budget, blocks, done, handle, os, hurried, exit>>
    BY <1>5 DEF handleVars
  <2>2. PICK r \in Seq(Frames) :
          /\ r = Append(s, g) /\ Numbered(r, blocks[t], done[t])
          /\ Len(r) = Len(s) + 1 /\ r[1].kind # "block"
    <3>1. Append(s, g) \in Seq(Frames) /\ Numbered(Append(s, g), blocks[t], done[t])
      BY <1>3, <1>4, <1>5, Fresh, NumberedPush
    <3>2. Len(Append(s, g)) = Len(s) + 1
      OBVIOUS
    <3>3. CASE s = << >>
      <4>1. Append(s, g)[1] = g
        BY <3>3
      <4> QED
        BY <1>4, <3>1, <3>2, <4>1
    <3>4. CASE s # << >>
      <4>1. Append(s, g)[1] = s[1]
        BY <3>4
      <4> QED
        BY <1>3, <3>1, <3>2, <3>4, <4>1
    <3> QED
      BY <3>3, <3>4
  <2>3. stack'[t] = r /\ mode'[t] = "run"
    BY <1>1, <1>5, <2>2 DEF TypeOK
  <2>4. \A u \in Threads \ {t} : stack'[u] = stack[u] /\ mode'[u] = mode[u]
    BY <1>1, <1>5 DEF TypeOK
  <2>5. AtWork(r, "run")
    <3>1. r # << >>
      BY <1>3, <2>2
    <3> QED
      BY <2>2, <3>1 DEF AtWork
  <2>6. ThreadInv'
    BY <1>1, <2>1, <2>2, <2>3, <2>4, <2>5, ThreadStep
  <2>7. TypeOK'
    <3>1. mode' \in [Threads -> Modes] /\ flight' \in [Threads -> Flying]
      BY <1>1, <1>5 DEF TypeOK, Modes, Flying
    <3>2. stack' \in [Threads -> Seq(Frames)]
      BY <1>1, <1>5, <2>2 DEF TypeOK
    <3> QED
      BY <1>1, <2>1, <3>1, <3>2 DEF TypeOK
  <2>8. Began
    <3>1. Len(r) <= Len(stack[t]) /\ Len(r) \in Nat
      BY <1>3, <2>2
    <3> QED
      BY <1>1, <2>3, <2>4, <3>1, NoneBegan
  <2>9. HandleInv'
    <3>1. \A u \in Threads : mode'[u] = "new" => mode[u] = "new"
      BY <2>3, <2>4
    <3> QED
      BY <1>1, <2>1, <3>1, HandlesKept DEF IInv
  <2> QED
    BY <2>6, <2>7, <2>8, <2>9 DEF IInv
<1>6. CASE Terminate(flight[t].home)
  BY <1>6, StepTerminate
<1>7. CASE /\ f.kind \in {"body", "handler"} /\ Len(stack[t]) > 1
           /\ stack' = [stack EXCEPT ![t] = s]
           /\ UNCHANGED <<mode, flight, budget, blocks, done, handleVars, exit>>
  <2>1. UNCHANGED <<mode, flight, budget, blocks, done, handle, os, hurried, exit>>
    BY <1>7 DEF handleVars
  <2>2. stack'[t] = s /\ \A u \in Threads \ {t} : stack'[u] = stack[u]
    BY <1>1, <1>7 DEF TypeOK
  <2>3. AtWork(s, mode[t])
    BY <1>1, <1>3, <1>7 DEF AtWork
  <2>4. ThreadInv'
    BY <1>1, <1>3, <1>7, <2>1, <2>2, <2>3, ThreadStep
  <2>5. TypeOK'
    BY <1>1, <1>7, <2>1 DEF TypeOK
  <2>6. Began
    BY <1>1, <1>3, <2>2, NoneBegan
  <2>7. HandleInv'
    BY <1>1, <2>1, HandlesKept DEF IInv
  <2> QED
    BY <2>4, <2>5, <2>6, <2>7 DEF IInv
<1>8. \/ /\ f.kind = "try"
         /\ stack' = [stack EXCEPT ![t] = Append(s, g)]
         /\ mode' = [mode EXCEPT ![t] = "run"]
         /\ flight' = [flight EXCEPT ![t] = NoFlight]
         /\ UNCHANGED <<budget, blocks, done, handleVars, exit>>
      \/ Terminate(flight[t].home)
      \/ /\ f.kind \in {"body", "handler"} /\ Len(stack[t]) > 1
         /\ stack' = [stack EXCEPT ![t] = s]
         /\ UNCHANGED <<mode, flight, budget, blocks, done, handleVars, exit>>
  BY <1>2, <1>4 DEF Unwind
<1> QED
  BY <1>5, <1>6, <1>7, <1>8

LEMMA StepSignal ==
  ASSUME IInv, NEW g, Signal(g)
  PROVE  IInv' /\ Began
<1> DEFINE w == [why |-> "signal", code |-> g]
<1>1. w.why \in Ends /\ Excused(w) /\ Exit(w)
  BY DEF Ends, Excused, Signal
<1> HIDE DEF w
<1> QED
  BY <1>1, StepExit

-----------------------------------------------------------------------------
(* Steps of the handles *)

\* Handle h changes, and the others keep what HandleInv says of them.
LEMMA HandleStep ==
  ASSUME TypeOK, HandleInv, NEW h \in Handles, NEW v \in Threads \cup {Nil},
         NEW d \in {"no", "detach", "drop"}, handle' = Set(h, v, d),
         \A u \in Threads : mode'[u] = "new" => mode[u] = "new",
         v # Nil => mode'[v] # "new",
         Excused(exit)', hurried \subseteq hurried',
         d # "no" => v # Nil,
         d = "detach" => os'[v] = "joinable" /\ \A g \in Handles \ {h} : Held(g) # v,
         d = "drop" =>
           v \in hurried' \/ os'[v] # "joinable" \/ \E g \in Handles \ {h} : Held(g) = v,
         \A g \in Handles \ {h} :
           Held(g) = v /\ d # "no" => v \in hurried' \/ handle[g].disposing = "no",
         \A g \in Handles \ {h} :
           handle[g].disposing = "detach" => Held(g) # v /\ os'[Held(g)] = os[Held(g)],
         \A g \in Handles \ {h} :
           handle[g].disposing = "drop" /\ os'[Held(g)] = "joinable" =>
             /\ os[Held(g)] = "joinable"
             /\ Held(g) = Held(h) => v = Held(h) \/ Held(g) \in hurried'
  PROVE  HandleInv'
<1>1. /\ handle'[h].thread = v /\ handle'[h].disposing = d
      /\ \A g \in Handles \ {h} : handle'[g] = handle[g]
  BY DEF Set, TypeOK
<1>2. Held(h)' = v /\ \A g \in Handles \ {h} : Held(g)' = Held(g)
  BY <1>1 DEF Held
<1>3. ASSUME NEW g \in Handles, Held(g)' # Nil PROVE (mode[Held(g)] # "new")'
  <2>1. CASE g = h
    BY <1>2, <1>3, <2>1
  <2>2. CASE g # h
    <3>1. Held(g) # Nil /\ Held(g) \in Threads /\ Held(g)' = Held(g)
      BY <1>2, <1>3, <2>2 DEF TypeOK, Held
    <3> QED
      BY <3>1 DEF HandleInv
  <2> QED
    BY <2>1, <2>2
<1>4. ASSUME NEW g \in Handles, handle'[g].disposing # "no" PROVE Held(g)' # Nil
  <2>1. CASE g = h
    BY <1>1, <1>2, <1>4, <2>1
  <2>2. CASE g # h
    BY <1>1, <1>2, <1>4, <2>2 DEF HandleInv
  <2> QED
    BY <2>1, <2>2
<1>5. ASSUME NEW g \in Handles, handle'[g].disposing = "detach"
      PROVE  Active(g)' /\ Alone(g)'
  <2>1. CASE g = h
    <3>1. \A k \in Handles \ {h} : Held(k)' # Held(h)'
      BY <1>1, <1>2, <1>5, <2>1
    <3> QED
      BY <1>1, <1>2, <1>4, <1>5, <2>1, <3>1 DEF Active, Alone
  <2>2. CASE g # h
    <3>1. handle[g].disposing = "detach" /\ Held(g)' = Held(g)
      BY <1>1, <1>2, <1>5, <2>2
    <3>2. Active(g) /\ Alone(g)
      BY <3>1 DEF HandleInv
    <3>3. Active(g)'
      BY <2>2, <3>1, <3>2 DEF Active
    <3>4. \A k \in Handles \ {g} : Held(k)' # Held(g)'
      BY <1>2, <2>2, <3>1, <3>2 DEF Alone
    <3> QED
      BY <3>3, <3>4 DEF Alone
  <2> QED
    BY <2>1, <2>2
<1>6. ASSUME NEW g \in Handles, handle'[g].disposing = "drop", Active(g)', Alone(g)'
      PROVE  Held(g)' \in hurried'
  <2>0. os'[Held(g)'] = "joinable" /\ \A k \in Handles \ {g} : Held(k)' # Held(g)'
    BY <1>6 DEF Active, Alone
  <2>1. CASE g = h
    BY <1>1, <1>2, <1>6, <2>0, <2>1
  <2>2. CASE g # h
    <3>1. handle[g].disposing = "drop" /\ Held(g)' = Held(g)
      BY <1>1, <1>2, <1>6, <2>2
    <3>2. Active(g)
      BY <2>0, <2>2, <3>1, <1>6 DEF Active
    <3>3. CASE Held(g) \in hurried
      BY <3>1, <3>3
    <3>4. CASE ~Alone(g)
      <4>1. PICK k \in Handles \ {g} : Held(k) = Held(g)
        BY <3>4 DEF Alone
      <4>2. k = h
        BY <1>2, <2>0, <3>1, <4>1
      <4>3. v # Held(h)
        BY <1>2, <2>0, <2>2, <3>1, <4>1, <4>2
      <4> QED
        BY <2>0, <2>2, <3>1, <4>1, <4>2, <4>3
    <3> QED
      BY <3>1, <3>2, <3>3, <3>4 DEF HandleInv
  <2> QED
    BY <2>1, <2>2
<1>7. ASSUME NEW g \in Handles, NEW k \in Handles, k # g, Held(k)' = Held(g)',
             handle'[g].disposing # "no"
      PROVE  Held(g)' \in hurried' \/ handle'[k].disposing = "no"
  <2>1. CASE g = h
    BY <1>1, <1>2, <1>7, <2>1
  <2>2. CASE k = h
    BY <1>1, <1>2, <1>7, <2>2
  <2>3. CASE g # h /\ k # h
    BY <1>1, <1>2, <1>7, <2>3 DEF HandleInv
  <2> QED
    BY <2>1, <2>2, <2>3
<1> QED
  BY <1>3, <1>4, <1>5, <1>6, <1>7 DEF HandleInv

\* A step that changes one handle, and maybe its std::thread.
LEMMA OneHandle ==
  ASSUME IInv, NEW h \in Handles, NEW v \in Threads \cup {Nil},
         NEW d \in {"no", "detach", "drop"}, handle' = Set(h, v, d),
         UNCHANGED <<frameVars, exit>>, hurried' \in SUBSET Threads,
         os' \in [Threads -> {"none", "joinable", "joined", "detached"}]
  PROVE  TypeOK' /\ ThreadInv' /\ Began /\ UNCHANGED <<mode, exit>> /\ Excused(exit)'
<1>1. UNCHANGED <<stack, mode, flight, budget, blocks, done, exit>> /\ TypeOK /\ ThreadInv
  BY DEF frameVars, IInv
<1>2. TypeOK'
  BY <1>1 DEF TypeOK, Set
<1>3. Excused(exit)'
  BY <1>1 DEF IInv, HandleInv, Excused
<1> QED
  BY <1>1, <1>2, <1>3, ThreadsKept, NothingBegan

LEMMA HeldType ==
  ASSUME TypeOK, NEW h \in Handles
  PROVE  Held(h) \in Threads \cup {Nil} /\ (Held(h) # Nil => Held(h) \in Threads)
BY DEF TypeOK, Held

\* A handle is one of those that are counted.
LEMMA Counted ==
  ASSUME NEW h \in Handles
  PROVE  CountOf(Held(h)) = 1 <=> Alone(h)
<1> DEFINE A == {k \in Handles : Held(k) = Held(h)}
<1>1. A \subseteq Handles /\ h \in A /\ CountOf(Held(h)) = Cardinality(A)
  BY DEF CountOf
<1>2. IsFiniteSet(A)
  BY <1>1, FS_Subset, ProcessAssumption
<1>3. ASSUME Alone(h) PROVE Cardinality(A) = 1
  <2>1. A = {h}
    BY <1>1, <1>3 DEF Alone
  <2> QED
    BY <2>1, FS_Singleton
<1>4. ASSUME Cardinality(A) = 1 PROVE Alone(h)
  <2>1. PICK x : A = {x}
    BY <1>2, <1>4, FS_Singleton
  <2> QED
    BY <1>1, <2>1 DEF Alone
<1> QED
  BY <1>1, <1>3, <1>4

\* The std::threads that are hurried stay so, and are threads.
LEMMA Hurrying ==
  ASSUME TypeOK, NEW h \in Handles, Held(h) # Nil
  PROVE  /\ hurried \subseteq HurriedAfter(h) /\ HurriedAfter(h) \in SUBSET Threads
         /\ Contended(h) => Held(h) \in HurriedAfter(h)
BY HeldType DEF HurriedAfter, TypeOK

\* A handle that its owner can use is not the one that is about to detach.
LEMMA NotDetaching ==
  ASSUME HandleInv, NEW t, Runs(t), NEW h \in Handles, HolderOf[h] = t,
         NEW g \in Handles, handle[g].disposing = "detach"
  PROVE  g # h /\ Held(g) # Held(h)
<1>1. handle[h].disposing = "no"
  BY DEF Runs
<1>2. g # h
  BY <1>1
<1>3. Alone(g)
  BY DEF HandleInv
<1> QED
  BY <1>2, <1>3 DEF Alone

LEMMA StepSpawn ==
  ASSUME IInv, NEW t \in Threads, NEW h \in Handles, NEW u \in Threads, Spawn(t, h, u)
  PROVE  IInv' /\ Began
<1>0. /\ TypeOK /\ ThreadInv /\ HandleInv /\ Held(h) = Nil /\ budget[t].spawns > 0
      /\ u # Nil
  BY ProcessAssumption DEF IInv, Spawn
<1>1. CASE /\ mode[u] = "new"
           /\ budget' = [budget EXCEPT ![t].spawns = budget[t].spawns - 1]
           /\ mode' = [mode EXCEPT ![u] = "run"]
           /\ stack' = [stack EXCEPT ![u] = <<Frame("body")>>]
           /\ handle' = Set(h, u, "no")
           /\ os' = [os EXCEPT ![u] = "joinable"]
           /\ UNCHANGED <<flight, blocks, done, hurried, exit>>
  <2>1. ThreadInv' /\ stack' \in [Threads -> Seq(Frames)] /\ mode' \in [Threads -> Modes] /\ Began
    BY <1>0, <1>1, Starts
  <2>2. TypeOK'
    <3>1. budget' \in [Threads -> [frames : Nat, blocks : Nat, spawns : Nat]]
      BY <1>0, <1>1, Spent
    <3>2. handle' \in [Handles -> [thread : Threads \cup {Nil}, disposing : {"no", "detach", "drop"}]]
      BY <1>0, <1>1 DEF TypeOK, Set
    <3>3. os' \in [Threads -> {"none", "joinable", "joined", "detached"}]
      BY <1>0, <1>1 DEF TypeOK
    <3> QED
      BY <1>0, <1>1, <2>1, <3>1, <3>2, <3>3 DEF TypeOK
  <2>3. HandleInv'
    <3>1. mode'[u] = "run" /\ \A w \in Threads : mode'[w] = "new" => mode[w] = "new"
      BY <1>0, <1>1 DEF TypeOK
    <3>2. ASSUME NEW g \in Handles, Held(g) # Nil
          PROVE  os'[Held(g)] = os[Held(g)] /\ Held(g) # u
      <4>1. Held(g) \in Threads /\ Held(g) # u
        BY <1>0, <1>1, <3>2, HeldType DEF HandleInv
      <4> QED
        BY <1>0, <1>1, <4>1 DEF TypeOK
    <3>3. \A g \in Handles : handle[g].disposing # "no" => Held(g) # Nil
      BY <1>0 DEF HandleInv
    <3>4. Excused(exit)'
      BY <1>0, <1>1 DEF HandleInv, Excused
    <3> QED
      BY <1>0, <1>1, <3>1, <3>2, <3>3, <3>4, HandleStep
  <2> QED
    BY <2>1, <2>2, <2>3 DEF IInv
<1>2. CASE Exit([why |-> "no thread"])
  <2> DEFINE w == [why |-> "no thread"]
  <2>1. w.why \in Ends /\ Excused(w) /\ Exit(w)
    BY <1>2 DEF Ends, Excused
  <2> HIDE DEF w
  <2> QED
    BY <2>1, StepExit
<1>3. CASE \E m \in Messages : Raise(t, m)
  BY <1>3, StepRaise
<1> QED
  BY <1>1, <1>2, <1>3 DEF Spawn

\* The last handle of a joinable std::thread is dropped.
LEMMA Lost ==
  ASSUME IInv, NEW h, NEW how, how = "assigned" \/ Held(h) \in hurried,
         Exit([why |-> "joinable", how |-> how, hurried |-> Held(h) \in hurried])
  PROVE  IInv' /\ Began
<1> DEFINE w == [why |-> "joinable", how |-> how, hurried |-> Held(h) \in hurried]
<1>1. w.why \in Ends /\ Excused(w) /\ Exit(w)
  BY DEF Ends, Excused
<1> HIDE DEF w
<1> QED
  BY <1>1, StepExit

LEMMA StepAssign ==
  ASSUME IInv, NEW t \in Threads, NEW h \in Handles, NEW g \in Handles, Assign(t, h, g)
  PROVE  IInv' /\ Began
<1>1. /\ TypeOK /\ HandleInv /\ Runs(t) /\ HolderOf[h] = t /\ handle[g].disposing = "no"
      /\ Held(h) # Held(g) /\ Drop(g, Held(h), "assigned")
  BY DEF IInv, Assign
<1>2. CASE Active(g) /\ CountOf(Held(g)) = 1
  BY <1>1, <1>2, Lost DEF Drop
<1>3. CASE ~(Active(g) /\ CountOf(Held(g)) = 1)
  <2>1. /\ handle' = Set(g, Held(h), "no") /\ UNCHANGED <<frameVars, os, exit>>
        /\ hurried' = HurriedAfter(g)
    BY <1>1, <1>3 DEF Drop
  <2>2. /\ Held(h) \in Threads \cup {Nil} /\ os' = os
        /\ os' \in [Threads -> {"none", "joinable", "joined", "detached"}]
    BY <1>1, <2>1, HeldType DEF TypeOK
  <2>3. /\ hurried \subseteq hurried' /\ hurried' \in SUBSET Threads
        /\ Held(g) # Nil /\ Contended(g) => Held(g) \in hurried'
    <3>1. CASE Held(g) = Nil
      <4>1. ~Contended(g)
        BY <1>1, <3>1 DEF Contended, HandleInv
      <4> QED
        BY <1>1, <2>1, <3>1, <4>1 DEF HurriedAfter, TypeOK
    <3>2. CASE Held(g) # Nil
      BY <1>1, <2>1, <3>2, Hurrying
    <3> QED
      BY <3>1, <3>2
  <2>4. TypeOK' /\ ThreadInv' /\ Began /\ UNCHANGED <<mode, exit>> /\ Excused(exit)'
    BY <2>1, <2>2, <2>3, OneHandle
  <2>5. HandleInv'
    <3>1. Held(h) # Nil => mode'[Held(h)] # "new"
      BY <1>1, <2>4 DEF HandleInv
    <3>2. \A k \in Handles : handle[k].disposing = "detach" => Held(k) # Held(h)
      BY <1>1, NotDetaching
    <3>3. ASSUME NEW k \in Handles \ {g}, handle[k].disposing = "drop", Held(k) = Held(g)
          PROVE  Held(k) \in hurried'
      <4>1. Held(k) # Nil /\ Contended(g)
        BY <1>1, <3>3 DEF HandleInv, Contended
      <4> QED
        BY <2>3, <3>3, <4>1
    <3> QED
      BY <1>1, <2>1, <2>2, <2>3, <2>4, <3>1, <3>2, <3>3, HandleStep
  <2> QED
    BY <2>4, <2>5 DEF IInv
<1> QED
  BY <1>2, <1>3

\* wait and detach: the thread is no longer joinable, and the handle is empty.
LEMMA Released ==
  ASSUME IInv, NEW t, Runs(t), NEW h \in Handles, HolderOf[h] = t, Active(h),
         NEW e \in {"joined", "detached"},
         os' = [os EXCEPT ![Held(h)] = e], handle' = Set(h, Nil, "no"),
         UNCHANGED <<frameVars, hurried, exit>>
  PROVE  IInv' /\ Began
<1>1. TypeOK /\ HandleInv /\ Held(h) \in Threads
  BY HeldType DEF IInv, Active
<1>2. /\ os' \in [Threads -> {"none", "joinable", "joined", "detached"}]
      /\ hurried' \in SUBSET Threads
  BY <1>1 DEF TypeOK
<1>3. TypeOK' /\ ThreadInv' /\ Began /\ UNCHANGED <<mode, exit>> /\ Excused(exit)'
  BY <1>2, OneHandle
<1>4. /\ os'[Held(h)] = e /\ \A u \in Threads : os'[u] = "joinable" => os[u] = "joinable"
      /\ \A u \in Threads \ {Held(h)} : os'[u] = os[u]
  BY <1>1 DEF TypeOK
<1>5. \A g \in Handles : Held(g) # Nil => Held(g) \in Threads
  BY <1>1, HeldType
<1>6. \A g \in Handles : handle[g].disposing = "detach" =>
        Held(g) # Held(h) /\ Held(g) # Nil /\ os'[Held(g)] = os[Held(g)]
  BY <1>1, <1>4, <1>5, NotDetaching DEF HandleInv
<1>7. \A g \in Handles : handle[g].disposing = "drop" => Held(g) # Nil
  BY <1>1 DEF HandleInv
<1>8. HandleInv'
  BY <1>1, <1>3, <1>4, <1>5, <1>6, <1>7, HandleStep
<1> QED
  BY <1>3, <1>8 DEF IInv

LEMMA StepWait ==
  ASSUME IInv, NEW t \in Threads, NEW h \in Handles, Wait(t, h)
  PROVE  IInv' /\ Began
<1>0. Runs(t) /\ HolderOf[h] = t
  BY DEF Wait
<1>1. CASE /\ Active(h) /\ os' = [os EXCEPT ![Held(h)] = "joined"]
           /\ handle' = Set(h, Nil, "no") /\ UNCHANGED <<frameVars, hurried, exit>>
  BY <1>0, <1>1, Released
<1>2. CASE Exit([why |-> "joins itself"])
  <2> DEFINE w == [why |-> "joins itself"]
  <2>1. w.why \in Ends /\ Excused(w) /\ Exit(w)
    BY <1>2 DEF Ends, Excused
  <2> HIDE DEF w
  <2> QED
    BY <2>1, StepExit
<1>3. CASE \E m \in Messages : Raise(t, m)
  BY <1>3, StepRaise
<1> QED
  BY <1>1, <1>2, <1>3 DEF Wait

LEMMA StepDetach ==
  ASSUME IInv, NEW t \in Threads, NEW h \in Handles, Detach(t, h)
  PROVE  IInv' /\ Began
<1>0. Runs(t) /\ HolderOf[h] = t
  BY DEF Detach
<1>1. CASE /\ Active(h) /\ os' = [os EXCEPT ![Held(h)] = "detached"]
           /\ handle' = Set(h, Nil, "no") /\ UNCHANGED <<frameVars, hurried, exit>>
  BY <1>0, <1>1, Released
<1>2. CASE \E m \in Messages : Raise(t, m)
  BY <1>2, StepRaise
<1> QED
  BY <1>1, <1>2 DEF Detach

LEMMA StepDispose ==
  ASSUME IInv, NEW t \in Threads, NEW h \in Handles, Dispose(t, h)
  PROVE  IInv' /\ Began
<1>1. /\ TypeOK /\ HandleInv /\ Held(h) # Nil /\ Runs(t) /\ HolderOf[h] = t
      /\ hurried' = HurriedAfter(h)
  BY DEF IInv, Dispose
<1>2. PICK v \in Threads : v = Held(h)
  BY <1>1, HeldType
<1>3. PICK d \in {"no", "detach", "drop"} :
        /\ handle' = Set(h, v, d) /\ UNCHANGED <<frameVars, os, exit>>
        /\ d = IF Active(h) /\ CountOf(Held(h)) = 1 THEN "detach" ELSE "drop"
  BY <1>2 DEF Dispose
<1>4. /\ os' \in [Threads -> {"none", "joinable", "joined", "detached"}] /\ os' = os
      /\ v # Nil
  BY <1>1, <1>2, <1>3 DEF TypeOK
<1>5. /\ hurried \subseteq hurried' /\ hurried' \in SUBSET Threads
      /\ Contended(h) => v \in hurried'
  BY <1>1, <1>2, Hurrying
<1>6. TypeOK' /\ ThreadInv' /\ Began /\ UNCHANGED <<mode, exit>> /\ Excused(exit)'
  BY <1>3, <1>4, <1>5, OneHandle
<1>7. mode'[v] # "new"
  BY <1>1, <1>2, <1>6 DEF HandleInv
<1>8. d = "detach" => os'[v] = "joinable" /\ \A g \in Handles \ {h} : Held(g) # v
  BY <1>2, <1>3, <1>4, Counted DEF Active, Alone
<1>9. d = "drop" => os'[v] # "joinable" \/ \E g \in Handles \ {h} : Held(g) = v
  BY <1>2, <1>3, <1>4, Counted DEF Active, Alone
<1>10. \A g \in Handles \ {h} : Held(g) = v => v \in hurried' \/ handle[g].disposing = "no"
  BY <1>2, <1>5 DEF Contended
<1>11. \A g \in Handles : handle[g].disposing = "detach" => Held(g) # v
  BY <1>1, <1>2, NotDetaching
<1>12. HandleInv'
  BY <1>1, <1>2, <1>3, <1>4, <1>5, <1>6, <1>7, <1>8, <1>9, <1>10, <1>11, HandleStep
<1> QED
  BY <1>6, <1>12 DEF IInv

LEMMA StepDisposeDetach ==
  ASSUME IInv, NEW h \in Handles, DisposeDetach(h)
  PROVE  IInv' /\ Began
<1>1. /\ TypeOK /\ HandleInv /\ handle[h].disposing = "detach"
      /\ handle' = Set(h, Held(h), "drop")
      /\ os' = [os EXCEPT ![Held(h)] = "detached"] /\ UNCHANGED <<frameVars, hurried, exit>>
  BY DEF IInv, DisposeDetach
<1>2. Alone(h) /\ Held(h) # Nil
  BY <1>1 DEF HandleInv
<1>3. PICK v \in Threads : v = Held(h)
  BY <1>1, <1>2, HeldType
<1>4. PICK d \in {"no", "detach", "drop"} : d = "drop" /\ handle' = Set(h, v, d)
  BY <1>1, <1>3
<1>5. /\ os' \in [Threads -> {"none", "joinable", "joined", "detached"}]
      /\ hurried' \in SUBSET Threads /\ v # Nil
      /\ os'[v] = "detached" /\ \A u \in Threads \ {v} : os'[u] = os[u]
  BY <1>1, <1>2, <1>3 DEF TypeOK
<1>6. TypeOK' /\ ThreadInv' /\ Began /\ UNCHANGED <<mode, exit>> /\ Excused(exit)'
  BY <1>1, <1>4, <1>5, OneHandle
<1>7. mode'[v] # "new"
  BY <1>1, <1>3, <1>5, <1>6 DEF HandleInv
<1>8. \A g \in Handles \ {h} : Held(g) # v
  BY <1>2, <1>3 DEF Alone
<1>9. \A g \in Handles \ {h} : handle[g].disposing # "no" => os'[Held(g)] = os[Held(g)]
  BY <1>1, <1>5, <1>8, HeldType DEF HandleInv
<1>10. HandleInv'
  BY <1>1, <1>3, <1>4, <1>5, <1>6, <1>7, <1>8, <1>9, HandleStep
<1> QED
  BY <1>6, <1>10 DEF IInv

LEMMA StepDisposeDrop ==
  ASSUME IInv, NEW h \in Handles, DisposeDrop(h)
  PROVE  IInv' /\ Began
<1>1. TypeOK /\ HandleInv /\ handle[h].disposing = "drop" /\ Drop(h, Nil, "disposed")
  BY DEF IInv, DisposeDrop
<1>2. CASE Active(h) /\ CountOf(Held(h)) = 1
  <2>1. Held(h) \in hurried
    BY <1>1, <1>2, Counted DEF HandleInv
  <2> QED
    BY <1>1, <1>2, <2>1, Lost DEF Drop
<1>3. CASE ~(Active(h) /\ CountOf(Held(h)) = 1)
  <2>1. handle' = Set(h, Nil, "no") /\ UNCHANGED <<frameVars, os, hurried, exit>>
    BY <1>1, <1>3 DEF Drop
  <2>2. /\ os' \in [Threads -> {"none", "joinable", "joined", "detached"}] /\ os' = os
        /\ hurried' \in SUBSET Threads
    BY <1>1, <2>1 DEF TypeOK
  <2>3. TypeOK' /\ ThreadInv' /\ Began /\ UNCHANGED <<mode, exit>> /\ Excused(exit)'
    BY <2>1, <2>2, OneHandle
  <2>4. \A g \in Handles \ {h} : handle[g].disposing = "drop" /\ Held(g) = Held(h) =>
          Held(g) \in hurried'
    BY <1>1, <2>1 DEF HandleInv
  <2>5. \A g \in Handles : handle[g].disposing = "detach" => Held(g) # Nil
    BY <1>1 DEF HandleInv
  <2>6. HandleInv'
    BY <1>1, <2>1, <2>2, <2>3, <2>4, <2>5, HandleStep
  <2> QED
    BY <2>3, <2>6 DEF IInv
<1> QED
  BY <1>2, <1>3

-----------------------------------------------------------------------------
(* The theorems *)

LEMMA InitInv ==
  ASSUME Init
  PROVE  IInv
<1>1. /\ stack = [[u \in Threads |-> << >>] EXCEPT ![Main] = <<Frame("body")>>]
      /\ mode = [[u \in Threads |-> "new"] EXCEPT ![Main] = "run"]
      /\ flight = [u \in Threads |-> NoFlight] /\ budget \in Budgets
      /\ blocks = [u \in Threads |-> 0] /\ done = [u \in Threads |-> {}]
      /\ handle = [h \in Handles |-> [thread |-> Nil, disposing |-> "no"]]
      /\ os = [u \in Threads |-> "none"] /\ hurried = {} /\ exit = [why |-> "running"]
  BY DEF Init, NoStack, NoMode, NoFlights, NoBlocks, NoneDone, NoHandle, NoThread, Running
<1>2. Main \in Threads
  BY ProcessAssumption
<1>3. /\ Frame("body") \in Frames /\ Ids(Frame("body")) = {} /\ Increasing(Frame("body"))
      /\ Frame("body").kind = "body"
  BY FrameOpens
<1>4. PICK s \in Seq(Frames) : s = <<Frame("body")>> /\ Len(s) = 1 /\ s[1] = Frame("body") /\ s # << >>
  <2> DEFINE e == <<Frame("body")>>
  <2>1. e \in Seq(Frames) /\ Len(e) = 1 /\ e[1] = Frame("body") /\ e # << >>
    BY <1>3
  <2> QED
    BY <2>1
<1>5. Numbered(<< >>, 0, {}) /\ AtWork(<< >>, "new")
  <2>1. Len(<< >>) = 0
    OBVIOUS
  <2> QED
    BY <2>1 DEF Numbered, AtWork
<1>6. Numbered(s, 0, {}) /\ AtWork(s, "run")
  BY <1>3, <1>4 DEF Numbered, AtWork
<1>7. stack[Main] = s /\ mode[Main] = "run"
  BY <1>1, <1>2, <1>4
<1>8. \A u \in Threads \ {Main} : stack[u] = << >> /\ mode[u] = "new"
  BY <1>1
<1>9. \A u \in Threads : blocks[u] = 0 /\ done[u] = {}
  BY <1>1
<1>10. ASSUME NEW u \in Threads
       PROVE  Numbered(stack[u], blocks[u], done[u]) /\ AtWork(stack[u], mode[u])
  <2>1. CASE u = Main
    BY <1>6, <1>7, <1>9, <2>1
  <2>2. CASE u # Main
    BY <1>5, <1>8, <1>9, <2>2
  <2> QED
    BY <2>1, <2>2
<1>11. TypeOK
  <2>1. << >> \in Seq(Frames)
    OBVIOUS
  <2>2. stack \in [Threads -> Seq(Frames)] /\ mode \in [Threads -> Modes]
    BY <1>1, <1>4, <2>1 DEF Modes
  <2>3. budget \in [Threads -> [frames : Nat, blocks : Nat, spawns : Nat]]
    BY <1>1, ProcessAssumption
  <2> QED
    BY <1>1, <2>2, <2>3 DEF TypeOK, Flying, Ends
<1>12. HandleInv
  <2>1. \A h \in Handles : handle[h].thread = Nil /\ handle[h].disposing = "no"
    BY <1>1
  <2>2. Excused(exit)
    BY <1>1 DEF Excused
  <2> QED
    BY <2>1, <2>2 DEF HandleInv, Held
<1> QED
  BY <1>10, <1>11, <1>12 DEF IInv, ThreadInv

LEMMA NextInv ==
  ASSUME IInv, [Next]_vars
  PROVE  IInv' /\ Began
<1>1. ASSUME NEW t \in Threads, ProgramStep(t)
      PROVE  IInv' /\ Began
  BY <1>1, StepEnter, StepDefer, StepReturn, StepRaise, StepCo, StepSpawn, StepAssign,
     StepWait, StepDetach, StepDispose
     DEF ProgramStep
<1>2. ASSUME NEW t \in Threads, RunBlock(t) \/ Leave(t) \/ Unwind(t)
      PROVE  IInv' /\ Began
  BY <1>2, StepRunBlock, StepLeave, StepUnwind
<1>3. ASSUME NEW h \in Handles, DisposeDetach(h) \/ DisposeDrop(h)
      PROVE  IInv' /\ Began
  BY <1>3, StepDisposeDetach, StepDisposeDrop
<1>4. CASE \E g \in Signals : Signal(g)
  BY <1>4, StepSignal
<1>5. CASE UNCHANGED vars
  <2>1. UNCHANGED <<stack, mode, flight, budget, blocks, done, handle, os, hurried, exit>> /\ TypeOK
    BY <1>5 DEF vars, IInv
  <2>2. TypeOK' /\ ThreadInv'
    BY <2>1, ThreadsKept DEF IInv, TypeOK
  <2>3. HandleInv'
    BY <2>1, HandlesKept DEF IInv
  <2> QED
    BY <2>1, <2>2, <2>3, NothingBegan DEF IInv
<1> QED
  BY <1>1, <1>2, <1>3, <1>4, <1>5 DEF Next

LEMMA Invariance == Spec => []IInv
<1>1. Init => IInv
  BY InitInv
<1>2. IInv /\ [Next]_vars => IInv'
  BY NextInv
<1> QED
  BY <1>1, <1>2, PTL DEF Spec

\* Every variable keeps its type: a frame, a panic on its way, a handle and the
\* end of the process are always what the runtime knows.
THEOREM TypeCorrect == Spec => []TypeOK
<1>1. IInv => TypeOK
  BY DEF IInv
<1> QED
  BY <1>1, Invariance, PTL

\* Every deferred block of every thread is in one frame until it has run, and in
\* none afterwards: a panic, a return or a recover neither loses a block nor runs
\* it twice (DeferBase and its destructor, src/api/defer.hpp).
THEOREM BlocksRunOnce == Spec => []DeferOnce
<1>1. ASSUME IInv, NEW t \in Threads, NEW i \in 1 .. blocks[t]
      PROVE  IF i \in done[t] THEN Waiting(t, i) = {} ELSE Cardinality(Waiting(t, i)) = 1
  <2>1. PICK s \in Seq(Frames) : s = stack[t] /\ Numbered(s, blocks[t], done[t])
    BY <1>1, StackType, Work DEF IInv
  <2>2. DOMAIN s = 1 .. Len(s) /\ Len(s) \in Nat
    BY <2>1
  <2>3. Waiting(t, i) = {n \in 1 .. Len(s) : i \in Ids(s[n])}
    <3>1. \A n \in 1 .. Len(s) :
            i \in Ids(s[n]) <=> \/ i \in Range(s[n].pending)
                                \/ s[n].kind = "block" /\ s[n].number = i
      BY DEF Ids
    <3> QED
      BY <2>1, <2>2, <3>1 DEF Waiting
  <2>4. CASE i \in done[t]
    BY <2>1, <2>3, <2>4 DEF Numbered
  <2>5. CASE i \notin done[t]
    <3>1. PICK n \in 1 .. Len(s) : i \in Ids(s[n])
      BY <2>1, <2>5 DEF Numbered
    <3>2. ASSUME NEW m \in 1 .. Len(s), i \in Ids(s[m]), m # n PROVE FALSE
      <4>1. m < n \/ n < m
        BY <2>2, <3>2
      <4>2. i < i
        BY <2>1, <3>1, <3>2, <4>1 DEF Numbered
      <4> QED
        BY <4>2
    <3>3. Waiting(t, i) = {n}
      BY <2>3, <3>1, <3>2
    <3>4. Cardinality({n}) = 1
      BY FS_Singleton
    <3> QED
      BY <2>5, <3>3, <3>4
  <2> QED
    BY <2>4, <2>5
<1>2. IInv => DeferOnce
  BY <1>1 DEF DeferOnce
<1> QED
  BY <1>2, Invariance, PTL

\* The blocks of a thread run in reverse order, through all its scopes: when one
\* begins, whatever was deferred after it has run to its end.
THEOREM BlocksReversed == Spec => DeferReverse
<1>1. IInv /\ [Next]_vars =>
        [\A t \in Threads :
           Len(stack'[t]) > Len(stack[t]) /\ Last(stack'[t]).kind = "block" =>
             \A i \in Last(stack'[t]).number + 1 .. blocks[t] : i \in done[t]]_vars
  BY NextInv DEF Began
<1> QED
  BY <1>1, Invariance, PTL DEF Spec, DeferReverse

\* A handle that is disposed alone, in whatever thread and however many there are,
\* never destroys a joinable std::thread: one that finds itself the last stays the
\* last until it has detached, and one that does not leaves another behind.  Only
\* a handle that another one of its std::thread is let go beside, or that is
\* assigned to, does (Thread::dispose, src/std/thread/thread.jule; the handle's
\* drop and operator=, src/std/thread/thread.hpp).
THEOREM LastHandleDetaches == Spec => []LastDetaches
<1>1. ASSUME IInv
      PROVE  LastDetaches
  <2>1. exit.why = "joinable" => exit.how = "assigned" \/ exit.hurried
    BY <1>1 DEF IInv, HandleInv, Excused
  <2>2. ASSUME NEW h \in Handles, handle[h].disposing = "detach"
        PROVE  Active(h) /\ CountOf(Held(h)) = 1
    BY <1>1, <2>2, Counted DEF IInv, HandleInv
  <2> QED
    BY <2>1, <2>2 DEF LastDetaches
<1> QED
  BY <1>1, Invariance, PTL


-----------------------------------------------------------------------------
(* Panics on their way *)

\* Where C++ will catch an exception that is thrown over the first n frames of s.
HomeAt(s, n) ==
  Max({i \in 1 .. n : s[i].kind = "try" /\ \A j \in i .. n : s[j].kind # "block"} \cup {0})

\* What is unwinding knows a panic, with the home h, and nothing else does.
Aims(h, m, fl) ==
  /\ m = "unwind" <=> fl # NoFlight
  /\ m = "unwind" => fl.home = h

\* The blocks in s go on with panics that will be caught below them.
Saved(s) ==
  \A n \in 1 .. Len(s) : s[n].kind = "block" => Aims(HomeAt(s, n - 1), s[n].mode, s[n].flight)

\* Stack s of a thread in mode m, unwinding for fl.
OnCourse(s, m, fl) ==
  /\ Saved(s) /\ Aims(HomeAt(s, Len(s)), m, fl)
  /\ s # << >> => s[1].kind = "body"

PanicInv ==
  /\ \A t \in Threads : OnCourse(stack[t], mode[t], flight[t])
  /\ exit.why = "panic" => exit.home = 0

\* Frame f puts a panic off.
PutsOff(f) == f.kind = "block" /\ f.flight # NoFlight
PutOff(s) == {n \in DOMAIN s : PutsOff(s[n])}

LEMMA HomeIs ==
  ASSUME NEW s \in Seq(Frames)
  PROVE  Home(s) = HomeAt(s, Len(s))
<1>1. DOMAIN s = 1 .. Len(s)
  OBVIOUS
<1> QED
  BY <1>1 DEF Home, HomeAt

\* Only the kinds of the frames matter.
LEMMA HomeSame ==
  ASSUME NEW s, NEW r, NEW n \in Nat, \A i \in 1 .. n : r[i].kind = s[i].kind
  PROVE  HomeAt(r, n) = HomeAt(s, n)
<1>1. ASSUME NEW i \in 1 .. n
      PROVE  (\A j \in i .. n : r[j].kind # "block") <=> (\A j \in i .. n : s[j].kind # "block")
  <2>1. \A j \in i .. n : j \in 1 .. n
    OBVIOUS
  <2> QED
    BY <2>1
<1>2. {i \in 1 .. n : r[i].kind = "try" /\ \A j \in i .. n : r[j].kind # "block"}
        = {i \in 1 .. n : s[i].kind = "try" /\ \A j \in i .. n : s[j].kind # "block"}
  BY <1>1
<1> QED
  BY <1>2 DEF HomeAt

\* The frame on top decides: it catches, it lets none out, or it has no say.
LEMMA HomeOnTop ==
  ASSUME NEW s, NEW n \in Nat, n > 0
  PROVE  /\ s[n].kind = "try" => HomeAt(s, n) = n
         /\ s[n].kind = "block" => HomeAt(s, n) = 0
         /\ s[n].kind \notin {"try", "block"} => HomeAt(s, n) = HomeAt(s, n - 1)
<1> DEFINE open(k) == {i \in 1 .. k : s[i].kind = "try" /\ \A j \in i .. k : s[j].kind # "block"}
<1>1. CASE s[n].kind = "try"
  <2>1. n \in open(n) /\ \A i \in open(n) \cup {0} : i \in Nat /\ i <= n
    BY <1>1
  <2>2. \A x : x \in open(n) \cup {0} /\ (\A y \in open(n) \cup {0} : x >= y) <=> x = n
    <3> HIDE DEF open
    <3>1. ASSUME NEW x \in open(n) \cup {0}, \A y \in open(n) \cup {0} : x >= y PROVE x = n
      BY <2>1, <3>1
    <3> QED
      BY <2>1, <3>1
  <2>3. Max(open(n) \cup {0}) = n
    <3> HIDE DEF open
    <3> QED
      BY <2>2 DEF Max
  <2> QED
    BY <1>1, <2>3 DEF HomeAt
<1>2. CASE s[n].kind = "block"
  <2>1. open(n) = {}
    BY <1>2
  <2>2. Max({} \cup {0}) = 0
    BY DEF Max
  <2> QED
    BY <1>2, <2>1, <2>2 DEF HomeAt
<1>3. CASE s[n].kind \notin {"try", "block"}
  <2>1. ASSUME NEW i PROVE i \in open(n) <=> i \in open(n - 1)
    <3>1. i \in 1 .. n - 1 => i \in 1 .. n /\ \A j \in i .. n : j \in i .. n - 1 \/ j = n
      OBVIOUS
    <3>2. i \in 1 .. n => i \in 1 .. n - 1 \/ i = n
      OBVIOUS
    <3>3. i \in 1 .. n - 1 => \A j \in i .. n - 1 : j \in i .. n
      OBVIOUS
    <3> QED
      BY <1>3, <3>1, <3>2, <3>3
  <2>2. open(n) = open(n - 1)
    <3> HIDE DEF open
    <3> QED
      BY <2>1
  <2> QED
    BY <1>3, <2>2 DEF HomeAt
<1> QED
  BY <1>1, <1>2, <1>3

LEMMA PutOffType ==
  ASSUME NEW s \in Seq(Frames)
  PROVE  PutOff(s) \subseteq 1 .. Len(s) /\ IsFiniteSet(PutOff(s)) /\ Cardinality(PutOff(s)) \in Nat
<1>1. PutOff(s) \subseteq 1 .. Len(s) /\ Len(s) \in Nat
  BY DEF PutOff
<1>2. IsFiniteSet(1 .. Len(s))
  BY <1>1, FS_Interval
<1>3. IsFiniteSet(PutOff(s))
  BY <1>1, <1>2, FS_Subset
<1> QED
  BY <1>1, <1>3, FS_CardinalityType

\* The frame that is the i-th of at.
Nth(at, i) == CHOOSE n \in at : Cardinality({m \in at : m <= n}) = i

LEMMA KeptIs ==
  ASSUME NEW s
  PROVE  Kept(s) = [i \in 1 .. Cardinality(PutOff(s)) |-> s[Nth(PutOff(s), i)].flight]
BY DEF Kept, PutOff, PutsOff, Nth

LEMMA NthBelow ==
  ASSUME NEW at \in SUBSET Nat, IsFiniteSet(at), NEW top \in Nat, \A n \in at : n < top
  PROVE  /\ Cardinality(at) \in Nat /\ Cardinality(at \cup {top}) = Cardinality(at) + 1
         /\ \A i \in 1 .. Cardinality(at) : Nth(at \cup {top}, i) = Nth(at, i)
         /\ Nth(at \cup {top}, Cardinality(at) + 1) = top
<1> DEFINE up == at \cup {top}
           c == Cardinality(at)
           Below(S, n) == {m \in S : m <= n}
<1>1. c \in Nat /\ Cardinality(up) = c + 1
  BY FS_CardinalityType, FS_AddElement
<1>2. \A n \in at : Below(up, n) = Below(at, n) /\ Cardinality(Below(at, n)) <= c
  <2> TAKE n \in at
  <2>1. Below(up, n) = Below(at, n) /\ Below(at, n) \subseteq at
    OBVIOUS
  <2>2. Cardinality(Below(at, n)) <= c
    BY <2>1, FS_Subset
  <2> QED
    BY <2>1, <2>2
<1>3. Below(up, top) = up
  <2>1. \A m \in up : m <= top
    OBVIOUS
  <2> QED
    BY <2>1
<1> HIDE DEF Below
<1>4. ASSUME NEW i \in 1 .. c
      PROVE  \A n : n \in up /\ Cardinality(Below(up, n)) = i <=> n \in at /\ Cardinality(Below(at, n)) = i
  <2>1. Cardinality(Below(up, top)) # i
    BY <1>1, <1>3
  <2> QED
    BY <1>2, <2>1
<1>5. \A i \in 1 .. c : Nth(up, i) = Nth(at, i)
  BY <1>4 DEF Nth, Below
<1>6. \A n : n \in up /\ Cardinality(Below(up, n)) = c + 1 <=> n = top
  <2>1. \A n \in at : Cardinality(Below(up, n)) # c + 1
    <3> TAKE n \in at
    <3>1. IsFiniteSet(Below(at, n))
      BY FS_Subset DEF Below
    <3>2. Cardinality(Below(at, n)) \in Nat
      BY <3>1, FS_CardinalityType
    <3> QED
      BY <1>1, <1>2, <3>2
  <2> QED
    BY <1>1, <1>3, <2>1
<1>7. Nth(up, c + 1) = top
  BY <1>6 DEF Nth, Below
<1> QED
  BY <1>1, <1>5, <1>7

\* Each number up to its cardinality counts a member of at.
LEMMA NthIn ==
  ASSUME NEW at \in SUBSET Nat, IsFiniteSet(at)
  PROVE  \A i \in 1 .. Cardinality(at) : Nth(at, i) \in at
<1> DEFINE c == Cardinality(at)
           Below(n) == {m \in at : m <= n}
           rank == [n \in at |-> Cardinality(Below(n))]
<1>1. c \in Nat
  BY FS_CardinalityType
<1>2. \A n \in at : /\ Below(n) \subseteq at /\ IsFiniteSet(Below(n))
                    /\ Cardinality(Below(n)) \in 1 .. c
  <2> TAKE n \in at
  <2>1. Below(n) \subseteq at /\ n \in Below(n)
    OBVIOUS
  <2> HIDE DEF Below
  <2>2. IsFiniteSet(Below(n)) /\ Cardinality(Below(n)) <= c
    BY <2>1, FS_Subset
  <2>3. Cardinality(Below(n)) \in Nat /\ Cardinality(Below(n)) # 0
    BY <2>1, <2>2, FS_CardinalityType, FS_EmptySet
  <2> QED
    BY <1>1, <2>1, <2>2, <2>3
<1>3. \A n, m \in at : n < m => Cardinality(Below(n)) # Cardinality(Below(m))
  <2> TAKE n, m \in at
  <2> HAVE n < m
  <2>1. Below(n) \subseteq Below(m) /\ m \in Below(m) /\ m \notin Below(n)
    <3>1. n \in Nat /\ m \in Nat /\ \A x \in at : x \in Nat
      OBVIOUS
    <3>2. \A x \in at : x <= n => x <= m
      BY <3>1
    <3>3. m <= m /\ ~(m <= n)
      BY <3>1
    <3> HIDE DEF rank, c
    <3> QED
      BY <3>2, <3>3
  <2> HIDE DEF Below
  <2> QED
    BY <1>2, <2>1, FS_Subset
<1>4. rank \in Injection(at, 1 .. c)
  <2>1. rank \in [at -> 1 .. c]
    <3> HIDE DEF Below, c
    <3> QED
      BY <1>2
  <2>2. \A n, m \in at : rank[n] = rank[m] => n = m
    <3> TAKE n, m \in at
    <3> HIDE DEF rank, Below
    <3>1. n \in Nat /\ m \in Nat
      OBVIOUS
    <3>2. n < m \/ m < n \/ n = m
      BY <3>1
    <3>3. rank[n] = Cardinality(Below(n)) /\ rank[m] = Cardinality(Below(m))
      BY DEF rank
    <3> QED
      BY <1>3, <3>2, <3>3
  <2> HIDE DEF rank, c
  <2> QED
    BY <2>1, <2>2 DEF Injection, IsInjective
<1>5. rank \in Surjection(at, 1 .. c)
  <2>1. IsFiniteSet(1 .. c) /\ Cardinality(1 .. c) = c
    BY <1>1, FS_Interval
  <2> HIDE DEF rank
  <2> QED
    BY <1>4, <2>1, FS_Injection
<1>6. ASSUME NEW i \in 1 .. c
      PROVE  Nth(at, i) \in at
  <2>1. \E n \in at : rank[n] = i
    <3> HIDE DEF rank, c
    <3> QED
      BY <1>5 DEF Surjection
  <2>2. \E n \in at : Cardinality(Below(n)) = i
    <3> HIDE DEF Below
    <3> QED
      BY <2>1
  <2> QED
    BY <2>2 DEF Nth
<1> QED
  BY <1>6

\* Stacks of the same length that put off the same.
LEMMA KeptSame ==
  ASSUME NEW s \in Seq(Frames), NEW r \in Seq(Frames), Len(r) = Len(s),
         \A n \in 1 .. Len(s) : /\ r[n].kind = "block" <=> s[n].kind = "block"
                                /\ s[n].kind = "block" => r[n].flight = s[n].flight
  PROVE  Kept(r) = Kept(s)
<1>1. DOMAIN s = 1 .. Len(s) /\ DOMAIN r = 1 .. Len(s)
  OBVIOUS
<1>2. PutOff(r) = PutOff(s)
  BY <1>1 DEF PutOff, PutsOff
<1>3. \A i \in 1 .. Cardinality(PutOff(s)) : Nth(PutOff(s), i) \in PutOff(s)
  BY PutOffType, NthIn
<1>4. \A n \in PutOff(s) : r[n].flight = s[n].flight
  BY <1>1 DEF PutOff, PutsOff
<1>5. \A i \in 1 .. Cardinality(PutOff(s)) : r[Nth(PutOff(s), i)].flight = s[Nth(PutOff(s), i)].flight
  BY <1>3, <1>4
<1> QED
  BY <1>2, <1>5, KeptIs

\* A frame is put on a stack.
LEMMA KeptAppend ==
  ASSUME NEW s \in Seq(Frames), NEW f \in Frames
  PROVE  /\ Kept(s) \in Seq(Flying)
         /\ Kept(Append(s, f)) = IF PutsOff(f) THEN Append(Kept(s), f.flight) ELSE Kept(s)
<1> DEFINE r == Append(s, f)
           at == PutOff(s)
           c == Cardinality(at)
           top == Len(s) + 1
<1>1. /\ r \in Seq(Frames) /\ Len(r) = Len(s) + 1 /\ Len(s) \in Nat /\ r[Len(s) + 1] = f
      /\ \A n \in 1 .. Len(s) : r[n] = s[n]
      /\ DOMAIN s = 1 .. Len(s) /\ DOMAIN r = 1 .. Len(s) + 1
  OBVIOUS
<1>2. /\ at \in SUBSET Nat /\ IsFiniteSet(at) /\ c \in Nat
      /\ \A n \in at : n \in 1 .. Len(s) /\ n < top
  BY <1>1, PutOffType
<1>3. \A i \in 1 .. c : Nth(at, i) \in at
  BY <1>2, NthIn
<1>4. PutOff(r) = IF PutsOff(f) THEN at \cup {top} ELSE at
  <2> HIDE DEF r
  <2>1. \A n : n \in PutOff(r) <=> n \in at \/ (n = top /\ PutsOff(f))
    <3> TAKE n
    <3>1. n \in 1 .. Len(s) + 1 <=> n \in 1 .. Len(s) \/ n = top
      BY <1>1
    <3>2. n \in PutOff(r) <=> n \in 1 .. Len(s) + 1 /\ PutsOff(r[n])
      BY <1>1 DEF PutOff
    <3>3. n \in at <=> n \in 1 .. Len(s) /\ PutsOff(s[n])
      BY <1>1 DEF PutOff
    <3>4. n \in 1 .. Len(s) => r[n] = s[n]
      BY <1>1
    <3>5. n = top => r[n] = f
      BY <1>1
    <3> HIDE DEF top, at
    <3> QED
      BY <3>1, <3>2, <3>3, <3>4, <3>5
  <2> HIDE DEF at, top
  <2> QED
    BY <2>1
<1> HIDE DEF r, at
<1>5. Kept(s) = [i \in 1 .. c |-> s[Nth(at, i)].flight]
  BY KeptIs DEF at
<1>6. \A i \in 1 .. c : /\ r[Nth(at, i)] = s[Nth(at, i)]
                        /\ s[Nth(at, i)].flight \in Flying
  <2> TAKE i \in 1 .. c
  <2>1. PICK n \in at : n = Nth(at, i)
    BY <1>3
  <2>2. n \in 1 .. Len(s) /\ s[n] \in Frames /\ s[n].kind = "block"
    BY <1>1, <1>2 DEF at, PutOff, PutsOff
  <2> QED
    BY <1>1, <2>1, <2>2, FrameType
<1>7. Kept(s) \in Seq(Flying) /\ Len(Kept(s)) = c
  BY <1>2, <1>5, <1>6
<1>8. CASE PutsOff(f)
  <2>1. /\ Cardinality(PutOff(r)) = c + 1 /\ Nth(PutOff(r), c + 1) = top
        /\ \A i \in 1 .. c : Nth(PutOff(r), i) = Nth(at, i)
    <3>1. top \in Nat /\ PutOff(r) = at \cup {top}
      BY <1>1, <1>4, <1>8
    <3> HIDE DEF top, c
    <3>2. /\ Cardinality(at \cup {top}) = Cardinality(at) + 1
          /\ \A i \in 1 .. Cardinality(at) : Nth(at \cup {top}, i) = Nth(at, i)
          /\ Nth(at \cup {top}, Cardinality(at) + 1) = top
      BY <1>2, <3>1, NthBelow
    <3> QED
      BY <3>1, <3>2 DEF c
  <2>2. Kept(r) = [i \in 1 .. c + 1 |-> r[Nth(PutOff(r), i)].flight]
    BY <2>1, KeptIs
  <2>3. \A i \in 1 .. c + 1 : i \in 1 .. c \/ i = c + 1
    BY <1>2
  <2>4. \A i \in 1 .. c : Kept(r)[i] = Kept(s)[i] /\ i \in 1 .. c + 1
    BY <1>2, <1>5, <1>6, <2>1, <2>2
  <2>5. Kept(r)[c + 1] = f.flight /\ c + 1 \in 1 .. c + 1
    BY <1>1, <1>2, <2>1, <2>2
  <2>6. Kept(r) = [i \in 1 .. c + 1 |-> Kept(r)[i]]
    BY <2>2
  <2>7. /\ Append(Kept(s), f.flight) = [i \in 1 .. c + 1 |-> Append(Kept(s), f.flight)[i]]
        /\ \A i \in 1 .. c : Append(Kept(s), f.flight)[i] = Kept(s)[i]
        /\ Append(Kept(s), f.flight)[c + 1] = f.flight
    BY <1>2, <1>7
  <2>8. \A i \in 1 .. c + 1 : Kept(r)[i] = Append(Kept(s), f.flight)[i]
    BY <2>3, <2>4, <2>5, <2>7
  <2>9. Kept(r) = Append(Kept(s), f.flight)
    BY <2>6, <2>7, <2>8
  <2> QED
    BY <1>7, <1>8, <2>9 DEF r
<1>9. CASE ~PutsOff(f)
  <2>1. Kept(r) = [i \in 1 .. c |-> r[Nth(at, i)].flight]
    BY <1>4, <1>9, KeptIs
  <2>2. Kept(r) = Kept(s)
    BY <1>5, <1>6, <2>1
  <2> QED
    BY <1>7, <1>9, <2>2 DEF r
<1> QED
  BY <1>8, <1>9

\* The panic that a thread is unwinding for, if there is one.
Now(fl) == IF fl = NoFlight THEN << >> ELSE <<fl>>

LEMMA FlightsAre ==
  ASSUME NEW t
  PROVE  Flights(t) = Kept(stack[t]) \o Now(flight[t])
BY DEF Flights, Now

LEMMA FlightsNext ==
  ASSUME NEW t
  PROVE  Flights(t)' = Kept(stack'[t]) \o Now(flight'[t])
BY DEF Flights, Now, Kept

\* What PanicRecovered says of a step, for thread t and for the process.
Met(t) ==
  Flights(t) # Flights(t)' /\ exit' = Running =>
    \/ Len(Flights(t)') > Len(Flights(t)) /\ IsPrefix(Flights(t), Flights(t)')
    \/ /\ Flights(t)' = Front(Flights(t))
       /\ Len(stack'[t]) = Last(Flights(t)).home
       /\ Last(stack'[t]).kind = "handler"

Handled == (\A t \in Threads : Met(t)) /\ (exit'.why = "panic" => exit'.home = 0)

LEMMA Joined ==
  ASSUME NEW q \in Seq(Flying), NEW fl \in Flying
  PROVE  /\ q \o Now(NoFlight) = q
         /\ fl # NoFlight =>
              LET p == q \o Now(fl)
              IN  /\ p = Append(q, fl) /\ Len(p) > Len(q) /\ IsPrefix(q, p)
                  /\ Front(p) = q /\ Last(p) = fl
<1>1. q \o Now(NoFlight) = q
  BY DEF Now
<1>2. ASSUME fl # NoFlight
      PROVE  q \o Now(fl) = Append(q, fl)
  BY <1>2 DEF Now
<1> DEFINE p == Append(q, fl)
<1>3. /\ p \in Seq(Flying) /\ Len(p) = Len(q) + 1 /\ Len(q) \in Nat /\ p[Len(q) + 1] = fl
      /\ \A i \in 1 .. Len(q) : p[i] = q[i]
  OBVIOUS
<1>4. q = [i \in 1 .. Len(q) |-> q[i]]
  OBVIOUS
<1> HIDE DEF p
<1>5. Last(p) = fl
  BY <1>3 DEF Last
<1>6. Front(p) = q /\ SubSeq(p, 1, Len(q)) = q
  <2>1. SubSeq(p, 1, Len(q)) = [i \in 1 .. Len(q) |-> p[i]]
    BY <1>3
  <2>2. [i \in 1 .. Len(q) |-> p[i]] = [i \in 1 .. Len(q) |-> q[i]]
    BY <1>3
  <2>3. Front(p) = SubSeq(p, 1, Len(q))
    BY <1>3 DEF Front
  <2> QED
    BY <1>4, <2>1, <2>2, <2>3
<1>7. SubSeq(q, 1, Len(q)) = q
  OBVIOUS
<1>8. IsPrefix(q, p) /\ Len(p) > Len(q)
  BY <1>3, <1>6, <1>7 DEF IsPrefix
<1> QED
  BY <1>1, <1>2, <1>5, <1>6, <1>8 DEF p

LEMMA SavedSame ==
  ASSUME NEW s \in Seq(Frames), NEW r \in Seq(Frames), Len(r) = Len(s), Saved(s),
         \A n \in 1 .. Len(s) :
            /\ r[n].kind = s[n].kind
            /\ s[n].kind = "block" => r[n].mode = s[n].mode /\ r[n].flight = s[n].flight
  PROVE  Saved(r) /\ HomeAt(r, Len(r)) = HomeAt(s, Len(s)) /\ Kept(r) = Kept(s)
<1>1. Len(s) \in Nat
  OBVIOUS
<1>2. \A n \in 0 .. Len(s) : HomeAt(r, n) = HomeAt(s, n)
  <2> TAKE n \in 0 .. Len(s)
  <2>1. \A i \in 1 .. n : i \in 1 .. Len(s)
    BY <1>1
  <2> QED
    BY <2>1, HomeSame
<1>3. \A n \in 1 .. Len(s) : n - 1 \in 0 .. Len(s)
  BY <1>1
<1>4. Saved(r)
  BY <1>2, <1>3 DEF Saved
<1>5. Kept(r) = Kept(s)
  BY KeptSame
<1> QED
  BY <1>1, <1>2, <1>4, <1>5

LEMMA SavedAppend ==
  ASSUME NEW s \in Seq(Frames), NEW f \in Frames, Saved(s),
         f.kind = "block" => Aims(HomeAt(s, Len(s)), f.mode, f.flight)
  PROVE  Saved(Append(s, f))
<1> DEFINE r == Append(s, f)
<1>1. /\ r \in Seq(Frames) /\ Len(r) = Len(s) + 1 /\ Len(s) \in Nat /\ r[Len(s) + 1] = f
      /\ \A n \in 1 .. Len(s) : r[n] = s[n]
  OBVIOUS
<1> HIDE DEF r
<1>2. \A n \in 0 .. Len(s) : HomeAt(r, n) = HomeAt(s, n)
  <2> TAKE n \in 0 .. Len(s)
  <2>1. \A i \in 1 .. n : i \in 1 .. Len(s)
    BY <1>1
  <2> QED
    BY <1>1, <2>1, HomeSame
<1>3. ASSUME NEW n \in 1 .. Len(r), r[n].kind = "block"
      PROVE  Aims(HomeAt(r, n - 1), r[n].mode, r[n].flight)
  <2>1. n \in 1 .. Len(s) \/ n = Len(s) + 1
    BY <1>1
  <2>2. n - 1 \in 0 .. Len(s) /\ HomeAt(r, n - 1) = HomeAt(s, n - 1)
    BY <1>1, <1>2
  <2>3. CASE n \in 1 .. Len(s)
    BY <1>1, <1>3, <2>2, <2>3 DEF Saved
  <2>4. CASE n = Len(s) + 1
    <3>1. n - 1 = Len(s) /\ r[n] = f
      BY <1>1, <2>4
    <3> QED
      BY <1>3, <2>2, <3>1
  <2> QED
    BY <2>1, <2>3, <2>4
<1> QED
  BY <1>3 DEF Saved, r

LEMMA SavedFront ==
  ASSUME NEW s \in Seq(Frames), s # << >>, Saved(s)
  PROVE  /\ Saved(Front(s)) /\ Kept(Front(s)) \in Seq(Flying)
         /\ HomeAt(Front(s), Len(Front(s))) = HomeAt(s, Len(s) - 1)
         /\ Last(s).kind = "block" =>
              Aims(HomeAt(Front(s), Len(Front(s))), Last(s).mode, Last(s).flight)
         /\ Kept(s) = IF PutsOff(Last(s)) THEN Append(Kept(Front(s)), Last(s).flight)
                                          ELSE Kept(Front(s))
<1> DEFINE r == Front(s)
           f == Last(s)
<1>1. /\ r \in Seq(Frames) /\ Len(s) \in Nat /\ Len(s) \in 1 .. Len(s) /\ Len(r) = Len(s) - 1
      /\ \A n \in 1 .. Len(s) - 1 : r[n] = s[n]
      /\ s[Len(s)] = f /\ f \in Frames
  BY FrontOf
<1>2. s = Append(r, f)
  <2>1. Append(r, f) \in Seq(Frames) /\ Len(Append(r, f)) = Len(s)
    BY <1>1
  <2>2. \A n \in 1 .. Len(s) : Append(r, f)[n] = s[n]
    <3> TAKE n \in 1 .. Len(s)
    <3>1. n \in 1 .. Len(s) - 1 \/ n = Len(s)
      BY <1>1
    <3> HIDE DEF r, f
    <3> QED
      BY <1>1, <3>1
  <2>3. s = [n \in 1 .. Len(s) |-> s[n]]
    OBVIOUS
  <2>4. Append(r, f) = [n \in 1 .. Len(s) |-> Append(r, f)[n]]
    <3>1. \A q \in Seq(Frames) : q = [n \in 1 .. Len(q) |-> q[n]]
      OBVIOUS
    <3> HIDE DEF r, f
    <3> QED
      BY <2>1, <3>1, Zenon
  <2> HIDE DEF r, f
  <2> QED
    BY <2>2, <2>3, <2>4
<1> HIDE DEF r, f
<1>3. \A n \in 0 .. Len(r) : HomeAt(r, n) = HomeAt(s, n)
  <2> TAKE n \in 0 .. Len(r)
  <2>1. n \in Nat /\ \A i \in 1 .. n : i \in 1 .. Len(s) - 1
    BY <1>1
  <2> QED
    BY <1>1, <2>1, HomeSame
<1>4. Len(r) \in 0 .. Len(r)
  BY <1>1
<1>5. Saved(r)
  <2>1. \A n \in 1 .. Len(r) : n - 1 \in 0 .. Len(r) /\ n \in 1 .. Len(s) /\ r[n] = s[n]
    BY <1>1
  <2> QED
    BY <1>3, <2>1 DEF Saved
<1>6. f.kind = "block" => Aims(HomeAt(s, Len(s) - 1), f.mode, f.flight)
  BY <1>1 DEF Saved
<1>7. HomeAt(r, Len(r)) = HomeAt(s, Len(s) - 1)
  BY <1>1, <1>3, <1>4
<1>8. /\ Kept(r) \in Seq(Flying)
      /\ Kept(s) = IF PutsOff(f) THEN Append(Kept(r), f.flight) ELSE Kept(r)
  BY <1>1, <1>2, KeptAppend
<1> QED
  BY <1>5, <1>6, <1>7, <1>8 DEF r, f

\* Thread t takes a step of its own.
LEMMA PanicStep ==
  ASSUME PanicInv, NEW t \in Threads, exit' = exit,
         \A u \in Threads \ {t} : /\ stack'[u] = stack[u] /\ mode'[u] = mode[u]
                                  /\ flight'[u] = flight[u],
         OnCourse(stack'[t], mode'[t], flight'[t]), Met(t)
  PROVE  PanicInv' /\ Handled
<1>1. ASSUME NEW u \in Threads, u # t
      PROVE  OnCourse(stack'[u], mode'[u], flight'[u]) /\ Met(u)
  <2>1. OnCourse(stack'[u], mode'[u], flight'[u])
    BY <1>1 DEF PanicInv
  <2>2. Flights(u)' = Flights(u)
    BY <1>1, FlightsAre, FlightsNext
  <2> QED
    BY <2>1, <2>2 DEF Met
<1>2. \A u \in Threads : OnCourse(stack'[u], mode'[u], flight'[u]) /\ Met(u)
  BY <1>1
<1> QED
  BY <1>2 DEF PanicInv, Handled

\* ... and raises and recovers nothing.
LEMMA QuietStep ==
  ASSUME PanicInv, NEW t \in Threads, exit' = exit,
         \A u \in Threads \ {t} : /\ stack'[u] = stack[u] /\ mode'[u] = mode[u]
                                  /\ flight'[u] = flight[u],
         OnCourse(stack'[t], mode'[t], flight'[t]),
         Kept(stack'[t]) \o Now(flight'[t]) = Kept(stack[t]) \o Now(flight[t])
  PROVE  PanicInv' /\ Handled
<1>1. Flights(t)' = Flights(t)
  BY FlightsAre, FlightsNext
<1>2. Met(t)
  BY <1>1 DEF Met
<1> QED
  BY <1>2, PanicStep

LEMMA PanicExit ==
  ASSUME NEW w, w.why # "running", w.why = "panic" => w.home = 0, Exit(w)
  PROVE  PanicInv' /\ Handled
<1>1. /\ exit' = w
      /\ stack' = [t \in Threads |-> << >>] /\ mode' = [t \in Threads |-> "new"]
      /\ flight' = [t \in Threads |-> NoFlight]
  BY DEF Exit, NoStack, NoMode, NoFlights
<1>2. OnCourse(<< >>, "new", NoFlight)
  <2>1. Len(<< >>) = 0
    OBVIOUS
  <2> QED
    BY <2>1 DEF OnCourse, Saved, Aims
<1>3. PanicInv'
  BY <1>1, <1>2 DEF PanicInv
<1>4. exit' # Running
  BY <1>1 DEF Running
<1> QED
  BY <1>1, <1>3, <1>4 DEF Handled, Met

\* No thread's frames are concerned.
LEMMA PanicKept ==
  ASSUME PanicInv, UNCHANGED <<stack, mode, flight, exit>>
  PROVE  PanicInv' /\ Handled
<1>1. \A t \in Threads : Flights(t)' = Flights(t)
  BY FlightsAre, FlightsNext
<1>2. PanicInv'
  BY DEF PanicInv
<1>3. exit'.why = "panic" => exit'.home = 0
  BY DEF PanicInv
<1> QED
  BY <1>1, <1>2, <1>3 DEF Handled, Met

\* Thread t as the steps find it.
LEMMA Course ==
  ASSUME IInv, PanicInv, NEW t \in Threads
  PROVE  /\ stack[t] \in Seq(Frames) /\ Len(stack[t]) \in Nat
         /\ Saved(stack[t]) /\ Kept(stack[t]) \in Seq(Flying)
         /\ stack[t] # << >> => stack[t][1].kind = "body"
         /\ flight[t] \in Flying
         /\ mode[t] # "unwind" => flight[t] = NoFlight
         /\ mode[t] = "unwind" => flight[t] # NoFlight /\ flight[t].home = Home(stack[t])
         /\ mode[t] \in {"run", "leave", "unwind"} => stack[t] # << >>
<1>1. TypeOK /\ ThreadInv
  BY DEF IInv
<1>2. stack[t] \in Seq(Frames) /\ Len(stack[t]) \in Nat /\ flight[t] \in Flying
  BY <1>1, StackType DEF TypeOK
<1>3. OnCourse(stack[t], mode[t], flight[t])
  BY DEF PanicInv
<1>4. Kept(stack[t]) \in Seq(Flying)
  <2>1. Frame("body") \in Frames
    BY FrameOpens
  <2> QED
    BY <1>2, <2>1, KeptAppend
<1>5. Home(stack[t]) = HomeAt(stack[t], Len(stack[t]))
  BY <1>2, HomeIs
<1> QED
  BY <1>1, <1>2, <1>3, <1>4, <1>5, Work DEF OnCourse, Aims

LEMMA PanicEnter ==
  ASSUME IInv, PanicInv, NEW t \in Threads, NEW k \in {"body", "try"}, Enter(t, k)
  PROVE  PanicInv' /\ Handled
<1>1. mode[t] = "run" /\ TypeOK
  BY DEF Enter, Runs, IInv
<1>2. /\ stack' = [stack EXCEPT ![t] = Append(stack[t], Frame(k))]
      /\ UNCHANGED <<mode, flight, exit>>
  BY DEF Enter
<1>3. PICK s \in Seq(Frames) : s = stack[t]
  BY <1>1, StackType
<1>4. /\ Saved(s) /\ Kept(s) \in Seq(Flying) /\ s # << >> /\ s[1].kind = "body"
      /\ flight[t] = NoFlight
  BY <1>1, <1>3, Course
<1>5. /\ Frame(k) \in Frames /\ Frame(k).kind # "block" /\ ~PutsOff(Frame(k))
  BY FrameOpens DEF PutsOff
<1>6. Saved(Append(s, Frame(k))) /\ Kept(Append(s, Frame(k))) = Kept(s)
  BY <1>4, <1>5, SavedAppend, KeptAppend
<1>7. Append(s, Frame(k))[1] = s[1]
  BY <1>4
<1>8. stack'[t] = Append(s, Frame(k)) /\ \A u \in Threads \ {t} : stack'[u] = stack[u]
  BY <1>1, <1>2, <1>3 DEF TypeOK
<1>9. OnCourse(stack'[t], mode'[t], flight'[t])
  BY <1>1, <1>2, <1>4, <1>6, <1>7, <1>8 DEF OnCourse, Aims
<1> QED
  BY <1>2, <1>3, <1>6, <1>8, <1>9, QuietStep

LEMMA PanicDefer ==
  ASSUME IInv, PanicInv, NEW t \in Threads, Defer(t)
  PROVE  PanicInv' /\ Handled
<1>1. mode[t] = "run" /\ TypeOK
  BY DEF Defer, Runs, IInv
<1>2. /\ stack' = [stack EXCEPT ![t] = Deferred(stack[t], blocks[t])]
      /\ UNCHANGED <<mode, flight, exit>>
  BY DEF Defer, Deferred
<1>3. PICK s \in Seq(Frames), b \in Nat : s = stack[t] /\ b = blocks[t]
  BY <1>1, StackType DEF TypeOK
<1>4. /\ Saved(s) /\ s # << >> /\ s[1].kind = "body" /\ flight[t] = NoFlight
  BY <1>1, <1>3, Course
<1>5. Len(s) \in Nat /\ Len(s) \in 1 .. Len(s) /\ 1 \in 1 .. Len(s) /\ s[Len(s)] \in Frames
  BY <1>4, FrontOf
<1>6. PICK g \in Frames : /\ g = [s[Len(s)] EXCEPT !.pending = Append(s[Len(s)].pending, b + 1)]
                          /\ g.kind = s[Len(s)].kind
                          /\ s[Len(s)].kind = "block" => /\ g.mode = s[Len(s)].mode
                                                         /\ g.flight = s[Len(s)].flight
  <2>1. s[Len(s)].pending \in Seq(Nat)
    BY <1>5, FrameType
  <2>2. Append(s[Len(s)].pending, b + 1) \in Seq(Nat)
    BY <2>1
  <2> QED
    BY <1>5, <2>2, PendingSet
<1>7. PICK r \in Seq(Frames) :
        /\ r = Deferred(s, b) /\ Len(r) = Len(s)
        /\ \A n \in 1 .. Len(s) :
             /\ r[n].kind = s[n].kind
             /\ s[n].kind = "block" => r[n].mode = s[n].mode /\ r[n].flight = s[n].flight
  <2>1. Deferred(s, b) = [s EXCEPT ![Len(s)] = g]
    BY <1>6 DEF Deferred
  <2>2. /\ [s EXCEPT ![Len(s)] = g] \in Seq(Frames) /\ Len([s EXCEPT ![Len(s)] = g]) = Len(s)
        /\ \A n \in 1 .. Len(s) : [s EXCEPT ![Len(s)] = g][n] = IF n = Len(s) THEN g ELSE s[n]
    BY <1>5
  <2>3. PICK r \in Seq(Frames) : r = Deferred(s, b) /\ r = [s EXCEPT ![Len(s)] = g]
    BY <2>1, <2>2
  <2>4. Len(r) = Len(s) /\ \A n \in 1 .. Len(s) : r[n] = IF n = Len(s) THEN g ELSE s[n]
    BY <2>2, <2>3
  <2> QED
    BY <1>6, <2>3, <2>4
<1>8. Saved(r) /\ Kept(r) = Kept(s) /\ r[1].kind = "body"
  BY <1>4, <1>5, <1>7, SavedSame
<1>9. stack'[t] = r /\ \A u \in Threads \ {t} : stack'[u] = stack[u]
  BY <1>1, <1>2, <1>3, <1>7 DEF TypeOK
<1>10. OnCourse(stack'[t], mode'[t], flight'[t])
  BY <1>1, <1>2, <1>4, <1>8, <1>9 DEF OnCourse, Aims
<1> QED
  BY <1>2, <1>3, <1>8, <1>9, <1>10, QuietStep

LEMMA PanicReturn ==
  ASSUME IInv, PanicInv, NEW t \in Threads, Return(t)
  PROVE  PanicInv' /\ Handled
<1>1. mode[t] = "run" /\ TypeOK
  BY DEF Return, Runs, IInv
<1>2. mode' = [mode EXCEPT ![t] = "leave"] /\ UNCHANGED <<stack, flight, exit>>
  BY DEF Return
<1>3. mode'[t] = "leave" /\ \A u \in Threads \ {t} : mode'[u] = mode[u]
  BY <1>1, <1>2 DEF TypeOK
<1>4. OnCourse(stack'[t], mode'[t], flight'[t])
  BY <1>1, <1>2, <1>3, Course DEF OnCourse, Aims
<1> QED
  BY <1>2, <1>3, <1>4, QuietStep

LEMMA PanicRaise ==
  ASSUME IInv, PanicInv, NEW t \in Threads, NEW m \in Messages, Raise(t, m)
  PROVE  PanicInv' /\ Handled
<1>1. mode[t] = "run" /\ TypeOK
  BY DEF Raise, Runs, IInv
<1>2. CASE Home(stack[t]) = 0 /\ Terminate(Home(stack[t]))
  <2> DEFINE w == [why |-> "panic", home |-> Home(stack[t])]
  <2>1. w.why = "panic" /\ w.home = 0 /\ Exit(w)
    BY <1>2 DEF Terminate
  <2> HIDE DEF w
  <2> QED
    BY <2>1, PanicExit
<1>3. CASE /\ mode' = [mode EXCEPT ![t] = "unwind"]
           /\ flight' = [flight EXCEPT ![t] = [home |-> Home(stack[t]), message |-> m]]
           /\ UNCHANGED <<stack, budget, blocks, done, handleVars, exit>>
  <2>1. PICK fl \in Flying : /\ fl = [home |-> Home(stack[t]), message |-> m]
                             /\ fl # NoFlight /\ fl.home = Home(stack[t])
    <3> DEFINE e == [home |-> Home(stack[t]), message |-> m]
    <3>1. e \in Flying /\ e.home = Home(stack[t])
      BY <1>1, StackType, HomeType DEF Flying
    <3>2. e # NoFlight
      <4>1. DOMAIN e = {"home", "message"} /\ DOMAIN NoFlight = {"home"}
        BY DEF NoFlight
      <4>2. "message" \in DOMAIN e /\ "message" \notin DOMAIN NoFlight
        BY <4>1
      <4> QED
        BY <4>2
    <3> QED
      BY <3>1, <3>2
  <2>2. flight'[t] = fl /\ mode'[t] = "unwind"
    BY <1>1, <1>3, <2>1 DEF TypeOK
  <2>3. \A u \in Threads \ {t} : mode'[u] = mode[u] /\ flight'[u] = flight[u]
    BY <1>1, <1>3 DEF TypeOK
  <2>4. PICK s \in Seq(Frames) : s = stack[t]
    BY <1>1, StackType
  <2>5. /\ Saved(s) /\ Kept(s) \in Seq(Flying) /\ s # << >> /\ s[1].kind = "body"
        /\ flight[t] = NoFlight
    BY <1>1, <2>4, Course
  <2>6. OnCourse(stack'[t], mode'[t], flight'[t])
    BY <1>3, <2>1, <2>2, <2>4, <2>5, HomeIs DEF OnCourse, Aims
  <2>7. Flights(t) = Kept(s) /\ Flights(t)' = Kept(s) \o Now(fl)
    <3>1. Kept(s) \o Now(NoFlight) = Kept(s)
      BY <2>1, <2>5, Joined
    <3> QED
      BY <1>3, <2>2, <2>4, <2>5, <3>1, FlightsAre, FlightsNext
  <2>8. Met(t)
    <3>1. Len(Kept(s) \o Now(fl)) > Len(Kept(s)) /\ IsPrefix(Kept(s), Kept(s) \o Now(fl))
      BY <2>1, <2>5, Joined
    <3> QED
      BY <2>7, <3>1 DEF Met
  <2> QED
    BY <1>3, <2>3, <2>6, <2>8, PanicStep
<1>4. \/ /\ mode' = [mode EXCEPT ![t] = "unwind"]
         /\ flight' = [flight EXCEPT ![t] = [home |-> Home(stack[t]), message |-> m]]
         /\ UNCHANGED <<stack, budget, blocks, done, handleVars, exit>>
      \/ /\ Home(stack[t]) = 0
         /\ Terminate(Home(stack[t]))
  BY Zenon DEF Raise
<1> QED
  BY <1>2, <1>3, <1>4

\* Thread u starts.
LEMMA PanicStart ==
  ASSUME IInv, PanicInv, NEW u \in Threads, mode[u] = "new",
         stack' = [stack EXCEPT ![u] = <<Frame("body")>>],
         mode' = [mode EXCEPT ![u] = "run"], UNCHANGED <<flight, exit>>
  PROVE  PanicInv' /\ Handled
<1>1. TypeOK /\ stack[u] = << >> /\ flight[u] = NoFlight
  BY Work, Course DEF IInv
<1>2. PICK s \in Seq(Frames) : s = << >> /\ Len(s) = 0
  <2>1. << >> \in Seq(Frames) /\ Len(<< >>) = 0
    OBVIOUS
  <2> QED
    BY <2>1
<1>3. Frame("body") \in Frames /\ Frame("body").kind = "body" /\ ~PutsOff(Frame("body"))
  BY FrameOpens DEF PutsOff
<1>4. PICK r \in Seq(Frames) : r = <<Frame("body")>> /\ r = Append(s, Frame("body")) /\ r[1].kind = "body"
  <2>1. \A f \in Frames : <<f>> \in Seq(Frames) /\ <<f>> = Append(<< >>, f) /\ <<f>>[1] = f
    OBVIOUS
  <2> QED
    BY <1>2, <1>3, <2>1, Zenon
<1>5. Saved(s)
  BY <1>2 DEF Saved
<1>6. Saved(r) /\ Kept(r) = Kept(s)
  BY <1>3, <1>4, <1>5, SavedAppend, KeptAppend
<1>7. stack'[u] = r /\ mode'[u] = "run"
  BY <1>1, <1>4 DEF TypeOK
<1>8. \A v \in Threads \ {u} : stack'[v] = stack[v] /\ mode'[v] = mode[v]
  BY <1>1 DEF TypeOK
<1>9. OnCourse(stack'[u], mode'[u], flight'[u])
  BY <1>1, <1>4, <1>6, <1>7 DEF OnCourse, Aims
<1>10. Kept(stack'[u]) \o Now(flight'[u]) = Kept(stack[u]) \o Now(flight[u])
  BY <1>1, <1>2, <1>6, <1>7
<1> QED
  BY <1>8, <1>9, <1>10, QuietStep

LEMMA PanicRunBlock ==
  ASSUME IInv, PanicInv, NEW t \in Threads, RunBlock(t)
  PROVE  PanicInv' /\ Handled
<1>1. mode[t] \in {"leave", "unwind"} /\ TypeOK /\ Top(t).pending # << >>
  BY DEF RunBlock, IInv
<1>2. PICK s \in Seq(Frames) : s = stack[t]
  BY <1>1, StackType
<1>3. /\ Saved(s) /\ s # << >> /\ s[1].kind = "body" /\ Kept(s) \in Seq(Flying)
      /\ flight[t] \in Flying /\ Aims(HomeAt(s, Len(s)), mode[t], flight[t])
  BY <1>1, <1>2, Course DEF PanicInv, OnCourse
<1>4. /\ Len(s) \in Nat /\ Len(s) \in 1 .. Len(s) /\ 1 \in 1 .. Len(s) /\ s[Len(s)] \in Frames
      /\ s[Len(s)] = Top(t)
  <2>1. Top(t) = Last(s)
    BY <1>2 DEF Top
  <2>2. Last(s) = s[Len(s)] /\ Len(s) \in 1 .. Len(s) /\ Last(s) \in Frames
    BY <1>3, FrontOf
  <2>3. Len(s) \in Nat
    OBVIOUS
  <2>4. 1 \in 1 .. Len(s)
    BY <2>2, <2>3
  <2> QED
    BY <2>1, <2>2, <2>3, <2>4
<1>5. s[Len(s)].pending \in Seq(Nat) /\ s[Len(s)].pending # << >>
  BY <1>1, <1>4, FrameType
<1>6. PICK g \in Frames : /\ g = [s[Len(s)] EXCEPT !.pending = Front(s[Len(s)].pending)]
                          /\ g.kind = s[Len(s)].kind
                          /\ s[Len(s)].kind = "block" => /\ g.mode = s[Len(s)].mode
                                                         /\ g.flight = s[Len(s)].flight
  <2>1. Front(s[Len(s)].pending) \in Seq(Nat)
    BY <1>5, FrontOf
  <2> QED
    BY <1>4, <2>1, PendingSet
<1>7. PICK q \in Seq(Frames) :
        /\ q = [s EXCEPT ![Len(s)] = g] /\ Len(q) = Len(s)
        /\ \A n \in 1 .. Len(s) :
             /\ q[n].kind = s[n].kind
             /\ s[n].kind = "block" => q[n].mode = s[n].mode /\ q[n].flight = s[n].flight
  <2>1. /\ [s EXCEPT ![Len(s)] = g] \in Seq(Frames) /\ Len([s EXCEPT ![Len(s)] = g]) = Len(s)
        /\ \A n \in 1 .. Len(s) : [s EXCEPT ![Len(s)] = g][n] = IF n = Len(s) THEN g ELSE s[n]
    BY <1>4
  <2>2. PICK q \in Seq(Frames) : q = [s EXCEPT ![Len(s)] = g]
    BY <2>1
  <2>3. Len(q) = Len(s) /\ \A n \in 1 .. Len(s) : q[n] = IF n = Len(s) THEN g ELSE s[n]
    BY <2>1, <2>2
  <2> QED
    BY <1>6, <2>2, <2>3
<1>8. /\ Saved(q) /\ HomeAt(q, Len(q)) = HomeAt(s, Len(s)) /\ Kept(q) = Kept(s)
      /\ q[1].kind = "body" /\ q # << >>
  <2>1. Saved(q) /\ HomeAt(q, Len(q)) = HomeAt(s, Len(s)) /\ Kept(q) = Kept(s)
    BY <1>3, <1>7, SavedSame
  <2>2. q[1].kind = "body"
    BY <1>3, <1>4, <1>7
  <2>3. Len(q) \in 1 .. Len(q) /\ Len(q) \in Nat
    BY <1>4, <1>7
  <2>4. Len(q) # 0
    BY <2>3
  <2> QED
    BY <2>1, <2>2, <2>4
<1>9. PICK f \in Frames :
        /\ f = [kind |-> "block", pending |-> << >>, number |-> Last(Top(t).pending),
                mode |-> mode[t], flight |-> flight[t]]
        /\ f.kind = "block" /\ f.mode = mode[t] /\ f.flight = flight[t]
  <2> DEFINE e == [kind |-> "block", pending |-> << >>, number |-> Last(Top(t).pending),
                   mode |-> mode[t], flight |-> flight[t]]
  <2>1. Last(Top(t).pending) \in Nat /\ << >> \in Seq(Nat)
    <3>1. PICK p \in Seq(Nat) : p = Top(t).pending /\ p # << >>
      BY <1>4, <1>5
    <3>2. Last(p) \in Nat
      BY <3>1, FrontOf
    <3> QED
      BY <3>1, <3>2
  <2>2. e \in Blocks
    BY <1>1, <1>3, <2>1 DEF Blocks
  <2>3. e \in Frames /\ e.kind = "block" /\ e.mode = mode[t] /\ e.flight = flight[t]
    BY <2>2 DEF Frames
  <2> QED
    BY <2>3
<1>10. PICK r : r = Append(q, f)
  OBVIOUS
<1>11. /\ stack' = [stack EXCEPT ![t] = r]
       /\ mode' = [mode EXCEPT ![t] = "run"]
       /\ flight' = [flight EXCEPT ![t] = NoFlight]
       /\ UNCHANGED exit
  <2>1. stack' = [stack EXCEPT ![t] = Append([s EXCEPT ![Len(s)].pending = Front(@)], f)]
    BY <1>2, <1>9 DEF RunBlock
  <2>2. [s EXCEPT ![Len(s)].pending = Front(@)] = q
    BY <1>6, <1>7
  <2> QED
    BY <1>10, <2>1, <2>2 DEF RunBlock
<1>12. /\ Saved(r) /\ r[1].kind = "body"
       /\ Kept(r) = IF flight[t] # NoFlight THEN Append(Kept(s), flight[t]) ELSE Kept(s)
  <2>1. Saved(r)
    BY <1>3, <1>7, <1>8, <1>9, <1>10, SavedAppend
  <2>2. Append(q, f)[1] = q[1]
    BY <1>8
  <2>3. Kept(Append(q, f)) = IF PutsOff(f) THEN Append(Kept(q), f.flight) ELSE Kept(q)
    BY KeptAppend
  <2> QED
    BY <1>8, <1>9, <1>10, <2>1, <2>2, <2>3 DEF PutsOff
<1>13. stack'[t] = r /\ mode'[t] = "run" /\ flight'[t] = NoFlight
  BY <1>1, <1>11 DEF TypeOK
<1>14. \A u \in Threads \ {t} : stack'[u] = stack[u] /\ mode'[u] = mode[u] /\ flight'[u] = flight[u]
  BY <1>1, <1>11 DEF TypeOK
<1>15. OnCourse(r, "run", NoFlight)
  BY <1>12 DEF OnCourse, Aims
<1>16. Kept(r) \o Now(NoFlight) = Kept(s) \o Now(flight[t])
  <2>1. Kept(r) \in Seq(Flying)
    BY <1>3, <1>12
  <2>2. Kept(r) \o Now(NoFlight) = Kept(r)
    BY <1>3, <2>1, Joined
  <2>3. Kept(s) \o Now(NoFlight) = Kept(s)
    BY <1>3, Joined
  <2>4. flight[t] # NoFlight => Kept(s) \o Now(flight[t]) = Append(Kept(s), flight[t])
    BY <1>3, Joined
  <2> QED
    BY <1>12, <2>2, <2>3, <2>4
<1> QED
  BY <1>2, <1>11, <1>13, <1>14, <1>15, <1>16, QuietStep

\* The frame on top of a stack goes.
LEMMA PanicPopped ==
  ASSUME IInv, PanicInv, NEW t \in Threads, stack[t] # << >>
  PROVE  LET s == Front(stack[t])
         IN  /\ s \in Seq(Frames) /\ Saved(s) /\ Kept(s) \in Seq(Flying)
             /\ Top(t) \in Frames
             /\ s # << >> => s[1].kind = "body"
             /\ Len(stack[t]) = 1 => Top(t).kind = "body" /\ s = << >>
             /\ Top(t).kind = "block" => Aims(HomeAt(s, Len(s)), Top(t).mode, Top(t).flight)
             /\ Kept(stack[t]) = IF PutsOff(Top(t)) THEN Append(Kept(s), Top(t).flight) ELSE Kept(s)
             /\ Top(t).kind = "try" => Home(stack[t]) = Len(stack[t])
             /\ Top(t).kind = "block" => Home(stack[t]) = 0
             /\ Top(t).kind \notin {"try", "block"} => Home(stack[t]) = HomeAt(s, Len(s))
<1>1. PICK s \in Seq(Frames) : s = stack[t] /\ Saved(s) /\ s # << >> /\ s[1].kind = "body"
  BY Course
<1>2. /\ Front(s) \in Seq(Frames) /\ Len(Front(s)) = Len(s) - 1 /\ Len(s) \in Nat
      /\ Len(s) \in 1 .. Len(s) /\ \A i \in 1 .. Len(s) - 1 : Front(s)[i] = s[i]
      /\ Last(s) = s[Len(s)] /\ Last(s) \in Frames
  BY <1>1, FrontOf
<1>3. Front(s) # << >> => Front(s)[1].kind = "body"
  <2>1. Front(s) # << >> => Len(Front(s)) # 0
    BY <1>2
  <2>2. Len(Front(s)) # 0 => 1 \in 1 .. Len(s) - 1
    BY <1>2
  <2> QED
    BY <1>1, <1>2, <2>1, <2>2
<1>4. Len(s) = 1 => Front(s) = << >> /\ Last(s).kind = "body"
  <2>1. Len(s) = 1 => Len(Front(s)) = 0
    BY <1>2
  <2> QED
    BY <1>1, <1>2, <2>1
<1>5. /\ Saved(Front(s)) /\ Kept(Front(s)) \in Seq(Flying)
      /\ HomeAt(Front(s), Len(Front(s))) = HomeAt(s, Len(s) - 1)
      /\ Last(s).kind = "block" =>
           Aims(HomeAt(Front(s), Len(Front(s))), Last(s).mode, Last(s).flight)
      /\ Kept(s) = IF PutsOff(Last(s)) THEN Append(Kept(Front(s)), Last(s).flight)
                                       ELSE Kept(Front(s))
  BY <1>1, SavedFront
<1>6. Home(s) = HomeAt(s, Len(s)) /\ Len(s) > 0
  BY <1>1, <1>2, HomeIs
<1>7. /\ s[Len(s)].kind = "try" => Home(s) = Len(s)
      /\ s[Len(s)].kind = "block" => Home(s) = 0
      /\ s[Len(s)].kind \notin {"try", "block"} => Home(s) = HomeAt(s, Len(s) - 1)
  BY <1>2, <1>6, HomeOnTop
<1> QED
  BY <1>1, <1>2, <1>3, <1>4, <1>5, <1>7 DEF Top

LEMMA PanicLeave ==
  ASSUME IInv, PanicInv, NEW t \in Threads, Leave(t)
  PROVE  PanicInv' /\ Handled
<1>1. mode[t] = "leave" /\ TypeOK /\ stack[t] # << >> /\ flight[t] = NoFlight
  BY Course DEF Leave, IInv
<1>2. PICK s \in Seq(Frames), f \in Frames : s = Front(stack[t]) /\ f = Top(t)
  BY <1>1, PanicPopped
<1>3. /\ Saved(s) /\ Kept(s) \in Seq(Flying)
      /\ s # << >> => s[1].kind = "body"
      /\ Len(stack[t]) = 1 => f.kind = "body" /\ s = << >>
      /\ f.kind = "block" => Aims(HomeAt(s, Len(s)), f.mode, f.flight)
      /\ Kept(stack[t]) = IF PutsOff(f) THEN Append(Kept(s), f.flight) ELSE Kept(s)
  BY <1>1, <1>2, PanicPopped
<1>4. Kept(stack[t]) \o Now(flight[t]) = Kept(stack[t])
  <2>1. Kept(stack[t]) \in Seq(Flying) /\ flight[t] \in Flying
    BY Course
  <2> QED
    BY <1>1, <2>1, Joined
<1>5. CASE /\ f.kind = "block"
           /\ mode' = [mode EXCEPT ![t] = f.mode]
           /\ flight' = [flight EXCEPT ![t] = f.flight]
           /\ done' = [done EXCEPT ![t] = done[t] \cup {f.number}]
           /\ stack' = [stack EXCEPT ![t] = s]
           /\ UNCHANGED <<budget, blocks, handleVars, exit>>
  <2>1. stack'[t] = s /\ mode'[t] = f.mode /\ flight'[t] = f.flight
    BY <1>1, <1>5 DEF TypeOK
  <2>2. \A u \in Threads \ {t} : stack'[u] = stack[u] /\ mode'[u] = mode[u] /\ flight'[u] = flight[u]
    BY <1>1, <1>5 DEF TypeOK
  <2>3. OnCourse(stack'[t], mode'[t], flight'[t])
    BY <1>3, <1>5, <2>1 DEF OnCourse
  <2>4. Kept(s) \o Now(f.flight) = Kept(stack[t])
    <3>1. f.flight \in Flying
      BY <1>5, FrameType
    <3>2. f.flight # NoFlight => Kept(s) \o Now(f.flight) = Append(Kept(s), f.flight)
      BY <1>3, <3>1, Joined
    <3>3. Kept(s) \o Now(NoFlight) = Kept(s)
      BY <1>3, <3>1, Joined
    <3> QED
      BY <1>3, <1>5, <3>2, <3>3 DEF PutsOff
  <2> QED
    BY <1>4, <1>5, <2>1, <2>2, <2>3, <2>4, QuietStep
<1>6. ASSUME f.kind # "block", NEW m \in {"run", "ended"},
             mode' = [mode EXCEPT ![t] = m], stack' = [stack EXCEPT ![t] = s],
             UNCHANGED <<flight, budget, blocks, done, handleVars, exit>>
      PROVE  PanicInv' /\ Handled
  <2>1. stack'[t] = s /\ mode'[t] = m /\ flight'[t] = NoFlight
    BY <1>1, <1>6 DEF TypeOK
  <2>2. \A u \in Threads \ {t} : stack'[u] = stack[u] /\ mode'[u] = mode[u] /\ flight'[u] = flight[u]
    BY <1>1, <1>6 DEF TypeOK
  <2>3. OnCourse(stack'[t], mode'[t], flight'[t])
    BY <1>3, <2>1 DEF OnCourse, Aims
  <2>4. Kept(s) = Kept(stack[t])
    BY <1>3, <1>6 DEF PutsOff
  <2> QED
    BY <1>1, <1>6, <2>1, <2>2, <2>3, <2>4, QuietStep
<1>7. CASE /\ f.kind # "block" /\ Len(stack[t]) > 1
           /\ mode' = [mode EXCEPT ![t] = "run"] /\ stack' = [stack EXCEPT ![t] = s]
           /\ UNCHANGED <<flight, budget, blocks, done, handleVars, exit>>
  BY <1>6, <1>7
<1>8. CASE Exit([why |-> "main"])
  <2> DEFINE w == [why |-> "main"]
  <2>1. w.why = "main" /\ Exit(w)
    BY <1>8
  <2> HIDE DEF w
  <2> QED
    BY <2>1, PanicExit
<1>9. CASE /\ Len(stack[t]) = 1
           /\ mode' = [mode EXCEPT ![t] = "ended"] /\ stack' = [stack EXCEPT ![t] = << >>]
           /\ UNCHANGED <<flight, budget, blocks, done, handleVars, exit>>
  BY <1>3, <1>6, <1>9
<1>10. \/ /\ f.kind = "block"
          /\ mode' = [mode EXCEPT ![t] = f.mode]
          /\ flight' = [flight EXCEPT ![t] = f.flight]
          /\ done' = [done EXCEPT ![t] = done[t] \cup {f.number}]
          /\ stack' = [stack EXCEPT ![t] = s]
          /\ UNCHANGED <<budget, blocks, handleVars, exit>>
       \/ /\ f.kind # "block" /\ Len(stack[t]) > 1
          /\ mode' = [mode EXCEPT ![t] = "run"] /\ stack' = [stack EXCEPT ![t] = s]
          /\ UNCHANGED <<flight, budget, blocks, done, handleVars, exit>>
       \/ Exit([why |-> "main"])
       \/ /\ Len(stack[t]) = 1
          /\ mode' = [mode EXCEPT ![t] = "ended"] /\ stack' = [stack EXCEPT ![t] = << >>]
          /\ UNCHANGED <<flight, budget, blocks, done, handleVars, exit>>
  BY <1>2 DEF Leave
<1> QED
  BY <1>5, <1>7, <1>8, <1>9, <1>10

LEMMA PanicUnwind ==
  ASSUME IInv, PanicInv, NEW t \in Threads, Unwind(t)
  PROVE  PanicInv' /\ Handled
<1>1. /\ mode[t] = "unwind" /\ TypeOK /\ stack[t] # << >> /\ Len(stack[t]) \in Nat
      /\ flight[t] \in Flying /\ flight[t] # NoFlight /\ flight[t].home = Home(stack[t])
  BY Course DEF Unwind, IInv
<1>2. PICK s \in Seq(Frames), f \in Frames : s = Front(stack[t]) /\ f = Top(t)
  BY <1>1, PanicPopped
<1>3. /\ Saved(s) /\ Kept(s) \in Seq(Flying)
      /\ s # << >> => s[1].kind = "body"
      /\ Len(stack[t]) = 1 => f.kind = "body" /\ s = << >>
      /\ Kept(stack[t]) = IF PutsOff(f) THEN Append(Kept(s), f.flight) ELSE Kept(s)
      /\ f.kind = "try" => Home(stack[t]) = Len(stack[t])
      /\ f.kind = "block" => Home(stack[t]) = 0
      /\ f.kind \notin {"try", "block"} => Home(stack[t]) = HomeAt(s, Len(s))
      /\ Len(s) = Len(stack[t]) - 1
  <2>1. stack[t] \in Seq(Frames)
    BY <1>1, StackType
  <2>2. Len(s) = Len(stack[t]) - 1
    BY <1>1, <1>2, <2>1, FrontOf
  <2> QED
    BY <1>1, <1>2, <2>2, PanicPopped
<1>4. PICK g \in Frames : /\ g = [kind |-> "handler", pending |-> << >>,
                                  error |-> Told(flight[t].message)]
                          /\ g.kind = "handler"
  <2> DEFINE e == [kind |-> "handler", pending |-> << >>, error |-> Told(flight[t].message)]
  <2>1. << >> \in Seq(Nat)
    OBVIOUS
  <2>2. e \in Handlers
    BY <2>1 DEF Handlers, Told
  <2>3. e \in Frames /\ e.kind = "handler"
    BY <2>2 DEF Frames
  <2> QED
    BY <2>3
<1>5. CASE /\ f.kind = "try"
           /\ stack' = [stack EXCEPT ![t] = Append(s, g)]
           /\ mode' = [mode EXCEPT ![t] = "run"]
           /\ flight' = [flight EXCEPT ![t] = NoFlight]
           /\ UNCHANGED <<budget, blocks, done, handleVars, exit>>
  <2>1. PICK r \in Seq(Frames) :
          /\ r = Append(s, g) /\ Len(r) = Len(s) + 1 /\ Last(r) = g
          /\ Saved(r) /\ Kept(r) = Kept(s) /\ r[1].kind = "body"
    <3>1. /\ Append(s, g) \in Seq(Frames) /\ Len(Append(s, g)) = Len(s) + 1
          /\ Append(s, g)[Len(s) + 1] = g
      OBVIOUS
    <3>2. Last(Append(s, g)) = g
      BY <3>1 DEF Last
    <3>3. Saved(Append(s, g)) /\ Kept(Append(s, g)) = Kept(s)
      BY <1>3, <1>4, SavedAppend, KeptAppend DEF PutsOff
    <3>4. s # << >>
      <4>1. Len(s) # 0
        <5>1. Len(stack[t]) # 1
          BY <1>3, <1>5
        <5> QED
          BY <1>1, <1>3, <5>1
      <4> QED
        BY <4>1
    <3>5. Append(s, g)[1] = s[1]
      BY <3>4
    <3> QED
      BY <1>3, <3>1, <3>2, <3>3, <3>4, <3>5
  <2>2. stack'[t] = r /\ mode'[t] = "run" /\ flight'[t] = NoFlight
    BY <1>1, <1>5, <2>1 DEF TypeOK
  <2>3. \A u \in Threads \ {t} : stack'[u] = stack[u] /\ mode'[u] = mode[u] /\ flight'[u] = flight[u]
    BY <1>1, <1>5 DEF TypeOK
  <2>4. OnCourse(stack'[t], mode'[t], flight'[t])
    BY <2>1, <2>2 DEF OnCourse, Aims
  <2>5. Kept(stack[t]) = Kept(s)
    BY <1>3, <1>5 DEF PutsOff
  <2>6. Flights(t)' = Kept(s)
    <3>1. Kept(s) \o Now(NoFlight) = Kept(s)
      BY <1>1, <1>3, Joined
    <3> QED
      BY <2>1, <2>2, <3>1, FlightsNext
  <2>7. Front(Flights(t)) = Kept(s) /\ Last(Flights(t)) = flight[t]
    <3>1. Front(Kept(s) \o Now(flight[t])) = Kept(s) /\ Last(Kept(s) \o Now(flight[t])) = flight[t]
      BY <1>1, <1>3, Joined
    <3> QED
      BY <2>5, <3>1, FlightsAre
  <2>8. Len(stack'[t]) = Last(Flights(t)).home
    <3>1. Len(r) = Len(stack[t])
      BY <1>1, <1>3, <2>1
    <3> QED
      BY <1>1, <1>3, <1>5, <2>2, <2>7, <3>1
  <2>9. Met(t)
    BY <1>4, <2>1, <2>2, <2>6, <2>7, <2>8 DEF Met
  <2> QED
    BY <1>5, <2>3, <2>4, <2>9, PanicStep
<1>6. CASE (f.kind = "block" \/ Len(stack[t]) = 1) /\ Terminate(flight[t].home)
  <2> DEFINE w == [why |-> "panic", home |-> flight[t].home]
  <2>1. Home(stack[t]) = 0
    <3>1. CASE f.kind = "block"
      BY <1>3, <3>1
    <3>2. CASE Len(stack[t]) = 1
      <4>1. HomeAt(<< >>, 0) = 0
        BY DEF HomeAt, Max
      <4> QED
        BY <1>1, <1>3, <3>2, <4>1
    <3> QED
      BY <1>6, <3>1, <3>2
  <2>2. w.why = "panic" /\ w.home = 0 /\ Exit(w)
    BY <1>1, <1>6, <2>1 DEF Terminate
  <2> HIDE DEF w
  <2> QED
    BY <2>2, PanicExit
<1>7. CASE /\ f.kind \in {"body", "handler"} /\ Len(stack[t]) > 1
           /\ stack' = [stack EXCEPT ![t] = s]
           /\ UNCHANGED <<mode, flight, budget, blocks, done, handleVars, exit>>
  <2>1. stack'[t] = s /\ \A u \in Threads \ {t} : stack'[u] = stack[u]
    BY <1>1, <1>7 DEF TypeOK
  <2>2. HomeAt(s, Len(s)) = Home(stack[t]) /\ Kept(stack[t]) = Kept(s)
    BY <1>3, <1>7 DEF PutsOff
  <2>3. OnCourse(stack'[t], mode'[t], flight'[t])
    BY <1>1, <1>3, <1>7, <2>1, <2>2 DEF OnCourse, Aims
  <2> QED
    BY <1>7, <2>1, <2>2, <2>3, QuietStep
<1>8. \/ /\ f.kind = "try"
         /\ stack' = [stack EXCEPT ![t] = Append(s, g)]
         /\ mode' = [mode EXCEPT ![t] = "run"]
         /\ flight' = [flight EXCEPT ![t] = NoFlight]
         /\ UNCHANGED <<budget, blocks, done, handleVars, exit>>
      \/ (f.kind = "block" \/ Len(stack[t]) = 1) /\ Terminate(flight[t].home)
      \/ /\ f.kind \in {"body", "handler"} /\ Len(stack[t]) > 1
         /\ stack' = [stack EXCEPT ![t] = s]
         /\ UNCHANGED <<mode, flight, budget, blocks, done, handleVars, exit>>
  BY <1>2, <1>4 DEF Unwind
<1> QED
  BY <1>5, <1>6, <1>7, <1>8

LEMMA PanicSignal ==
  ASSUME NEW g, Signal(g)
  PROVE  PanicInv' /\ Handled
<1> DEFINE w == [why |-> "signal", code |-> g]
<1>1. w.why = "signal" /\ Exit(w)
  BY DEF Signal
<1> HIDE DEF w
<1> QED
  BY <1>1, PanicExit

\* Operations on handles raise panics, start threads or end the process.
LEMMA PanicDrop ==
  ASSUME PanicInv, NEW h, NEW u, NEW how, Drop(h, u, how)
  PROVE  PanicInv' /\ Handled
<1>1. CASE Exit([why |-> "joinable", how |-> how, hurried |-> Held(h) \in hurried])
  <2> DEFINE w == [why |-> "joinable", how |-> how, hurried |-> Held(h) \in hurried]
  <2>1. w.why = "joinable" /\ Exit(w)
    BY <1>1
  <2> HIDE DEF w
  <2> QED
    BY <2>1, PanicExit
<1>2. CASE UNCHANGED <<frameVars, os, exit>>
  BY <1>2, PanicKept DEF frameVars
<1> QED
  BY <1>1, <1>2 DEF Drop

LEMMA PanicHandles ==
  ASSUME IInv, PanicInv, NEW t \in Threads, NEW h \in Handles, NEW u \in Threads, NEW g \in Handles,
         \/ Spawn(t, h, u) \/ Assign(t, h, g) \/ Wait(t, h) \/ Detach(t, h) \/ Dispose(t, h)
         \/ DisposeDetach(h) \/ DisposeDrop(h)
  PROVE  PanicInv' /\ Handled
<1>1. CASE Assign(t, h, g)
  BY <1>1, PanicDrop DEF Assign
<1>2. ASSUME NEW m \in Messages, Raise(t, m)
      PROVE  PanicInv' /\ Handled
  BY <1>2, PanicRaise
<1>3. CASE UNCHANGED <<frameVars, exit>>
  BY <1>3, PanicKept DEF frameVars
<1>4. ASSUME NEW why \in {"joins itself", "no thread"}, Exit([why |-> why])
      PROVE  PanicInv' /\ Handled
  <2> DEFINE w == [why |-> why]
  <2>1. w.why \notin {"panic", "running"} /\ Exit(w)
    BY <1>4
  <2> HIDE DEF w
  <2> QED
    BY <2>1, PanicExit
<1>5. CASE Spawn(t, h, u)
  <2>1. CASE /\ mode[u] = "new" /\ mode' = [mode EXCEPT ![u] = "run"]
             /\ stack' = [stack EXCEPT ![u] = <<Frame("body")>>]
             /\ UNCHANGED <<flight, exit>>
    BY <2>1, PanicStart
  <2> QED
    BY <1>2, <1>4, <1>5, <2>1 DEF Spawn
<1>6. CASE Wait(t, h)
  BY <1>2, <1>3, <1>4, <1>6 DEF Wait
<1>7. CASE Detach(t, h)
  BY <1>2, <1>3, <1>7 DEF Detach
<1>8. CASE Dispose(t, h) \/ DisposeDetach(h)
  BY <1>3, <1>8 DEF Dispose, DisposeDetach
<1>9. CASE DisposeDrop(h)
  BY <1>9, PanicDrop DEF DisposeDrop
<1> QED
  BY <1>1, <1>5, <1>6, <1>7, <1>8, <1>9


LEMMA InitPanic ==
  ASSUME Init
  PROVE  PanicInv
<1>1. /\ stack = [[u \in Threads |-> << >>] EXCEPT ![Main] = <<Frame("body")>>]
      /\ mode = [[u \in Threads |-> "new"] EXCEPT ![Main] = "run"]
      /\ flight = [u \in Threads |-> NoFlight]
      /\ exit = [why |-> "running"]
  BY DEF Init, NoStack, NoMode, NoFlights, Running
<1>2. OnCourse(<< >>, "new", NoFlight)
  <2>1. Len(<< >>) = 0
    OBVIOUS
  <2> QED
    BY <2>1 DEF OnCourse, Saved, Aims
<1>3. OnCourse(<<Frame("body")>>, "run", NoFlight)
  <2>1. \A f : Len(<<f>>) = 1 /\ <<f>>[1] = f
    OBVIOUS
  <2>2. Frame("body").kind = "body"
    BY DEF Frame
  <2>3. \A n \in 1 .. 1 : n = 1
    OBVIOUS
  <2>4. Saved(<<Frame("body")>>)
    BY <2>1, <2>2, <2>3 DEF Saved
  <2> QED
    BY <2>1, <2>2, <2>4 DEF OnCourse, Aims
<1>4. ASSUME NEW u \in Threads
      PROVE  OnCourse(stack[u], mode[u], flight[u])
  <2>1. CASE u = Main
    BY <1>1, <1>3, <2>1
  <2>2. CASE u # Main
    BY <1>1, <1>2, <2>2
  <2> QED
    BY <2>1, <2>2
<1>5. exit.why # "panic"
  BY <1>1
<1> QED
  BY <1>4, <1>5 DEF PanicInv

LEMMA NextPanic ==
  ASSUME IInv, PanicInv, Next
  PROVE  PanicInv' /\ Handled
<1>1. ASSUME NEW t \in Threads, Enter(t, "body") \/ Enter(t, "try") \/ Defer(t) \/ Return(t)
      PROVE  PanicInv' /\ Handled
  BY <1>1, PanicEnter, PanicDefer, PanicReturn
<1>2. ASSUME NEW t \in Threads, NEW m \in Messages, Raise(t, m)
      PROVE  PanicInv' /\ Handled
  BY <1>2, PanicRaise
<1>3. ASSUME NEW t \in Threads, NEW u \in Threads, Co(t, u)
      PROVE  PanicInv' /\ Handled
  BY <1>3, PanicStart DEF Co
<1>4. ASSUME NEW t \in Threads, ProgramStep(t)
      PROVE  PanicInv' /\ Handled
  BY <1>1, <1>2, <1>3, <1>4, PanicHandles DEF ProgramStep
<1>5. ASSUME NEW t \in Threads, RunBlock(t) \/ Leave(t) \/ Unwind(t)
      PROVE  PanicInv' /\ Handled
  BY <1>5, PanicRunBlock, PanicLeave, PanicUnwind
<1>6. ASSUME NEW h \in Handles, DisposeDetach(h) \/ DisposeDrop(h)
      PROVE  PanicInv' /\ Handled
  BY <1>6, ProcessAssumption, PanicHandles
<1>7. CASE \E g \in Signals : Signal(g)
  BY <1>7, PanicSignal
<1> QED
  BY <1>4, <1>5, <1>6, <1>7 DEF Next

\* A panic goes to the recover that was the innermost when it was raised, and to
\* no other, whatever the blocks on its way defer, raise and recover themselves;
\* and it ends the process only when there was none, or a deferred block in
\* between (DeferBase, fn.hpp, terminate.hpp, and the try block of recover).
THEOREM PanicsAreRecovered == Spec => PanicRecovered
<1>1. Init => PanicInv
  BY InitPanic
<1>2. IInv /\ PanicInv /\ [Next]_vars => PanicInv'
  <2>1. PanicInv /\ UNCHANGED vars => PanicInv'
    BY PanicKept DEF vars
  <2> QED
    BY <2>1, NextPanic
<1>3. IInv /\ PanicInv /\ [Next]_vars =>
        [/\ \A t \in Threads :
              LET before == Flights(t)
                  after  == Flights(t)'
              IN  before # after /\ exit' = Running =>
                                    \/ Len(after) > Len(before) /\ IsPrefix(before, after)
                                    \/ /\ after = Front(before)
                                       /\ Len(stack'[t]) = Last(before).home
                                       /\ Last(stack'[t]).kind = "handler"
         /\ exit'.why = "panic" => exit'.home = 0]_vars
  BY NextPanic DEF Handled, Met
<1> QED
  BY <1>1, <1>2, <1>3, Invariance, PTL DEF Spec, PanicRecovered
=============================================================================
