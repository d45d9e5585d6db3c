----------------------------- MODULE MCProcess ------------------------------
EXTENDS Process

CONSTANTS main, other, first, second, third

\* A handle in one thread and two in the other, which can hold one of itself and
\* assign one to another while the first thread disposes of a third.
MCHolderOf == (first :> main) @@ (second :> other) @@ (third :> other)

\* One thread that nests deeply or defers much, two side by side, and two of
\* which one has handles.
Budget(f, b, s) == [frames |-> f, blocks |-> b, spawns |-> s]
MCBudgets ==
    {(main :> Budget(3, 2, 0)) @@ (other :> Budget(0, 0, 0)),
     (main :> Budget(2, 3, 0)) @@ (other :> Budget(0, 0, 0)),
     (main :> Budget(1, 1, 0)) @@ (other :> Budget(1, 1, 0)),
     (main :> Budget(1, 1, 1)) @@ (other :> Budget(1, 0, 0))}
\* SIG_CHLD, which is sent whenever a child process ends.
MCSignals == {17}
=============================================================================
