----------------------------- MODULE MCElements -----------------------------
EXTENDS Elements

CONSTANTS one, two

\* Two slices of integers; one of them beside an array and a map; and two
\* slices of references, which clones copy.
MCPrograms ==
    {[items |-> "int", slices |-> {one, two}, others |-> FALSE],
     [items |-> "int", slices |-> {one}, others |-> TRUE],
     [items |-> "ref", slices |-> {one, two}, others |-> FALSE],
     [items |-> "ref", slices |-> {one}, others |-> TRUE]}
MCArrays == 1 .. 3
MCCells == 2 .. 4
MCVals == {0, 1}
=============================================================================
