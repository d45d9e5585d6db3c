----------------------------- MODULE MCPackages -----------------------------
(* Small instances of Packages for TLC. *)
EXTENDS Packages

CONSTANTS main, a, b

Lists(n) == UNION {[1 .. k -> Pkgs] : k \in 0 .. n}

\* Packages of one file that uses up to two packages, of two files that use up
\* to one each, and of no file: build directives excluded all of them.
MCFiles == {<<f>> : f \in Lists(2)} \cup {<<f, g>> : f, g \in Lists(1)}
MCPrograms == {p \in [Pkgs -> {<< >>} \cup MCFiles] : p[Main] # << >>}

\* At most one package is broken.
Sound == [p \in Pkgs |-> "none"]
MCFaults ==
  {Sound} \cup {[Sound EXCEPT ![p] = f] : p \in Pkgs, f \in {"unreadable", "faulty"}}
=============================================================================
