------------------------------ MODULE Lifetime ------------------------------
(***************************************************************************)
(* What reference counting promises (README.md, "Memory Safety and         *)
(* Management"), without counters: an object lives from its creation until *)
(* the last of its holders leaves, at that very moment, and never again.   *)
(***************************************************************************)
EXTENDS FiniteSets

CONSTANTS Handles, Objects

VARIABLES
  holders,  \* the handles that hold each object
  fate      \* "unborn", "alive" or "gone"

vars == <<holders, fate>>

Init ==
  /\ holders = [o \in Objects |-> {}]
  /\ fate = [o \in Objects |-> "unborn"]

Free(h) == \A o \in Objects : h \notin holders[o]

Create(o, h) ==
  /\ fate[o] = "unborn" /\ Free(h)
  /\ fate' = [fate EXCEPT ![o] = "alive"]
  /\ holders' = [holders EXCEPT ![o] = {h}]

\* h comes to hold what another handle holds.
Share(o, h) ==
  /\ fate[o] = "alive" /\ Free(h)
  /\ holders' = [holders EXCEPT ![o] = @ \cup {h}]
  /\ UNCHANGED fate

Leave(o, h) ==
  /\ h \in holders[o]
  /\ holders' = [holders EXCEPT ![o] = @ \ {h}]
  /\ fate' = IF holders[o] = {h} THEN [fate EXCEPT ![o] = "gone"] ELSE fate

Next == \E o \in Objects, h \in Handles : Create(o, h) \/ Share(o, h) \/ Leave(o, h)

Spec == Init /\ [][Next]_vars
=============================================================================
