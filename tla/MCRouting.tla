------------------------------ MODULE MCRouting ------------------------------
(* Routing, for TLC: three contracts of two specialists beside the general  *)
(* Agent; the third contract has two exemplars.                             *)
EXTENDS Routing, TLC

CONSTANTS general, s1, s2, k1, k2, k3, e1, e2, e3, e4

MCStored == <<k1, k2, k3>>
MCOwnerOf == [c \in {k1, k2, k3} |-> IF c = k3 THEN s2 ELSE s1]
MCExemplars == [c \in {k1, k2, k3} |-> IF c = k1 THEN {e1} ELSE IF c = k2 THEN {e2} ELSE {e3, e4}]

\* Scores 0 .. 4: unfamiliar, near, and three that are recognised.
Prompt(a, b, c, d) ==
  [e \in {e1, e2, e3, e4} |-> CASE e = e1 -> a [] e = e2 -> b [] e = e3 -> c [] e = e4 -> d]
MCPrompts ==
  {Prompt(0, 0, 1, 0), Prompt(4, 2, 0, 1), Prompt(2, 3, 0, 1), Prompt(2, 2, 4, 1),
   Prompt(4, 2, 0, 3)}

Symmetry == Permutations(Users)
=============================================================================
