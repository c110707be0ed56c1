--------------------------- MODULE MCCoordination ---------------------------
(* Coordination for TLC. The model's replies are lines of two or three steps    *)
(* after any others; wrong numbers, dependencies that point forwards or at the  *)
(* step itself, and a reply too short are among them.                           *)
EXTENDS Coordination, TLC

Symmetry == Permutations(Callers)

Line(i, after) == [index |-> i, after |-> after]
Reply(lines) == [lines |-> lines, short |-> FALSE]

SmallReplies ==
  {Reply(<<Line(3, {1, 3}), Line(1, {2}), Line(2, {})>>)}

AllReplies ==
  {[lines |-> <<Line(1, {}), Line(2, {1})>>, short |-> TRUE],
   Reply(<<Line(1, {}), Line(3, {1})>>), Reply(<<Line(1, {}), Line(1, {})>>)}
    \cup {Reply(<<Line(2, a), Line(1, b)>>) : a, b \in SUBSET {1, 2}}
    \cup {Reply(<<Line(1, a), Line(2, b), Line(3, c)>>) : a, b, c \in SUBSET {1, 2, 3}}
=============================================================================
