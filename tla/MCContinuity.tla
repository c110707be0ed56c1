---------------------------- MODULE MCContinuity ----------------------------
(* Continuity, for TLC: a paraphrased correction, a long new request, two    *)
(* that are too close to call, and one that names its target.                *)
EXTENDS Continuity, TLC

CONSTANTS trim, brief, close, named, c1, c2, q1

MCTraits == (trim :> {}) @@ (brief :> {"adjustment", "creation"}) @@ (close :> {"short"})
              @@ (named :> {"target", "short"})
MCNear ==
  [x \in {trim, brief, close, named} |->
     [a \in {c1, c2, q1} |->
        CASE x = trim -> (IF a = c2 THEN 9 ELSE IF a = q1 THEN 5 ELSE 2)
          [] x = brief -> (IF a = q1 THEN 8 ELSE 3)
          [] x = close -> (IF a = q1 THEN 6 ELSE 5)
          [] x = named -> 7]]

Symmetry == Permutations(Turns)
=============================================================================
