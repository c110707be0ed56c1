------------------------------ MODULE MCRunner ------------------------------
(* Runner, for TLC: two runs, of one principal or of two.                   *)
EXTENDS Runner

CONSTANTS r1, r2, u1, u2, f1, f2

MCAskers == {[r \in Runs |-> u1], [r \in Runs |-> IF r = r1 THEN u1 ELSE u2]}
Started == {{f1}}
=============================================================================
