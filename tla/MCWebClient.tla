----------------------------- MODULE MCWebClient -----------------------------
(* The page, for TLC. Every request can be split or none can, so requests are *)
(* interchangeable, as principals and Agents are.                             *)
EXTENDS WebClient, TLC

Symmetry ==
  {u @@ a @@ r : u \in Permutations(Users), a \in Permutations(Agents), r \in Permutations(Runs)}

\* A page that was misled stays so until somebody moves: it need not be followed to where
\* nobody can.
NotLost == misled => Events < MaxEvents
=============================================================================
