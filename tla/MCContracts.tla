---------------------------- MODULE MCContracts ----------------------------
EXTENDS Contracts, TLC

Symmetry == Permutations(Users) \cup Permutations(Turns) \cup Permutations(Operators)
=============================================================================
