---------------------------- MODULE MCPromotion ----------------------------
EXTENDS Promotion, TLC

Symmetry == Permutations(Users) \cup Permutations(Wordings) \cup Permutations(Passes)
=============================================================================
