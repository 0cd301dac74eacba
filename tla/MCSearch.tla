----------------------------- MODULE MCSearch ------------------------------
(* The search index for TLC: users and rebuilds are interchangeable.       *)
EXTENDS SearchIndex, TLC

Symmetry == Permutations(Runs) \union Permutations(Users)
=============================================================================
