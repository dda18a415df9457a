------------------------------- MODULE MCStores -------------------------------
(* GovernedStores on small instances. *)
EXTENDS GovernedStores, TLC

CONSTANTS c1, c2, c3, k1, k2, i1, b1, b2, b3

\* Calls are interchangeable, and so are keys and the official bodies.
Symmetry == Permutations(Call) \cup Permutations(Key) \cup Permutations(Body \ Unofficial)
=============================================================================
