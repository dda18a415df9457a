------------------------------ MODULE MCRailway ------------------------------
(* RailwayBridge on small instances. *)
EXTENDS RailwayBridge, TLC

CONSTANTS c1, c2, c3, k1, k2, m1, m2, o1, o2

\* Calls are interchangeable, and so are keys and commits.
Symmetry == Permutations(Call) \cup Permutations(Key) \cup Permutations(Commit)
=============================================================================
