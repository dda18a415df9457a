------------------------------- MODULE MCMemory -------------------------------
(* UserMemory, with the ledger it writes to, on small instances. *)
EXTENDS UserMemory

CONSTANTS c1, r1, r2, f1, f2, s1, s2, gateway, council

\* Solves at the gateway are interchangeable, and so are forgets and sessions.
Symmetry == Permutations(Solve) \cup Permutations(Forget) \cup Permutations(Session)
=============================================================================
