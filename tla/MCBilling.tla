------------------------------ MODULE MCBilling ------------------------------
(* Billing on small instances. *)
EXTENDS Billing, TLC

CONSTANTS a1, a2, r1, r2, r3

\* Requests are interchangeable: only their ids differ.
Symmetry == Permutations(Request)
=============================================================================
