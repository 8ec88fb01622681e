------------------------------ MODULE MCSessions ------------------------------
(* A small instance of Sessions: one user and five requests. *)
EXTENDS Sessions, TLC

CONSTANTS r1, r2, r3, r4, r5

FiveRequests == {r1, r2, r3, r4, r5}
Symmetry == Permutations(Requests)
===============================================================================
