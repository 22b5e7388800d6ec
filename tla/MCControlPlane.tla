--------------------------- MODULE MCControlPlane ---------------------------
(* A small instance of ControlPlane: one code, three requests. *)
EXTENDS ControlPlane, TLC
CONSTANTS q1, q2, q3, d1, d2, c1, k1, v1, v2

RequestSymmetry == Permutations(Requests) \cup Permutations(Devices)
=============================================================================
