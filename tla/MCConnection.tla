---------------------------- MODULE MCConnection ----------------------------
(* Small instances of Connection: the sessions of the configurations. *)
EXTENDS Connection, TLC
CONSTANTS s1, s2

SessionSymmetry == Permutations(Sessions)
=============================================================================
