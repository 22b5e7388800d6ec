---------------------------- MODULE MCCollector -----------------------------
(* Small instances of the Collector for TLC. *)
EXTENDS Collector, TLC

CONSTANTS r1, r2, r3, v1, v2, a1, a2, c1, c2

\* Two processes of one account, or each of its own.
OneAccount == [c \in Collectors |-> a1]
TwoAccounts == [c \in Collectors |-> IF c = c1 THEN a1 ELSE a2]

\* Reels and contents are compared for equality only.
Symmetry == Permutations(Reels) \cup Permutations(Contents)
=============================================================================
