---------------------------- MODULE MCNormalizer ----------------------------
(* Small instances of the normalizer for TLC. *)
EXTENDS Normalizer, TLC

CONSTANTS r1, r2, k1, k2, w1, w2, op

\* Each Reel normalizes to bytes of its own ...
DistinctOutputs == [r \in Reels |-> IF r = r1 THEN {k1} ELSE {k2}]
\* ... or every Reel normalizes to the same bytes.
SharedOutput == [r \in Reels |-> {k1}]

\* Processes and Reels are compared for equality only.
ReelSymmetry == Permutations(Reels)
=============================================================================
