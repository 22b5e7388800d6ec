----------------------------- MODULE MCFeedWalk -----------------------------
(* Small instances of the feed walk for TLC. *)
EXTENDS FeedWalk, TLC

CONSTANTS r1, r2, r3

\* What a document embeds and what a response brings: nothing, one or two Reels,
\* the second of two being the next one round.
AnyScripts == {<<>>} \cup {<<r>> : r \in Reels} \cup
              {<<r1, r2>>, <<r2, r3>>, <<r3, r1>>}
AnyPayloads == {<<>>} \cup {<<r>> : r \in Reels}

\* Reels are compared for equality only.
Symmetry == Permutations(Reels)
=============================================================================
