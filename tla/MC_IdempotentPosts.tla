------------------------- MODULE MC_IdempotentPosts -------------------------
(* Instances of IdempotentPosts for TLC. *)
EXTENDS IdempotentPosts, TLC

CONSTANTS r1, r2, r3, b1, b2, b3

TwoRequests == {r1, r2}
ThreeRequests == {r1, r2, r3}
RootPosts == [b \in Fingerprints |-> None]
OneReplies == [b \in Fingerprints |-> IF b = b3 THEN r1 ELSE None]
RequestSymmetry == Permutations(Requests)
=============================================================================
