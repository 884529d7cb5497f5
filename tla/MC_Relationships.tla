-------------------------- MODULE MC_Relationships --------------------------
(* Instances of Relationships for TLC. *)
EXTENDS Relationships, TLC

CONSTANTS r1, r2, r3

TwoRequests == {r1, r2}
ThreeRequests == {r1, r2, r3}
ScopeKeys == Pairs \X ClientIds
RequestSymmetry == Permutations(Requests)
=============================================================================
