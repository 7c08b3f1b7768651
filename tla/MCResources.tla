---------------------------- MODULE MCResources ----------------------------
(* Small instances of Resources for TLC. *)
EXTENDS ResourcesInvariant, TLC

CONSTANTS c1, c2, c3

TwoCalls == {c1, c2}
ThreeCalls == {c1, c2, c3}
SymTwo == Permutations(TwoCalls)
SymThree == Permutations(ThreeCalls)
=============================================================================
