---------------------------- MODULE MCFairShare ----------------------------
EXTENDS FairShare, TLC
Sym == Permutations(Managers)
(* Minus one, one and a half, NaN, and nothing that parses.                 *)
SomePriorities == {-100, 150, NaN, Unparsable}
=============================================================================
