--------------------------- MODULE MCGlobalBaton ---------------------------
EXTENDS GlobalBaton, TLC
Sym == Permutations(Managers)

(* Delayed stays true, and with it what the run checks, so TLC need not     *)
(* look beyond the first delay; CalmUnlessDelayed is the invariant proved.  *)
UntilDelayed == ~Delayed
=============================================================================
