--------------------------- MODULE MCTokenRound ---------------------------
EXTENDS TokenRound, TLC

(* Two threads of one process. *)
OneProcess == [t \in Threads |-> CHOOSE c \in Clients : TRUE]

(* A process for every thread. *)
OwnProcess == [t \in Threads |-> t]

Sym == Permutations(Threads)
=============================================================================
