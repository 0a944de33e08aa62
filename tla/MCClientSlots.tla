--------------------------- MODULE MCClientSlots ---------------------------
EXTENDS ClientSlots

(* Processes are numbers here; process 3 gets the pid of process 1.         *)
RecycledPid == [p \in Procs |-> IF p = 3 THEN 1 ELSE p]
OwnPid      == [p \in Procs |-> p]
=============================================================================
