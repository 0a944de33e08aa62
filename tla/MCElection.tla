----------------------------- MODULE MCElection -----------------------------
EXTENDS Election

(* Supervisors are numbers here: a pid of its own for each, or the pid of   *)
(* process 1 recycled for process 3.                                        *)
OwnPid      == [s \in Supervisors |-> s]
RecycledPid == [s \in Supervisors |-> IF s = 3 THEN 1 ELSE s]
=============================================================================
