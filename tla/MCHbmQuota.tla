----------------------------- MODULE MCHbmQuota -----------------------------
EXTENDS HbmQuota

(* Thread t belongs to process t; or both threads to process 1.             *)
OwnProcess == [t \in Threads |-> t]
OneProcess == [t \in Threads |-> 1]

OneDevice  == [p \in Procs |-> 0]
OwnDevice  == [p \in Procs |-> p]
=============================================================================
