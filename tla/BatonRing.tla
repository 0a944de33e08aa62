----------------------------- MODULE BatonRing -----------------------------
(***************************************************************************)
(* GlobalBaton implements TurnRing once every pod has joined and as long as *)
(* no pod fails.  The line is read off the shared memory: its first member  *)
(* is lock_owner, the others are the ring entries behind the owner's.       *)
(***************************************************************************)
EXTENDS GlobalBaton

PodCount == Cardinality(Managers)

(* pass_baton stores queue_head one step before lock_owner; in between the  *)
(* entry of the current owner is the one just before queue_head.            *)
HeadMoved == \E m \in Managers : pc[m] = "hand"

(* The ring position of the k-th member of the line, k = 2 .. PodCount.     *)
LinePosition(k) ==
  (queue_head + (IF HeadMoved THEN k - 2 ELSE k - 1)) % MAX_MANAGERS

Line == [k \in 1 .. PodCount |->
           IF k = 1 THEN lock_owner ELSE queue[LinePosition(k)]]

Serving == \E m \in Managers : pc[m] \in Holding \ {"enter"}

Ring == INSTANCE TurnRing
          WITH Members <- 0 .. PodCount - 1, N <- PodCount, order <- Line, serving <- Serving

(* The managers take turns strictly in the order of the ring (TurnRing),    *)
(* and every turn is followed by the next member's.                         *)
ImplementsTurnRing == Ring!Spec
=============================================================================
