------------------------------ MODULE TurnRing ------------------------------
(***************************************************************************)
(* What the inter-pod lock promises when every pod is up: the members take  *)
(* turns in a fixed cyclic order, one at a time, and the one that finishes  *)
(* goes to the back of the line.                                            *)
(***************************************************************************)
EXTENDS Integers

CONSTANTS
  Members,  \* who takes turns
  N         \* how many they are

VARIABLES
  order,    \* the line: a function from 1..N to the members; order[1] is next or served
  serving   \* TRUE while order[1] runs its turn

Rotated(f) == [k \in 1 .. N |-> IF k = N THEN f[1] ELSE f[k + 1]]

Init ==
  /\ order \in [1 .. N -> Members]
  /\ \A j, k \in 1 .. N : order[j] = order[k] => j = k
  /\ serving \in BOOLEAN

Begin == ~serving /\ serving' = TRUE /\ UNCHANGED order

Pass == serving /\ serving' = FALSE /\ order' = Rotated(order)

Next == Begin \/ Pass

ringVars == <<order, serving>>

(* Turns are taken in order, ...                                            *)
InOrder == Init /\ [][Next]_ringVars

(* ... and the next one always comes.                                       *)
Spec == InOrder /\ WF_ringVars(Next)
=============================================================================
