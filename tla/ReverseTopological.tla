-------------------------- MODULE ReverseTopological --------------------------
(***************************************************************************)
(* What one pass of the back propagation promises about the order of its   *)
(* work, whatever queue and counters it uses: the gates are taken one at a *)
(* time, every gate once, and no gate before all the gates that use it.    *)
(* A new pass may only begin when the last one has taken every gate.       *)
(***************************************************************************)
CONSTANTS
  Gates,
  Users   \* Users[n]: the gates that read the output of n, in [Gates -> SUBSET Gates]

VARIABLE placed

Init == placed = {}

BeginPass ==
  /\ placed = Gates
  /\ placed' = {}

Take(n) ==
  /\ n \notin placed
  /\ Users[n] \subseteq placed
  /\ placed' = placed \cup {n}

Next == BeginPass \/ \E n \in Gates : Take(n)

Spec == Init /\ [][Next]_placed
===============================================================================
