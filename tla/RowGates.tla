------------------------------- MODULE RowGates -------------------------------
(***************************************************************************)
(* The gates of one row of the new solver (class treaps of                 *)
(* src/src/new_dpsolver.cpp): their order, their place, and what a legal   *)
(* row is.  RowClusters and ClusterTreaps have the same gates and do the   *)
(* same with them, one with clusters that are sets and one with trees.     *)
(*                                                                         *)
(* Abstractions: positions and widths are integers, and only one row is    *)
(* looked at: which row a gate goes to is decided in BackPropagation.      *)
(***************************************************************************)
EXTENDS Integers, FiniteSets, FiniteSetsExt

CONSTANTS
  Cells,        \* the ids of the gates
  Positions,    \* the original_x the gates may have
  Widths,       \* the widths their cells may have
  max_x_length  \* the width of the row

\* Node 0 is a constant of the network: ids of gates are positive.
ASSUME CellsAssumption ==
  /\ Cells \subseteq Nat \ {0}
  /\ IsFiniteSet(Cells)
  /\ max_x_length \in Nat
  /\ Positions \subseteq [Cells -> Int]
  /\ Widths \subseteq Nat

VARIABLES
  stage,       \* "idle", "right", "left" or "write"
  original_x,  \* of each gate
  width,       \* of the cell of each gate
  nodes,       \* treaps::nodes, the gates in the row
  current,     \* the gate that is placed, or 0
  flag,        \* something was merged in this round
  x            \* the x positions written so far

-----------------------------------------------------------------------------
(***************************************************************************)
(* The order of the gates and their place                                  *)
(***************************************************************************)

\* treapnode::operator<
Before(a, b) ==
  \/ original_x[a] < original_x[b]
  \/ original_x[a] = original_x[b] /\ width[a] < width[b]
  \/ original_x[a] = original_x[b] /\ width[a] = width[b] /\ a < b

\* The order of cell_ids, when that of b is made with the id 0.
BeforeKey(a, b) ==
  \/ original_x[a] < original_x[b]
  \/ original_x[a] = original_x[b] /\ width[a] < width[b]

SumW(c) == MapThenSumSet(LAMBDA n : width[n], c)

Prefix(c, n) == SumW({m \in c : Before(m, n)})

\* A double assigned to an int loses its fraction.
Truncated(a, b) == IF a < 0 THEN -((-a) \div b) ELSE a \div b

AtLeast0(a) == IF a < 0 THEN 0 ELSE a

AtMostEnd(a, w) == IF a + w > max_x_length THEN max_x_length - w ELSE a

HasRoom(n) == SumW(nodes) + width[n] <= max_x_length

-----------------------------------------------------------------------------
(***************************************************************************)
(* Properties                                                              *)
(***************************************************************************)

\* The comparisons of do_placeat tell all gates of the row apart.
DistinctKeys ==
  \A a, b \in nodes :
    original_x[a] = original_x[b] /\ width[a] = width[b] => a = b

(***************************************************************************)
(* The result is a legal row: the gates lie in their order, inside the     *)
(* row, and none on another.  do_placeat compares a cluster that is held   *)
(* at one end of the row with one that is held at the other, positions     *)
(* are truncated, and clusters pushed from one end must not be missed.     *)
(***************************************************************************)
LegalRow ==
  DistinctKeys =>
    \A a \in DOMAIN x :
      /\ 0 <= x[a] /\ x[a] + width[a] <= max_x_length
      /\ \A b \in DOMAIN x : Before(a, b) => x[a] + width[a] <= x[b]

(***************************************************************************)
(* The row is not disturbed without need: if the gates that ended up in it *)
(* were apart where they came from, every one is written where it was, in  *)
(* whatever order they were placed and whatever was merged on the way.     *)
(***************************************************************************)
Undisturbed(a) ==
  /\ original_x[a] >= 0 /\ original_x[a] + width[a] <= max_x_length
  /\ \A b \in nodes : Before(a, b) => original_x[a] + width[a] + 1 < original_x[b]

LegalRowStays ==
  (\A a \in nodes : Undisturbed(a)) => \A a \in DOMAIN x : x[a] = original_x[a]
===============================================================================
