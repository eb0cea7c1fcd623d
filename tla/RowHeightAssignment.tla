-------------------------- MODULE RowHeightAssignment --------------------------
(***************************************************************************)
(* Which rows become 12T rows (reassign_height_new of the new solver).     *)
(* The rows the cells lie on are taken two by two; the pairs with the most *)
(* 12T area become 12T rows, then two loops break up long runs of pairs of *)
(* one height by giving the pair in the middle of a run the other height.  *)
(*                                                                         *)
(* One step of a loop is one round of its body, which may move the loop's  *)
(* own index.  Abstractions: areas are integers, a row is its index in the *)
(* sorted ylist, and i is the number of a pair, half of the code's index.  *)
(***************************************************************************)
EXTENDS Integers, FiniteSets

CONSTANTS
  NumRows,      \* size of ylist
  Scores,       \* the 12T area less the 8T area a pair of rows may have
  chosen_top_K, \* how many pairs are chosen by their score
  Densities12,  \* what -density_12T may be
  Densities8    \* what -density_8T may be

NumPairs == NumRows \div 2

Pairs == 0 .. NumPairs - 1

\* Nothing in the code checks these: a chosen_top_K above the number of pairs
\* reads past the end of rowScorePairs.
ASSUME OptionsAssumption ==
  /\ NumRows \in Nat
  /\ Scores \subseteq Int
  /\ chosen_top_K \in 0 .. NumPairs
  /\ Densities12 \subseteq Nat \ {0}
  /\ Densities8 \subseteq (Nat \ {0}) \cup {-1}

Rows == 0 .. NumRows - 1

VARIABLES
  density_12T, \* of that many pairs in a row one should be 12T
  density_8T,  \* the same for 8T, or -1
  stage,       \* "choose", "spread12", "spread8", "split" or "done"
  i,           \* the pair a loop looks at
  score,       \* rowScorePairs: the score of each pair
  row_height,  \* "8T", "12T", or "none" (an empty string) for an odd last row
  rows_12T, rows_8T  \* the result

densities == <<density_12T, density_8T>>

vars == <<density_12T, density_8T, stage, i, score, row_height, rows_12T, rows_8T>>

RowsOf(p) == {2 * p, 2 * p + 1}

WithHeight(S, h) ==
  [y \in Rows |-> IF \E p \in S : y \in RowsOf(p) THEN h ELSE row_height[y]]

Init ==
  /\ density_12T \in Densities12
  /\ density_8T \in Densities8
  /\ stage = "choose"
  /\ i = 0
  /\ score \in [Pairs -> Scores]
  /\ row_height = [y \in Rows |-> IF y < 2 * NumPairs THEN "8T" ELSE "none"]
  /\ rows_12T = {}
  /\ rows_8T = {}

-----------------------------------------------------------------------------
\* The first chosen_top_K of the sorted pairs, in any order among equals.
HasTopScores(S) ==
  /\ Cardinality(S) = chosen_top_K
  /\ \A p \in S, q \in Pairs \ S : score[p] >= score[q]

Choose(S) ==
  /\ stage = "choose"
  /\ HasTopScores(S)
  /\ row_height' = WithHeight(S, "12T")
  /\ stage' = "spread12"
  /\ UNCHANGED <<densities, i, score, rows_12T, rows_8T>>

IsHeight(p, h) == p \in Pairs /\ row_height[2 * p] = h

\* cnt0: the pairs of height h from p on, counted up to 2 * d - 1.
RunLength(p, h, d) ==
  CHOOSE n \in 0 .. 2 * d - 1 :
    /\ \A j \in 0 .. n - 1 : IsHeight(p + j, h)
    /\ n = 2 * d - 1 \/ ~IsHeight(p + n, h)

\* Mutants: a run must be longer than d; the last pair of a run is taken.
IsLongRunStrictly(h, d) == RunLength(i, h, d) > d

MiddleIsLast(h, d) == i + RunLength(i, h, d) - 1

IsLongRun(h, d) == RunLength(i, h, d) >= d

Middle(h, d) == i + RunLength(i, h, d) \div 2

\* Mutant: the whole run is given the other height.
BreakRunWholly(from, to, d) ==
  /\ IsLongRun(from, d)
  /\ row_height' = WithHeight(i .. i + RunLength(i, from, d) - 1, to)
  /\ i' = Middle(from, d) + 1

BreakRun(from, to, d) ==
  /\ IsLongRun(from, d)
  /\ row_height' = WithHeight({Middle(from, d)}, to)
  /\ i' = Middle(from, d) + 1

KeepRun(from, d) ==
  /\ ~IsLongRun(from, d)
  /\ i' = i + 1
  /\ UNCHANGED row_height

\* One round of the first loop.
Spread12 ==
  /\ stage = "spread12"
  /\ i < NumPairs
  /\ BreakRun("8T", "12T", density_12T) \/ KeepRun("8T", density_12T)
  /\ UNCHANGED <<densities, stage, score, rows_12T, rows_8T>>

EndSpread12 ==
  /\ stage = "spread12"
  /\ i >= NumPairs
  /\ i' = 0
  /\ stage' = IF density_8T # -1 THEN "spread8" ELSE "split"
  /\ UNCHANGED <<densities, score, row_height, rows_12T, rows_8T>>

\* One round of the second loop.
Spread8 ==
  /\ stage = "spread8"
  /\ i < NumPairs
  /\ BreakRun("12T", "8T", density_8T) \/ KeepRun("12T", density_8T)
  /\ UNCHANGED <<densities, stage, score, rows_12T, rows_8T>>

EndSpread8 ==
  /\ stage = "spread8"
  /\ i >= NumPairs
  /\ stage' = "split"
  /\ UNCHANGED <<densities, i, score, row_height, rows_12T, rows_8T>>

Split ==
  /\ stage = "split"
  /\ rows_12T' = {y \in Rows : row_height[y] = "12T"}
  /\ rows_8T' = Rows \ rows_12T'
  /\ stage' = "done"
  /\ UNCHANGED <<densities, i, score, row_height>>

Stop == stage = "done" /\ UNCHANGED vars

Next ==
  \/ \E S \in SUBSET Pairs : Choose(S)
  \/ Spread12
  \/ EndSpread12
  \/ Spread8
  \/ EndSpread8
  \/ Split
  \/ Stop

Spec == Init /\ [][Next]_vars

-----------------------------------------------------------------------------
(***************************************************************************)
(* Properties                                                              *)
(***************************************************************************)

\* The variables have the types of the locals of reassign_height_new.
TypeOK ==
  /\ density_12T \in Densities12
  /\ density_8T \in Densities8
  /\ stage \in {"choose", "spread12", "spread8", "split", "done"}
  /\ i \in Nat
  /\ score \in [Pairs -> Scores]
  /\ row_height \in [Rows -> {"8T", "12T", "none"}]
  /\ rows_12T \subseteq Rows
  /\ rows_8T \subseteq Rows

\* Every d consecutive pairs with the first in S have one of height h.
DenseFrom(S, h, d) ==
  \A w \in S : w + d <= NumPairs => \E p \in w .. w + d - 1 : IsHeight(p, h)

(***************************************************************************)
(* The promise of -density_12T: no density_12T consecutive pairs are all   *)
(* 8T, although the first loop looks at most 2 * density_12T - 1 pairs     *)
(* ahead and jumps over what it has changed.  The second loop takes 12T    *)
(* pairs away again.  It keeps the promise if it leaves runs of two alone  *)
(* (density_8T is 3 or more) and the density asked for is not 1; otherwise *)
(* a run of 8T pairs may be one pair too long, and no longer - unless      *)
(* density_8T is 1, which leaves no 12T pair at all.                       *)
(***************************************************************************)
KeepsDensity12 == density_8T = -1 \/ (density_8T >= 3 /\ density_12T >= 2)

Density12Kept ==
  stage \in {"split", "done"} =>
    /\ KeepsDensity12 => DenseFrom(Pairs, "12T", density_12T)
    /\ density_8T # 1 => DenseFrom(Pairs, "12T", density_12T + 1)

\* The promise of -density_8T, if it was given: no density_8T consecutive
\* pairs are all 12T.
Density8Kept ==
  stage \in {"split", "done"} /\ density_8T # -1
    => DenseFrom(Pairs, "8T", density_8T)

(***************************************************************************)
(* A 12T row is one of two neighbours of the same height: the rows of a    *)
(* pair never part, and every row is in exactly one of the two lists.      *)
(***************************************************************************)
WholePairs ==
  stage = "done" =>
    /\ rows_12T \cup rows_8T = Rows /\ rows_12T \cap rows_8T = {}
    /\ \A p \in Pairs : RowsOf(p) \subseteq rows_12T \/ RowsOf(p) \subseteq rows_8T
    /\ \A y \in rows_12T : \E p \in Pairs : y \in RowsOf(p)

(***************************************************************************)
(* The back propagation needs a row of each height (it takes row -1 from   *)
(* an empty list).  Breaking up runs never leaves it without one, unless a *)
(* density of 1 asks for just that.                                        *)
(***************************************************************************)
BothHeights ==
  /\ stage = "done"
  /\ chosen_top_K > 0 /\ chosen_top_K < NumPairs
  /\ density_12T # 1 /\ density_8T # 1
  => rows_12T # {} /\ rows_8T # {}
================================================================================
