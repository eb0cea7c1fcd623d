---------------------------- MODULE OldRowHeights ----------------------------
(***************************************************************************)
(* Which rows become 12T rows in the flow of the old solver                *)
(* (reassign_height_new of src/src/row_base.cpp).  The rows with the most  *)
(* 12T area become 12T rows one by one; then a single loop with a counter  *)
(* of the rows since the last change of height repairs every change of     *)
(* height after an odd number of rows, so that rows come in twos.          *)
(*                                                                         *)
(* Abstractions: areas are integers, a row is its index in the sorted      *)
(* ylist.  One step of the loop is one round of its body.                  *)
(***************************************************************************)
EXTENDS Integers, FiniteSets

CONSTANTS
  NumRows,      \* size of ylist
  Scores,       \* the 12T area less the 8T area a row may have
  chosen_top_K  \* how many rows are chosen by their score

\* Nothing in the code checks these: a chosen_top_K above the number of rows
\* reads past the end of rowScorePairs.
ASSUME OptionsAssumption ==
  /\ NumRows \in Nat
  /\ Scores \subseteq Int
  /\ chosen_top_K \in 0 .. NumRows

Rows == 0 .. NumRows - 1

VARIABLES
  stage,       \* "choose", "pair", "split" or "done"
  i,           \* the row the loop looks at
  sum,         \* the rows since the last change of height
  score,       \* rowScorePairs: the score of each row
  chosen,      \* the first chosen_top_K of rowScorePairs
  row_height,  \* of each row
  rows_12T, rows_8T  \* the result

vars == <<stage, i, sum, score, chosen, row_height, rows_12T, rows_8T>>

Init ==
  /\ stage = "choose"
  /\ i = 0
  /\ sum = 0
  /\ score \in [Rows -> Scores]
  /\ chosen = {}
  /\ row_height = [y \in Rows |-> "8T"]
  /\ rows_12T = {}
  /\ rows_8T = {}

-----------------------------------------------------------------------------
\* The first chosen_top_K of the sorted rows, in any order among equals.
HasTopScores(S) ==
  /\ Cardinality(S) = chosen_top_K
  /\ \A p \in S, q \in Rows \ S : score[p] >= score[q]

Choose(S) ==
  /\ stage = "choose"
  /\ HasTopScores(S)
  /\ chosen' = S
  /\ row_height' = [y \in Rows |-> IF y \in S THEN "12T" ELSE row_height[y]]
  /\ stage' = "pair"
  /\ UNCHANGED <<i, sum, score, rows_12T, rows_8T>>

\* The head of the loop; sum has been counted up when it is tested.
Round ==
  /\ stage = "pair"
  /\ i + 1 < NumRows
  /\ i' = i + 1
  /\ UNCHANGED <<stage, score, chosen, rows_12T, rows_8T>>

SameHeight ==
  /\ Round
  /\ row_height[i] = row_height[i + 1]
  /\ sum' = sum + 1
  /\ UNCHANGED row_height

EvenRun ==
  /\ Round
  /\ row_height[i] # row_height[i + 1]
  /\ (sum + 1) % 2 = 0
  /\ sum' = 0
  /\ UNCHANGED row_height

\* Mutant: the rows are counted from nothing after a repair.
OddRunOf8TUncounted ==
  /\ Round
  /\ row_height[i] = "8T" /\ row_height[i + 1] = "12T"
  /\ (sum + 1) % 2 = 1
  /\ row_height' = [row_height EXCEPT ![i] = "12T"]
  /\ sum' = 0

\* The last row of an odd run of 8T rows joins the 12T rows after it.
OddRunOf8T ==
  /\ Round
  /\ row_height[i] = "8T" /\ row_height[i + 1] = "12T"
  /\ (sum + 1) % 2 = 1
  /\ row_height' = [row_height EXCEPT ![i] = "12T"]
  /\ sum' = 1

\* An odd run of 12T rows takes the next row; the run goes on.
OddRunOf12T ==
  /\ Round
  /\ row_height[i] = "12T" /\ row_height[i + 1] = "8T"
  /\ (sum + 1) % 2 = 1
  /\ row_height' = [row_height EXCEPT ![i + 1] = "12T"]
  /\ sum' = sum + 1

EndPairing ==
  /\ stage = "pair"
  /\ i + 1 >= NumRows
  /\ stage' = "split"
  /\ UNCHANGED <<i, sum, score, chosen, row_height, rows_12T, rows_8T>>

Split ==
  /\ stage = "split"
  /\ rows_12T' = {y \in Rows : row_height[y] = "12T"}
  /\ rows_8T' = Rows \ rows_12T'
  /\ stage' = "done"
  /\ UNCHANGED <<i, sum, score, chosen, row_height>>

Stop == stage = "done" /\ UNCHANGED vars

Next ==
  \/ \E S \in SUBSET Rows : Choose(S)
  \/ SameHeight
  \/ EvenRun
  \/ OddRunOf8T
  \/ OddRunOf12T
  \/ EndPairing
  \/ Split
  \/ Stop

Spec == Init /\ [][Next]_vars

-----------------------------------------------------------------------------
(***************************************************************************)
(* Properties                                                              *)
(***************************************************************************)

\* The variables have the types of the locals of reassign_height_new.
TypeOK ==
  /\ stage \in {"choose", "pair", "split", "done"}
  /\ i \in Rows \cup {0}
  /\ sum \in Nat
  /\ score \in [Rows -> Scores]
  /\ chosen \subseteq Rows
  /\ row_height \in [Rows -> {"8T", "12T"}]
  /\ rows_12T \subseteq Rows
  /\ rows_8T \subseteq Rows

\* The rows 2p and 2p + 1 belong together; an odd last row is alone.
Partners(y) == {z \in Rows : z \div 2 = y \div 2}

(***************************************************************************)
(* What the loop with its counter comes to: a row ends as 12T exactly when *)
(* it or its partner was chosen.  So 12T rows come in twos, no chosen row  *)
(* is lost and none is added but the partners of chosen rows, although the *)
(* loop changes rows it has passed and rows it has not yet reached, and    *)
(* carries the counter over from one repair to the next.                   *)
(***************************************************************************)
ChosenWithPartners ==
  stage = "done" =>
    /\ rows_12T = {y \in Rows : Partners(y) \cap chosen # {}}
    /\ rows_8T = Rows \ rows_12T
================================================================================
