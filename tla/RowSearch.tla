------------------------------- MODULE RowSearch -------------------------------
(***************************************************************************)
(* The search for the row of a gate, step by step (src/src/                *)
(* new_dpsolver.cpp, at the end of New_dp_back_propagation_iteration_rec). *)
(* It begins with the row the gate comes from and goes to and fro, one     *)
(* row farther each time; when one side has no row left it goes on along   *)
(* the other.  It takes every row with room that is no worse than the one  *)
(* it has, and ends at the first row that is worse, with room or not.      *)
(*                                                                         *)
(* BackPropagation says by IsChosenRow what the search comes to; here the  *)
(* loop is followed round by round.  min_cost is the cost of min_row, or   *)
(* MAXFLOAT as long as no row is taken.                                    *)
(***************************************************************************)
EXTENDS BackPropagation

\* Index 0 is min_row = -1: no row is taken.
NoRow == 0

\* Mutant: a row that costs the same ends the search.
TooExpensiveOrEqual(n, rows, at, min_row) ==
  min_row # NoRow /\ Cost(n, rows[at]) >= Cost(n, rows[min_row])

TooExpensive(n, rows, at, min_row) ==
  min_row # NoRow /\ Cost(n, rows[at]) > Cost(n, rows[min_row])

\* The offset on the other side of the original row, one farther on the left.
Across(i) == IF i >= 0 THEN -i - 1 ELSE -i

\* The loop, from offset i and the row taken so far on; it starts at the
\* original row with none.
FoundRow(n, g) ==
  LET rows == Rows[Height[g]]
      o == Origin(n, rows)
      Offsets == {k - o : k \in DOMAIN rows}
      Search[i \in Offsets] ==
        [min_row \in {NoRow} \cup DOMAIN rows |->
           LET taken == IF HasRoom(g, rows[o + i]) THEN o + i ELSE min_row
               next1 == Across(i)
               next2 == Across(next1)
           IN IF TooExpensive(n, rows, o + i, min_row) THEN min_row
              ELSE IF next1 \in Offsets THEN Search[next1][taken]
              ELSE IF next2 \in Offsets THEN Search[next2][taken]
              ELSE taken]
  IN Search[0][NoRow]

(***************************************************************************)
(* For the gate at the head of the queue, whatever candidate it takes, the *)
(* loop ends with the row BackPropagation chooses, and without a row only  *)
(* when there is none: the turns at the ends of the floorplan leave out no *)
(* row, and the search comes back to none.                                 *)
(***************************************************************************)
SearchTakesChosenRow ==
  status = "pass" /\ res_nodes # <<>> /\ Head(res_nodes) \in Gates =>
    LET n == Head(res_nodes)
    IN \A g \in Candidates[n], y \in AllRows :
         LET k == FoundRow(n, g)
         IN IsChosenRow(n, g, y) <=> k # NoRow /\ y = Rows[Height[g]][k]
================================================================================
