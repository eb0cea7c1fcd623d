--------------------------- MODULE MCLegalizerRows ---------------------------
(***************************************************************************)
(* Choosing rows: three rows of one size, three cells, every assignment of *)
(* heights to rows.  A row takes two narrow cells or one wide one, and a   *)
(* narrow cell may stay where it is when it is alone, so rows are full,    *)
(* overfull or out of reach in many of the initial states.  The rows are   *)
(* not evenly spaced: from the middle one, the row below is the closer     *)
(* one, and the row above for a cell half a row up.                        *)
(***************************************************************************)
EXTENDS Legalizer

MCRowY == (0 :> 0) @@ (1 :> 1024) @@ (2 :> 2304)
MCMinX == [r \in Rows |-> 0]
MCMaxX == [r \in Rows |-> 5]
MCCellInputs == {i \in [x : {1, 3}, y : {0, 1024, 1536, 2304}, width : {2, 4},
                        gate_height : Heights] : i.width = 4 => i.x = 1}
MCRowHeights == [Rows -> Heights]
Symmetry == Permutations(Cells)

\* The rows are in order, as NearestChosen supposes.
ASSUME MCRowsApart == RowsApart
==============================================================================
