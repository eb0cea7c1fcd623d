------------------------- MODULE MCLegalizerPacking -------------------------
(***************************************************************************)
(* Packing a row: four cells of two widths in one row whose origin is not  *)
(* zero.  The cells start left of the row, on and between sites, and on    *)
(* top of each other; four wide cells do not fit.                          *)
(***************************************************************************)
EXTENDS Legalizer

MCRowY == [r \in Rows |-> 0]
MCMinX == [r \in Rows |-> 1]
MCMaxX == [r \in Rows |-> 13]
MCCellInputs == [x : {0, 4, 7, 10}, y : {0}, width : {2, 4},
                 gate_height : {"8T"}]
MCRowHeights == [Rows -> {"8T"}]
Symmetry == Permutations(Cells)

\* Widths are multiples of the site width, as ResultIsLegal supposes.
ASSUME MCOnSites == OnSites
==============================================================================
