----------------------------- MODULE MCRowHeights -----------------------------
(***************************************************************************)
(* Five of eight pairs are chosen, so that there are runs of both heights  *)
(* and the second loop undoes choices of the first; every combination of   *)
(* small densities, with the second loop and without.                      *)
(***************************************************************************)
EXTENDS RowHeightAssignment

MCDensities8 == {-1, 1, 2, 3}
===============================================================================
