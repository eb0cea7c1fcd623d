---------------------------- MODULE MCOldRowHeights ----------------------------
(***************************************************************************)
(* Seven rows, three pairs and a row without a partner, with every order   *)
(* of three scores: runs of every length up to seven, and repairs that     *)
(* follow each other.                                                      *)
(***************************************************************************)
EXTENDS OldRowHeights

MCScores == {-1, 0, 1}
===============================================================================
