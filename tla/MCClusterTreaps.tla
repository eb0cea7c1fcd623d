---------------------------- MODULE MCClusterTreaps ----------------------------
(***************************************************************************)
(* Four gates of two widths in a row that three wide ones and a narrow one *)
(* fill to the last unit: positions at both ends of the row, on top of     *)
(* each other, in both orders of their ids, and with room for a gate in    *)
(* between; trees that are chains and trees that are not, with equal       *)
(* priorities too.                                                         *)
(***************************************************************************)
EXTENDS ClusterTreaps

MCCells == 1 .. 4
MCPositions == {<<7, 4, 4, 4>>, <<0, 3, 6, 9>>, <<0, 5, 9, 9>>, <<1, 7, 9, 9>>} \cup
  {p \in [MCCells -> {0, 1, 4, 7}] : \A a, b \in MCCells : a < b => p[a] <= p[b]}
MCWidths == {1, 3}
MCPriorities == {<<1, 2, 3, 4>>, <<2, 1, 1, 2>>}
===============================================================================
