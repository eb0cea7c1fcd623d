----------------------------- MODULE MCDelaySolve -----------------------------
(***************************************************************************)
(* Four gates behind two inputs (1 and 2): 3 is read by 4, 5 and 6, 4 by 5 *)
(* and 6; 5 and 6 drive outputs.  Gates 3, 4 and 5 have a choice of cells, *)
(* one of them between the heights, and gate 6 has none.                   *)
(***************************************************************************)
EXTENDS DelaySolve, TLC

CONSTANTS a8, b8, a12

MCGates == 3 .. 6
MCLeaves == 3 :> {1, 2} @@ 4 :> {2, 3} @@ 5 :> {3, 4} @@ 6 :> {3, 4}
MCPOs == {2, 5, 6}
MCCandidates == 3 :> {a8, a12} @@ 4 :> {a8, b8} @@ 5 :> {a8, b8, a12} @@ 6 :> {a8}
MCArea == a8 :> 1 @@ b8 :> 2 @@ a12 :> 2
MCHeight == a8 :> "8T" @@ b8 :> "8T" @@ a12 :> "12T"
MCOriginal == 3 :> a8 @@ 4 :> b8 @@ 5 :> a12 @@ 6 :> a8
MCAssigned == 3 :> "12T" @@ 4 :> "8T" @@ 5 :> "8T" @@ 6 :> "8T"

MCFirstArrival[n \in MCGates] ==
  [m \in MCGates |->
     IF m = n THEN {MCOriginal[n]}
     ELSE UNION {MCFirstArrival[l][m] : l \in MCLeaves[n] \cap MCGates}]

=============================================================================
