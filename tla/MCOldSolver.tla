----------------------------- MODULE MCOldSolver -----------------------------
(***************************************************************************)
(* Four gates behind two inputs: 3 is read by 4 and 5, 4 by 5 and 6, 5 by  *)
(* 6.  3, 4 and 5 are moved to the other height and have two cells each to *)
(* choose from; 5 drives two outputs, a constant another one.  With        *)
(* remapping 5 may take a cell that reads 2 and 3 alone, and 6 one that    *)
(* reads 2, 3 and 4, so that nothing but an output reads 5 any more; the   *)
(* sum of these three nodes is that of 4 and 5.                            *)
(***************************************************************************)
EXTENDS OldSolver

CONSTANTS s8, m8, b8, l12, k12

MCGates == 3 .. 6
MCPOs == <<5, 0, 6, 5>>
MCOffered == 3 :> {s8, m8, l12} @@ 4 :> {s8, l12, k12} @@ 5 :> {s8, m8, b8, k12} @@ 6 :> {s8, m8, l12}
MCCut ==
  3 :> (s8 :> <<1, 2>> @@ m8 :> <<1, 2>> @@ l12 :> <<1, 2>>) @@
  4 :> (s8 :> <<3>> @@ l12 :> <<3>> @@ k12 :> <<3>>) @@
  5 :> (s8 :> <<2, 3, 4>> @@ m8 :> <<2, 3, 4>> @@ b8 :> <<2, 3>> @@ k12 :> <<2, 3, 4>>) @@
  6 :> (s8 :> <<4, 5>> @@ m8 :> <<2, 3, 4>> @@ l12 :> <<4, 5>>)
MCMapped == 3 :> <<1, 2>> @@ 4 :> <<3>> @@ 5 :> <<2, 3, 4>> @@ 6 :> <<4, 5>>
MCFitting == 3 :> {s8, m8, l12} @@ 4 :> {s8, l12, k12} @@ 5 :> {s8, m8, k12} @@ 6 :> {s8, m8, l12}
MCOriginal == 3 :> l12 @@ 4 :> s8 @@ 5 :> k12 @@ 6 :> l12
MCArea == s8 :> 1 @@ m8 :> 2 @@ b8 :> 3 @@ l12 :> 2 @@ k12 :> 3
MCHeight == s8 :> "8T" @@ m8 :> "8T" @@ b8 :> "8T" @@ l12 :> "12T" @@ k12 :> "12T"
MCAssigned == 3 :> "8T" @@ 4 :> "12T" @@ 5 :> "8T" @@ 6 :> "8T"
MCArrivals == 3 :> {4, 6} @@ 4 :> {8} @@ 5 :> {10} @@ 6 :> {12}
MCMeasured == 3 :> (s8 :> 5 @@ m8 :> 3 @@ l12 :> 4)

=============================================================================
