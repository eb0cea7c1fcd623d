-------------------------------- MODULE MCPasses --------------------------------
(***************************************************************************)
(* A constant, two inputs and four gates.  3 drives readers at different   *)
(* depths, 5 an output and a gate, an input and the constant drive outputs *)
(* too.  The rows are too short, two of each height or three, and some     *)
(* cells are wide: whether a pass succeeds depends on the cells it starts  *)
(* from, the exchanges it makes and the rows it happens to choose; passes  *)
(* after the first start from exchanged cells.  The budget is overdrawn    *)
(* or just kept; then every pass is skipped.                               *)
(***************************************************************************)
EXTENDS RowSearch

MCGates == 3 .. 6
MCLeaves == (3 :> {1, 2}) @@ (4 :> {1, 3}) @@ (5 :> {3, 4}) @@ (6 :> {4, 5})
MCPOs == <<6, 0, 2, 5>>
MCCells == {"inv8", "nand8", "nand12", "xor12"}
MCCandidates == (3 :> {"inv8", "nand8", "nand12"}) @@ (4 :> {"inv8", "nand12"})
                  @@ (5 :> {"nand8", "nand12", "xor12"}) @@ (6 :> {"inv8", "xor12"})
MCArea == ("inv8" :> 1) @@ ("nand8" :> 2) @@ ("nand12" :> 3) @@ ("xor12" :> 4)
MCWidth == ("inv8" :> 1) @@ ("nand8" :> 2) @@ ("nand12" :> 1) @@ ("xor12" :> 2)
MCHeight == ("inv8" :> "8T") @@ ("nand8" :> "8T") @@ ("nand12" :> "12T")
              @@ ("xor12" :> "12T")
MCY == (3 :> 2) @@ (4 :> 8) @@ (5 :> 4) @@ (6 :> 6)
MCRows == ("8T" :> <<2, 6, 10>>) @@ ("12T" :> <<4, 8>>)
MCTolerance == ("8T" :> 1) @@ ("12T" :> 0)
MCAreaSlacks == {-4, 0}

\* No gate drives two outputs, as PassesComplete supposes.
ASSUME MCDistinctPOs == DistinctPOs
=================================================================================
