---------------------------- MODULE MCNetlistRemap ----------------------------
(***************************************************************************)
(* Three inputs and four gates, each of which may read two or three other  *)
(* sets of nodes: cells with different output pins, permuted pins, gates   *)
(* that share what they read, an output in the middle of the network.      *)
(***************************************************************************)
EXTENDS NetlistRemap, TLC

MCDrives == "y1" :> "g7" @@ "y2" :> "g5"
MCPins ==
  "NAND2" :> <<"A1", "A2">> @@ "AND2" :> <<"A1", "A2">> @@
  "AOI21" :> <<"A", "B1", "B2">> @@ "BUF" :> <<"I">>
MCOutputName == "NAND2" :> "ZN" @@ "AND2" :> "Z" @@ "AOI21" :> "ZN" @@ "BUF" :> "Z"
MCCandidates ==
  "g4" :> {"NAND2", "AOI21", "BUF"} @@ "g5" :> {"NAND2", "AND2", "AOI21"} @@
  "g6" :> {"NAND2", "AOI21", "BUF"} @@ "g7" :> {"NAND2", "AND2", "AOI21", "BUF"}
MCCut ==
  "g4" :> ("NAND2" :> <<"x1", "x2">> @@ "AOI21" :> <<"x1", "x2", "x3">>
           @@ "BUF" :> <<"x3">>) @@
  "g5" :> ("NAND2" :> <<"x2", "g4">> @@ "AND2" :> <<"x3", "g4">> @@ "AOI21" :> <<"x1", "x2", "x3">>) @@
  "g6" :> ("NAND2" :> <<"g4", "g5">> @@ "AOI21" :> <<"x2", "g4", "g5">> @@ "BUF" :> <<"g4">>) @@
  "g7" :> ("NAND2" :> <<"x1", "g6">> @@ "AND2" :> <<"g5", "g6">> @@ "AOI21" :> <<"x1", "g4", "g5">>
           @@ "BUF" :> <<"g6">>)
MCPermutation ==
  "g4" :> ("NAND2" :> <<2, 1>> @@ "AOI21" :> <<3, 1, 2>> @@ "BUF" :> <<1>>) @@
  "g5" :> ("NAND2" :> <<1, 2>> @@ "AND2" :> <<2, 1>> @@ "AOI21" :> <<2, 3, 1>>) @@
  "g6" :> ("NAND2" :> <<1, 2>> @@ "AOI21" :> <<2, 1, 3>> @@ "BUF" :> <<1>>) @@
  "g7" :> ("NAND2" :> <<2, 1>> @@ "AND2" :> <<1, 2>> @@ "AOI21" :> <<3, 2, 1>> @@ "BUF" :> <<1>>)
MCOriginal == "g4" :> "NAND2" @@ "g5" :> "NAND2" @@ "g6" :> "NAND2" @@ "g7" :> "NAND2"

=============================================================================
