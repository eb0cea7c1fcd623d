CONSTANTS
  Inputs = {"x1", "x2", "x3"}
  Gates = {"g4", "g5", "g6", "g7"}
  Outputs = {"y1", "y2"}
  Drives <- MCDrives
  Cells = {"NAND2", "AND2", "AOI21", "BUF"}
  Pins <- MCPins
  OutputName <- MCOutputName
  Candidates <- MCCandidates
  Cut <- MCCut
  Permutation <- MCPermutation
  Original <- MCOriginal
SPECIFICATION Spec
INVARIANTS TableIsNetlist TimerIsNetlist
