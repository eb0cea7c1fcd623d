SPECIFICATION Spec
CONSTANTS
  NumNodes = 7
  Gates <- MCGates
  Leaves <- MCLeaves
  POs <- MCPOs
  Cells <- MCCells
  Candidates <- MCCandidates
  Area <- MCArea
  Width <- MCWidth
  Height <- MCHeight
  Y <- MCY
  Rows <- MCRows
  Tolerance <- MCTolerance
  max_x_length = 2
  AreaSlacks <- MCAreaSlacks
  Iterations = 5
INVARIANTS
  TypeOK
  RowsHold
  HeightsMatch
  FanoutsKnown
  SearchTakesChosenRow
  
PROPERTIES
  CrashesWhenFull
  BudgetKept
  ReverseTopologicalOrder
  Terminates
