CONSTANTS
  a8 = a8
  b8 = b8
  a12 = a12
  NumNodes = 6
  Gates <- MCGates
  Leaves <- MCLeaves
  POs <- MCPOs
  Cells = {a8, b8, a12}
  Candidates <- MCCandidates
  Area <- MCArea
  Height <- MCHeight
  X1 = {a8}
  X2 = {a12}
  Original <- MCOriginal
  Assigned <- MCAssigned
  FirstArrival <- MCFirstArrival
  Iterations = 2
SPECIFICATION Spec
INVARIANTS OneTrialAtATime PassKnowsAll LikeWithLike FreshDelays
PROPERTIES SolvesEnd
CHECK_DEADLOCK FALSE
