CONSTANTS
  s8 = s8
  m8 = m8
  l12 = l12
  k12 = k12
  b8 = b8
  NumNodes = 6
  Gates <- MCGates
  POs <- MCPOs
  Cells = {s8, m8, b8, l12, k12}
  Offered <- MCOffered
  Mapped <- MCMapped
  Fitting <- MCFitting
  Cut <- MCCut
  Original <- MCOriginal
  Area <- MCArea
  Height <- MCHeight
  Assigned <- MCAssigned
  Arrivals <- MCArrivals
  Measured <- MCMeasured
  RequiredTimes = {5, 8, 14}
  Period = 20
SPECIFICATION Spec
INVARIANTS SomethingSelected
CHECK_DEADLOCK FALSE
