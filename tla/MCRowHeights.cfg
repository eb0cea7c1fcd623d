SPECIFICATION Spec
CONSTANTS
  NumRows = 17
  Scores = {0, 1}
  chosen_top_K = 5
  Densities12 = {1, 2, 3}
  Densities8 <- MCDensities8
INVARIANTS
  Density12Kept
  Density8Kept
  BothHeights
