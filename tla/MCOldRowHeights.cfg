SPECIFICATION Spec
CONSTANTS
  NumRows = 7
  Scores <- MCScores
  chosen_top_K = 3
INVARIANTS
  ChosenWithPartners
