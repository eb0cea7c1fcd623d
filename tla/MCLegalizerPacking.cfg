SPECIFICATION Spec
CONSTANTS
  Cells = {c1, c2, c3, c4}
  NumRows = 1
  RowY <- MCRowY
  MinX <- MCMinX
  MaxX <- MCMaxX
  SiteWidth = 2
  CellInputs <- MCCellInputs
  RowHeights <- MCRowHeights
SYMMETRY Symmetry
INVARIANTS
  QIsExact
  RowOptimal
  LegalResult
PROPERTIES
  TrialIsFinal
