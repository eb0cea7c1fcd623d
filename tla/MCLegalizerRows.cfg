SPECIFICATION Spec
CONSTANTS
  Cells = {c1, c2, c3}
  NumRows = 3
  RowY <- MCRowY
  MinX <- MCMinX
  MaxX <- MCMaxX
  SiteWidth = 2
  CellInputs <- MCCellInputs
  RowHeights <- MCRowHeights
SYMMETRY Symmetry
INVARIANTS
  TypeOK
  RowAccounting
PROPERTIES
  CapacityRespected
  HeightRespected
  NearestRow
