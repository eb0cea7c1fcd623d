SPECIFICATION Spec
CONSTANTS
  Cells <- MCCells
  Positions <- MCPositions
  Widths <- MCWidths
  max_x_length = 10
  Priorities <- MCPriorities
INVARIANTS
  SumsExact
  LegalRow
  LegalRowStays
PROPERTIES
  ImplementsRow
