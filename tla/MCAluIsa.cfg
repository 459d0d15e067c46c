CONSTANTS
  IntBits = 4
  Half = 16
  VLMAX = 16
  CellAt <- MCCellAt
  Codes <- MCCodes
  StartOf <- MCStartOf
SPECIFICATION Spec
PROPERTY StandardIsa
