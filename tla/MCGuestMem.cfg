CONSTANTS
  MemPages = 12
  TASK_UNMAPPED_BASE = 6
  Reserve = 2
  StackLen = 1
  Images <- MCImages
  Lengths <- MCLengths
  FixedLengths <- MCLengths
  Breaks <- MCBreaks
  Tame = TRUE
SPECIFICATION Spec
INVARIANTS
  TypeOK
  FreeAboveNext
  LayoutIntact
  NoBiasedImage
  MemInv
