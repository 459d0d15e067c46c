CONSTANTS
  MemPages = 12
  TASK_UNMAPPED_BASE = 6
  Reserve = 2
  StackLen = 1
  Images <- MCImages
  Lengths <- NoLengths
  FixedLengths <- NoLengths
  Breaks <- MCBreaks
  Tame = TRUE
SPECIFICATION Spec
INVARIANT BrkBacked
