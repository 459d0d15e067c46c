CONSTANTS
  MemPages = 12
  TASK_UNMAPPED_BASE = 6
  Reserve = 2
  StackLen = 1
  Images <- MCImages
  Lengths <- MCLengths
  FixedLengths <- NoLengths
  Breaks <- NoBreaks
  Tame = FALSE
SPECIFICATION Spec
PROPERTY HintFindsRoom
