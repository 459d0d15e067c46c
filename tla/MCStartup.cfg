CONSTANTS
  NULL = NULL
  Strings <- MCStrings
  Dashed <- MCDashed
  Strtoul <- MCStrtoul
  StrLen <- MCStrLen
  OptionRoom = 2
  PathOf <- MCPathOf
  DefaultStackSize = 72
  PATH_MAX = 8
  Chars <- MCChars
  PageSize = 4
  Images <- MCImages
  HeapReserve = 6
  MaxPhdrs = 3
  Word = 4
  Guard = 20
  LongMod = 256
  StackAt = 100
  Scenarios <- MCScenarios
SPECIFICATION Spec
INVARIANTS
  StartupTypeOK
  PathIsResolved
  ImageIsTheFile
  HeapBehindImage
  PtrsFit
  StackInside
  GuestSeesCommandLine
  StackAsAsked
PROPERTIES
  LeftoverMisleads
  StartupEnds
