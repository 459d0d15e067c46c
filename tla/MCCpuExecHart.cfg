CONSTANTS
  Addr <- MCAddr
  Half <- MCHalf
  JumpTarget <- MCJumpTarget
  Programs <- HartPrograms
  Bucket <- MCBucket
  fibhash <- MCfibhash
  MaxBlocks = 4
  BufSize = 12
  TRANS_MAX = 5
SPECIFICATION FairSpec
PROPERTIES
  ImplementsHart
  LookupCompletes
  ExceptionServed
