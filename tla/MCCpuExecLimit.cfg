CONSTANTS
  Addr <- MCAddr
  Half <- MCHalf
  JumpTarget <- MCJumpTarget
  Programs <- LongPrograms
  Bucket <- MCBucket
  fibhash <- MCfibhash
  MaxBlocks = 4
  BufSize = 12
  TRANS_MAX = 3
SPECIFICATION Spec
INVARIANT FullBlockFallsThrough
