CONSTANTS
  Addr <- MCAddr
  Half <- MCHalf
  JumpTarget <- MCJumpTarget
  Programs <- Wr0Programs
  Bucket <- MCBucket
  fibhash <- MCfibhash
  MaxBlocks = 4
  BufSize = 12
  TRANS_MAX = 5
SPECIFICATION Spec
INVARIANT GprZeroAssertion
