CONSTANTS
  Addr <- MCAddr
  Half <- MCHalf
  JumpTarget <- MCJumpTarget
  Programs <- CsrPrograms
  Bucket <- MCBucket
  fibhash <- MCfibhash
  MaxBlocks = 4
  BufSize = 12
  TRANS_MAX = 5
SPECIFICATION FairSpec
PROPERTY IllegalIsFatal
