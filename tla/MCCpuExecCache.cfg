CONSTANTS
  Addr <- MCAddr
  Half <- MCHalf
  JumpTarget <- MCJumpTarget
  Programs <- CachePrograms
  Bucket <- MCBucket
  fibhash <- MCfibhash
  MaxBlocks = 3
  BufSize = 5
  TRANS_MAX = 2
SPECIFICATION Spec
INVARIANTS
  TypeOK
  RunsTheBlockOfPc
  TranslationFaithful
  LinkSound
  HashChains
  OneBlockPerPc
  SyscallAtItsEcall
  NoEntryWithException
  IndInv
PROPERTIES
  CodeNeverRewritten
