CONSTANTS
  Codes <- MCCodes
  WordOf <- MCWordOf
  Pcs <- MCPcs
  Bases <- MCBases
SPECIFICATION Spec
INVARIANTS
  TypeOK
  FieldsReadAreSet
  DecodesLikeTheIsa
  CompressedExpands
  EdgesAreSuccessors
  LinkIsNextInsn
