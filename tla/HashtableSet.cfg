SPECIFICATION Spec
CONSTANTS
  F64 <- MCF64
  Float <- MCFloat
  Inputs <- MCHashtable
  ChunkSizes = {1, 7}
INVARIANT HashtableSetsDelivered
CHECK_DEADLOCK FALSE
