SPECIFICATION Spec
CONSTANTS
  F64 <- MCF64
  Float <- MCFloat
  Inputs <- MCNegative
  ChunkSizes = {1, 7}
INVARIANT SmallIntegersDecoded
CHECK_DEADLOCK FALSE
