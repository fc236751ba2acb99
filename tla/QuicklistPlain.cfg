SPECIFICATION Spec
CONSTANTS
  F64 <- MCF64
  Float <- MCFloat
  Inputs <- MCPlain
  ChunkSizes = {1, 7}
INVARIANT PlainNodesDelivered
CHECK_DEADLOCK FALSE
