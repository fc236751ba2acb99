SPECIFICATION Spec
CONSTANTS
  F64 <- MCF64
  Float <- MCFloat
  Inputs <- MCInputs
  ChunkSizes = {1, 2, 3, 7}
INVARIANTS
  ChunkingIrrelevant
  DeliversExactly
  SnapshotBeforeStreaming
CHECK_DEADLOCK FALSE
