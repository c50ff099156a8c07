SPECIFICATION ChunkSpec
CONSTANTS
  ChunkCalls <- LoopCalls
  DefaultChunk = 7
INVARIANT ChunkReturns
CHECK_DEADLOCK FALSE
