SPECIFICATION AllocSpec
CONSTANTS
  Block = {b1, b2, b3, b4, b5}
  NULL = NULL
  ChunkSize = 2
SYMMETRY Symmetry
INVARIANTS ListIntact OneOwner
PROPERTY AllocatorSpec
