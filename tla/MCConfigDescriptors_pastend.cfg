SPECIFICATION Spec
CONSTANTS
  MaxBytes = 3
  MaxByte = 3
  Buffers <- MCBuffers
  SearchTypes = {2, 3, 5}
  Beyond <- MCBeyond
INVARIANT FoundIsThere
