SPECIFICATION FairSpec
CONSTANTS
  MaxBytes = 5
  MaxByte = 3
  Buffers <- MCBuffers
  SearchTypes = {2, 3, 5}
  Beyond <- MCBeyond
INVARIANTS
  TypeOK
  InBuffer
  SearchRight
  EndpointsMatchDriver
PROPERTIES
  SearchEnds
