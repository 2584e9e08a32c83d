SPECIFICATION TSOSpec
CONSTANTS
  N = 2
  NLOOP = 1
  Thread = {0,1}
  BufferSize = 1
INVARIANT MutualExclusion
