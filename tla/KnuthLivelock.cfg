SPECIFICATION Spec
CONSTANTS
  N = 3
  NLOOP = 1
  Thread = {0, 1, 2}
  BufferSize = 0
PROPERTY Termination
