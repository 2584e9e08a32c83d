SPECIFICATION Spec
CONSTANTS
  N = 3
  NLOOP = 2
  Thread = {0, 1, 2}
  BufferSize = 0
INVARIANTS TypeOK MutualExclusion
PROPERTIES ImplementsAtomicCounter LastThreadFinishes
