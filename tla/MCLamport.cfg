SPECIFICATION Spec
CONSTANTS
  N = 3
  NLOOP <- MCNLOOP
  Thread = {0, 1, 2}
  BufferSize = 0
INVARIANTS TypeOK MutualExclusion FirstComeFirstServed TicketBound
PROPERTIES ImplementsAtomicCounter Termination
