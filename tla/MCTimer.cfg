SPECIFICATION Spec
CONSTANTS
  Client = {c1, c2}
  c1 = c1
  c2 = c2
  k1 = k1
  k2 = k2
  k3 = k3
  Worker = worker
  Task = {k1, k2, k3}
  Capturing = {k2}
  Script <- MCScript
  Milli = 2
  MaxLate = 1
  MaxStarts = 3
INVARIANTS TypeOK  OnceMoreAtMost
PROPERTIES ImplementsAlarmClock Progress
