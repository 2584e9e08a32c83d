SPECIFICATION Spec
CONSTANTS
  Worker = {w1, w2}
  Client = {c1, c2}
  c1 = c1
  c2 = c2
  k1 = k1
  k2 = k2
  k3 = k3
  k4 = k4
  Owner = owner
  Nobody = nobody
  Task = {k1, k2, k3, k4}
  Script <- MCScript
  Spawned <- MCSpawned
  MaxSpurious = 1
INVARIANT FutureGivesResult
