SPECIFICATION Spec
CONSTANTS
  d1 = d1
  d2 = d2
  i1 = i1
  i2 = i2
  Daemon = {d1, d2}
  Id = {i1, i2}
  Time = {1, 2}
  None = None
INVARIANT WatcherOwnsEndpoint
