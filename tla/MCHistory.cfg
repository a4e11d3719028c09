SPECIFICATION Spec
CONSTANTS
  h1 = h1
  h2 = h2
  h3 = h3
  m1 = m1
  m2 = m2
  Hash = {h1, h2, h3}
  NoHash = NoHash
  Mime = {m1, m2}
  MimesOf <- MCMimesOf
  SizeOf <- MCSizeOf
  LimitsSet <- MCLimits
  I64Max = 7
  Cascade = TRUE
  Faults = FALSE
  ClockMayStepBack = FALSE
  MaxClock = 2
  MaxId = 3
INVARIANTS TypeOK NoOrphans EntriesComplete CreatedBeforeUsed
PROPERTIES ImplementsPromise
