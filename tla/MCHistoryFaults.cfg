SPECIFICATION Spec
CONSTANTS
  h1 = h1
  h2 = h2
  h3 = h3
  m1 = m1
  m2 = m2
  Hash = {h1, h2}
  NoHash = NoHash
  Mime = {m1, m2}
  MimesOf <- MCTwoMimesOf
  SizeOf <- MCTwoSizeOf
  LimitsSet <- MCLimits
  I64Max = 7
  Cascade = FALSE
  Faults = TRUE
  ClockMayStepBack = TRUE
  MaxClock = 1
  MaxId = 3
INVARIANTS PayloadsMatchHash
PROPERTIES TornByOwnInsertOnly NoNeedlessEviction
