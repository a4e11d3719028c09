SPECIFICATION Spec
CONSTANTS
  c1 = c1
  c2 = c2
  Client = {c1, c2}
  Daemon = mimeclipd
  None = None
  Absent = Absent
  Empty = Empty
  Broken = Broken
  Entries <- MCEntries
  Sizes <- MCSizes
  Env <- MCEnv
  Default <- MCDefault
  Length <- MCLength
  K = 2
  U64Max = 15
INVARIANTS TypeOK FileWhole SettingsKept Applied
CHECK_DEADLOCK FALSE
