\* Two engines, two callers at a time, four reports or requests, two faults.
SPECIFICATION FairSpec
CONSTANTS
  Engines = {g1, g2}
  Callers = {c1, c2}
  MaxCalls = 4
  MaxFaults = 2
CHECK_DEADLOCK FALSE
INVARIANTS
  TypeOK
  OneInitialSync
PROPERTIES
  VerifiedIsCurrent
  SyncCompletes
