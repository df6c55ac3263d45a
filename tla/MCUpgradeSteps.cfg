SPECIFICATION FairSpec
CONSTANTS
  Modes = {"simplex", "duplex"}
  Patches = {p, q}
  Committed = {p}
  MaxFaults = 2
  MaxRestarts = 2
CHECK_DEADLOCK FALSE
INVARIANTS
  TypeOK
  CompleteIsUpgraded
  
PROPERTIES
  Resumes
