\* Two requests, two workers at a time and one crash.
SPECIFICATION FairSpec
CONSTANTS
  Operations = {"add", "rehome", "reconfigure", "reinstall", "restore", "network",
    "prestage", "backup", "backup_delete", "delete", "manage", "unmanage",
    "upgrade", "orch_prestage"}
  Workers = {w1, w2}
  MaxRequests = 2
  MaxCrashes = 1
CHECK_DEADLOCK FALSE
INVARIANTS
  TypeOK
  
  WorkIsShown

  
