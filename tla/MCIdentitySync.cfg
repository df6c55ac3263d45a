SPECIFICATION FairSpec
CONSTANTS
  Users = {"user"}
  Groups = {"group"}
  Projects = {"project"}
  Roles = {"role"}
  Events = {"event"}
  ServiceUsers = {}
  Deployed = {"user", "group", "project", "role"}
  DeployedGrants <- UserHasRole
  MasterIds = {"m1"}
  MaxChanges = 1
  MaxFaults = 1
CHECK_DEADLOCK FALSE
INVARIANTS
  TypeOK
  AssignmentsRefer

  
