SPECIFICATION FairSpec
CONSTANTS
  NumSubclouds = 3
  GroupOf <- GroupsOfTwo
  Serial <- SecondSerial
  MaxParallel <- TwoInParallel
  Types <- KubeTypes
  Operators <- KubeOperators
  StartingState <- KubeStart
  NextStates <- KubeNext
  SetupTypes = {}
  JobDataStates = {}
  StopChoices = {FALSE, TRUE}
  SerialApi = TRUE
  ClientsAbort = TRUE
  Touchable = {1}
  Deletable = {1}
  SlowDelete = FALSE
  MaxStrategies = 2
  MaxRestarts = 0
CHECK_DEADLOCK FALSE
INVARIANTS
  TypeOK
PROPERTIES
  ImplementsLifecycle
  StrategiesEnd
