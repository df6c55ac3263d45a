SPECIFICATION Spec
CONSTANTS
  NumSubclouds = 3
  GroupOf <- GroupsOfTwo
  Serial <- SecondSerial
  MaxParallel <- TwoInParallel
  Types <- PatchAndKube
  Operators <- BriefOperators
  StartingState <- BriefStart
  NextStates <- BriefNext
  SetupTypes = {"patch"}
  JobDataStates = {"updating", "finishing"}
  StopChoices = {FALSE, TRUE}
  SerialApi = TRUE
  ClientsAbort = FALSE
  Touchable = {1}
  Deletable = {1}
  SlowDelete = TRUE
  MaxStrategies = 2
  MaxRestarts = 1
CHECK_DEADLOCK FALSE

  
  
PROPERTIES
  ImplementsLifecycle
