SPECIFICATION FairSpec
CONSTANTS
  NumSubclouds = 1
  GroupOf <- OneGroup
  Serial <- SecondSerial
  MaxParallel <- TwoInParallel
  Types <- PatchAndKube
  Operators <- ShortOperators
  StartingState <- ShortStart
  NextStates <- ShortNext
  SetupTypes = {}
  JobDataStates = {}
  StopChoices = {FALSE}
  SerialApi = FALSE
  ClientsAbort = FALSE
  Touchable = {}
  Deletable = {}
  SlowDelete = FALSE
  MaxStrategies = 2
  MaxRestarts = 1
CHECK_DEADLOCK FALSE
PROPERTIES
  StrategiesEnd
