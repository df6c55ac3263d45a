SPECIFICATION EndpointSpec
CONSTANTS
  p1 = p1
  p2 = p2
  Updates = {"patch", "firmware", "kubernetes", "kube rootca"}
  Patches = {p1, p2}
  CentralLoaded = {p1, p2}
  SubLoaded = {p1}
  NumDevices = 2
  NumImages = 2
  Content <- OneContent
  Fits <- FirstForBoth
  MaxVersion = 3
  MaxFaults = 1
  MaxRestarts = 1
  MaxChanges = 1
CHECK_DEADLOCK FALSE
INVARIANTS
  EndpointTypeOK
  CompleteIsDone
PROPERTIES
  Converges
