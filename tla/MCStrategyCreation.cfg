SPECIFICATION CreationSpec
CONSTANTS
  MaxGroups = 2
  MaxGroupSize = 3
  MaxMaxParallel = 2
  Subclouds = {1, 2, 3}
  Groups = {1, 2}
  Files = {"ca"}
  Payloads <- MCPayloads
  MaxCreations = 2
  MaxChanges = 1
CHECK_DEADLOCK FALSE
INVARIANTS
  CreationTypeOK
  StageWithinLimits
  StagesInOrder
  CreatedAsAsked
  CertificateKept
