SPECIFICATION FairSpec
CONSTANTS
  Proxies = {p1}
  Engines = {E1}
  Endpoints = {P1}
  MaxRetry = 2
  LaterTypes = TRUE
  MaxRequests = 5
  MaxChanges = 1
  MaxFaults = 1
INVARIANT TypeOK
PROPERTIES  Settles
