\* Certificates of both types, two versions of loads, two requests at a time.
SPECIFICATION ProxiesSpec
CONSTANTS
  Kinds = {"idns", "iuser", "fernet_repo", "certificate", "file"}
  TrustedCAs = {c1, c2}
  OpenstackCAs = {o1}
  MaxChanges = 2
  MaxPlatformFaults = 2
  Clients = {k1, k2}
  Versions = {v1, v2}
  Images = {i1}
  Patches = {p1}
  MaxCommands = 4
  MaxVaultFaults = 2
INVARIANTS ProxiesTypeOK 
PROPERTIES PlatformConverges
CHECK_DEADLOCK FALSE
