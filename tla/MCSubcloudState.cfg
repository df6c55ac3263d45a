\* One audit of the subcloud at a time, one client request, and two events from
\* outside, from a subcloud that is new.
SPECIFICATION FairSpec
CONSTANTS
  Auditors = {a1}
  Audited = {"patching"}
  Reported = {"identity"}
  Requests = {q1}
  FailsToAlarm = 2
  MaxFails = 2
  MaxCasts = 1
  Managed = FALSE
  MaxEvents = 2
INVARIANTS
  TypeOK
  UnmanagedIsUnknown
PROPERTIES
  RequisiteFailures
  StatusCatchesUp
