\* A broadcast about an assigned report.
SPECIFICATION Spec
CONSTANTS
  r1 = r1
  R1 = R1
  Conn = {c1}
  Report = {r1}
  Assigned = {r1}
  Variant = {R1}
  NoReport = NoReport
  Unknown = Unknown
  Malformed = Malformed
  Client <- MCClient
  Capacity = 1
  MaxEvents = 1
INVARIANTS BroadcastsSurvived
